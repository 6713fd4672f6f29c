---------------------------- MODULE MC_Services ----------------------------
(* Instances for TLC of four services of the passport server that share no  *)
(* state: accounts, the rate limiter, FrogCrypto and POAPs.  A behaviour is *)
(* one of one of them, chosen at first, while the others stay as they are.  *)
EXTENDS FrogFaucet, RateLimit, Accounts, PoapClaims, TLC

CONSTANTS u1, g1, g2, q1, q2,             \* a user of FrogCrypto, feeds, requests
          a1, a2, m1, m2, m3, i1, i2,     \* accounts, addresses, identities
          d1, d2, e1, e2, e3              \* tickets and links of POAPs

VARIABLE service

ServicesInit ==
    /\ service \in {"frogs", "rates", "accounts", "poaps"}
    /\ FrogInit /\ RateInit /\ AccountsInit /\ PoapInit

ServicesNext ==
    /\ UNCHANGED service
    /\ \/ /\ service = "frogs" /\ FrogNext
          /\ UNCHANGED <<rateVars, accountVars, poapVars>>
       \/ /\ service = "rates" /\ RateNext
          /\ UNCHANGED <<frogVars, accountVars, poapVars>>
       \/ /\ service = "accounts" /\ AccountsNext
          /\ UNCHANGED <<frogVars, rateVars, poapVars>>
       \/ /\ service = "poaps" /\ PoapNext
          /\ UNCHANGED <<frogVars, rateVars, accountVars>>

ServicesSpec ==
    /\ ServicesInit
    /\ [][ServicesNext]_<<frogVars, rateVars, accountVars, poapVars, service>>

-----------------------------------------------------------------------------
\* Constants.
FrogCooldowns == g1 :> 5 @@ g2 :> 5
FrogEnds == g1 :> 100 @@ g2 :> 6
LegacyAccounts == a1 :> <<m1, i1>>
LinkEvents == e1 :> g1 @@ e2 :> g1 @@ e3 :> g2
TicketEvents == d1 :> g1 @@ d2 :> g1

-----------------------------------------------------------------------------
(* Type correctness of every service.                                       *)
ServicesTypeOK == FrogTypeOK /\ RateTypeOK /\ AccountsTypeOK /\ PoapTypeOK
=============================================================================
