----------------------------- MODULE CaHandover -----------------------------
(***************************************************************************)
(* What a rotation promises to the nodes, with no word of flags, jobs,     *)
(* tables, reports or alarms: how the CA that issues the certificates of   *)
(* the nodes, the CAs nginx trusts and the certificates the nodes hold     *)
(* change together.  CAs are numbered in the order of their creation.      *)
(***************************************************************************)
EXTENDS Naturals

CONSTANTS Nodes,
          Staying,    \* nodes that are known from the start and never leave
          MayHurry    \* the CA may expire before every node has renewed

VARIABLES issuer,     \* the CA that issues certificates
          trust,      \* the CAs nginx trusts
          cert        \* the CA of each node's certificate, 0 for none

handoverVars == <<issuer, trust, cert>>

Init == /\ issuer = 1 /\ trust = {1}
        /\ cert \in [Nodes -> {0, 1}] /\ \A n \in Staying : cert[n] = 1

\* A new CA comes only after the previous one has been handed over.
Introduce == /\ trust = {issuer} /\ issuer' = issuer + 1
             /\ UNCHANGED <<trust, cert>>

Announce == /\ trust' = trust \cup {issuer}
            /\ UNCHANGED <<issuer, cert>>

\* A node that has none gets a certificate whether or not nginx knows its CA.
Enroll(n) == /\ cert[n] = 0 /\ cert' = [cert EXCEPT ![n] = issuer]
             /\ UNCHANGED <<issuer, trust>>

Renew(n) == /\ issuer \in trust /\ cert' = [cert EXCEPT ![n] = issuer]
            /\ UNCHANGED <<issuer, trust>>

\* Older CAs go when everybody who stays has renewed, or in a hurry.
Retire == /\ MayHurry \/ \A n \in Staying : cert[n] = issuer
          /\ trust' = {issuer}
          /\ UNCHANGED <<issuer, cert>>

Next == Introduce \/ Announce \/ Retire \/ \E n \in Nodes : Enroll(n) \/ Renew(n)

Spec == Init /\ [][Next]_handoverVars

\* Nobody who stays is ever locked out, unless the hand-over was hurried.
StayersAreTrusted == MayHurry \/ \A n \in Staying : cert[n] \in trust
=============================================================================
