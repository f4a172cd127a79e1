---------------------------- MODULE SchedPromise ----------------------------
(***************************************************************************)
(* What CDataScheduler keeps, and how its records must agree between any   *)
(* two calls.  DataSched says what the calls do.                           *)
(***************************************************************************)
EXTENDS Naturals, Sequences

CONSTANTS MaxNonce, \* the largest nonce: peers are 1..MaxNonce, and 0 is no peer
          Ident    \* data identifiers

VARIABLES mapPeer,         \* the nonces of the peers that are active
          listDataIdent,   \* nonce -> the data its peer knows, oldest first
          fAssigned,       \* nonce -> whether a datum is requested from the peer
          mapData,         \* the data that have a record
          setKnownPeer,    \* datum -> the peers that know it
          nAssigned,       \* datum -> the peer it is requested from, or 0
          it,              \* the peer Schedule is at; 0 when it does not run
          vAssigned        \* what Schedule has assigned so far: <<nonce, datum>>

Nonce == 1..MaxNonce

Elements(s) == {s[i] : i \in DOMAIN s}
-----------------------------------------------------------------------------
\* The list of a peer and the sets of peers say the same.
KnownBoth == \A p \in Nonce : Elements(listDataIdent[p]) = {d \in Ident : p \in setKnownPeer[d]}

\* A list holds a datum once.
KnownOnce == \A p \in Nonce : \A i, j \in DOMAIN listDataIdent[p] :
                listDataIdent[p][i] = listDataIdent[p][j] => i = j

\* Only peers that are there know data, and only data with a record are known or requested.
KnownThere == \A d \in Ident : /\ setKnownPeer[d] \subseteq mapPeer
                               /\ d \notin mapData => setKnownPeer[d] = {} /\ nAssigned[d] = 0

KnownAgree == KnownBoth /\ KnownOnce /\ KnownThere

\* A datum is requested from a peer that knows it and that counts as busy; a busy peer
\* has exactly one datum requested from it.
AssignedAgree ==
    /\ \A d \in Ident : nAssigned[d] # 0 => /\ nAssigned[d] \in setKnownPeer[d]
                                            /\ fAssigned[nAssigned[d]]
    /\ \A p \in Nonce : fAssigned[p] => \E d \in Ident : nAssigned[d] = p
    /\ \A d, e \in Ident : nAssigned[d] # 0 /\ nAssigned[d] = nAssigned[e] => d = e

\* Where Schedule has been, no peer is idle that knows a datum nobody is asked for, and
\* what it reports is what it assigned.
ScheduledSoFar ==
    it # 0 =>
      /\ \A p \in mapPeer : p < it =>
            fAssigned[p] \/ \A d \in Ident : p \in setKnownPeer[d] => nAssigned[d] # 0
      /\ \A k \in DOMAIN vAssigned : nAssigned[vAssigned[k][2]] = vAssigned[k][1]

\* The records of peers and data agree in every state, whatever calls came before:
\* nobody is asked twice, no datum is requested from a peer that left, and Schedule
\* leaves nothing unrequested that it could request (datasched.h:138).
SchedulerAgrees == KnownAgree /\ AssignedAgree /\ ScheduledSoFar
=============================================================================
