------------------------------ MODULE DataSched ------------------------------
(***************************************************************************)
(* CDataScheduler: which peer knows which data, and which peer each datum  *)
(* is requested from.  A peer is asked for one datum at a time, a datum    *)
(* from one peer at a time.                                                *)
(*                                                                         *)
(* The records of mapPeer and mapData are kept as one function per field,  *)
(* with the domains in mapPeer and mapData: an erased record has its       *)
(* fields as a constructor leaves them.  Schedule walks mapPeer in the     *)
(* order of the nonces; each round of its loop is a step, and no other     *)
(* call comes between them.                                                *)
(***************************************************************************)
EXTENDS SchedPromise

vars == <<mapPeer, listDataIdent, fAssigned, mapData, setKnownPeer, nAssigned, it, vAssigned>>

\* list::remove of a datum that the list holds once.
Without(s, d) ==
    IF d \notin Elements(s) THEN s
    ELSE LET i == CHOOSE j \in DOMAIN s : s[j] = d
         IN  [j \in 1..(Len(s) - 1) |-> IF j < i THEN s[j] ELSE s[j + 1]]

Init ==
    /\ mapPeer = {}
    /\ listDataIdent = [p \in Nonce |-> <<>>]
    /\ fAssigned = [p \in Nonce |-> FALSE]
    /\ mapData = {}
    /\ setKnownPeer = [d \in Ident |-> {}]
    /\ nAssigned = [d \in Ident |-> 0]
    /\ it = 0
    /\ vAssigned = <<>>

Idle == it = 0 /\ UNCHANGED <<it, vAssigned>>
-----------------------------------------------------------------------------
\* ActivatePeer: insert leaves a peer alone that is already there.
ActivatePeer(p) ==
    /\ Idle
    /\ mapPeer' = mapPeer \cup {p}
    /\ UNCHANGED <<listDataIdent, fAssigned, mapData, setKnownPeer, nAssigned>>

\* Mutant of DeactivatePeer: the data requested from the peer stay requested from it.
DeactivatePeerAlone(p) ==
    /\ Idle
    /\ p \in mapPeer
    /\ mapPeer' = mapPeer \ {p}
    /\ listDataIdent' = [listDataIdent EXCEPT ![p] = <<>>]
    /\ fAssigned' = [fAssigned EXCEPT ![p] = FALSE]
    /\ setKnownPeer' = [d \in Ident |-> IF d \in Elements(listDataIdent[p])
                                        THEN setKnownPeer[d] \ {p} ELSE setKnownPeer[d]]
    /\ UNCHANGED <<mapData, nAssigned>>

\* DeactivatePeer: RemovePeer on every datum of its list, and the record goes.
DeactivatePeer(p) ==
    /\ Idle
    /\ p \in mapPeer
    /\ mapPeer' = mapPeer \ {p}
    /\ listDataIdent' = [listDataIdent EXCEPT ![p] = <<>>]
    /\ fAssigned' = [fAssigned EXCEPT ![p] = FALSE]
    /\ mapData' = mapData \cup Elements(listDataIdent[p])
    /\ setKnownPeer' = [d \in Ident |-> IF d \in Elements(listDataIdent[p])
                                        THEN setKnownPeer[d] \ {p} ELSE setKnownPeer[d]]
    /\ nAssigned' = [d \in Ident |-> IF d \in Elements(listDataIdent[p]) /\ nAssigned[d] = p
                                     THEN 0 ELSE nAssigned[d]]

\* AddKnownData: the list grows only when the set did.
AddKnownData(p, d) ==
    /\ Idle
    /\ p \in mapPeer
    /\ mapData' = mapData \cup {d}
    /\ setKnownPeer' = [setKnownPeer EXCEPT ![d] = @ \cup {p}]
    /\ listDataIdent' = IF p \in setKnownPeer[d] THEN listDataIdent
                        ELSE [listDataIdent EXCEPT ![p] = Append(@, d)]
    /\ UNCHANGED <<mapPeer, fAssigned, nAssigned>>

\* RemoveKnownData: the datum leaves every list, its peer is free again, its record goes.
RemoveKnownData(d) ==
    /\ Idle
    /\ d \in mapData
    /\ mapData' = mapData \ {d}
    /\ setKnownPeer' = [setKnownPeer EXCEPT ![d] = {}]
    /\ nAssigned' = [nAssigned EXCEPT ![d] = 0]
    /\ listDataIdent' = [p \in Nonce |-> IF p \in setKnownPeer[d] THEN Without(listDataIdent[p], d)
                                         ELSE listDataIdent[p]]
    /\ fAssigned' = [p \in Nonce |-> IF p = nAssigned[d] THEN FALSE ELSE fAssigned[p]]
    /\ UNCHANGED mapPeer

\* UnassignPeer: the datum may be requested again, and its peer be asked for another.
UnassignPeer(d) ==
    /\ Idle
    /\ mapData' = mapData \cup {d}
    /\ nAssigned' = [nAssigned EXCEPT ![d] = 0]
    /\ fAssigned' = [p \in Nonce |-> IF p = nAssigned[d] THEN FALSE ELSE fAssigned[p]]
    /\ UNCHANGED <<mapPeer, listDataIdent, setKnownPeer>>

\* Clear.
Clear ==
    /\ Idle
    /\ mapPeer' = {}
    /\ mapData' = {}
    /\ listDataIdent' = [p \in Nonce |-> <<>>]
    /\ fAssigned' = [p \in Nonce |-> FALSE]
    /\ setKnownPeer' = [d \in Ident |-> {}]
    /\ nAssigned' = [d \in Ident |-> 0]
-----------------------------------------------------------------------------
\* Schedule starts at the first peer.
ScheduleBegin ==
    /\ it = 0
    /\ it' = 1
    /\ vAssigned' = <<>>
    /\ UNCHANGED <<mapPeer, listDataIdent, fAssigned, mapData, setKnownPeer, nAssigned>>

\* Assign(nNonce) succeeds: the datum is free, or requested from the peer already.
Assignable(p, d) == nAssigned[d] \in {0, p}

\* The first datum of the peer's list that Assign accepts.
First(p, i) ==
    /\ i \in DOMAIN listDataIdent[p]
    /\ Assignable(p, listDataIdent[p][i])
    /\ \A j \in DOMAIN listDataIdent[p] : j < i => ~ Assignable(p, listDataIdent[p][j])

\* A round that assigns.
ScheduleAssign ==
    /\ it \in mapPeer
    /\ ~ fAssigned[it]
    /\ \E i \in DOMAIN listDataIdent[it] :
          /\ First(it, i)
          /\ nAssigned' = [nAssigned EXCEPT ![listDataIdent[it][i]] = it]
          /\ vAssigned' = Append(vAssigned, <<it, listDataIdent[it][i]>>)
    /\ fAssigned' = [fAssigned EXCEPT ![it] = TRUE]
    /\ it' = it + 1
    /\ UNCHANGED <<mapPeer, listDataIdent, mapData, setKnownPeer>>

\* A round that does not: no such peer, a busy one, or nothing it knows is free.
SchedulePass ==
    /\ it \in Nonce
    /\ it \in mapPeer => \/ fAssigned[it]
                        \/ \A d \in Elements(listDataIdent[it]) : ~ Assignable(it, d)
    /\ it' = it + 1
    /\ UNCHANGED <<mapPeer, listDataIdent, fAssigned, mapData, setKnownPeer, nAssigned, vAssigned>>

\* Schedule returns.
ScheduleEnd ==
    /\ it = MaxNonce + 1
    /\ it' = 0
    /\ vAssigned' = <<>>
    /\ UNCHANGED <<mapPeer, listDataIdent, fAssigned, mapData, setKnownPeer, nAssigned>>

Next ==
    \/ \E p \in Nonce : ActivatePeer(p) \/ DeactivatePeer(p)
    \/ \E p \in Nonce, d \in Ident : AddKnownData(p, d)
    \/ \E d \in Ident : RemoveKnownData(d) \/ UnassignPeer(d)
    \/ Clear
    \/ ScheduleBegin \/ ScheduleAssign \/ SchedulePass \/ ScheduleEnd

Spec == Init /\ [][Next]_vars
-----------------------------------------------------------------------------
TypeOK ==
    /\ mapPeer \in SUBSET Nonce
    /\ listDataIdent \in [Nonce -> Seq(Ident)]
    /\ fAssigned \in [Nonce -> BOOLEAN]
    /\ mapData \in SUBSET Ident
    /\ setKnownPeer \in [Ident -> SUBSET Nonce]
    /\ nAssigned \in [Ident -> Nonce \cup {0}]
    /\ it \in 0..(MaxNonce + 1)
    /\ vAssigned \in Seq(Nonce \X Ident)
=============================================================================
