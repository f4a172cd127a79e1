---------------------------- MODULE HttpService ----------------------------
(***************************************************************************)
(* What the HTTP client promises to the modules that use it: a request it  *)
(* has accepted is answered by one response event, whatever happens to the *)
(* host name, the connection, the server or the program's own shutdown.    *)
(* It never answers twice and never answers what it was not asked.         *)
(***************************************************************************)
EXTENDS Naturals

CONSTANT Req               \* the requests

VARIABLES accepted,        \* requests that DispatchEvent has returned for
          answers          \* response events posted for each request

Init ==
    /\ accepted = {}
    /\ answers = [r \in Req |-> 0]

Unanswered == {r \in accepted : answers[r] = 0}

Post(S) == answers' = [r \in Req |-> IF r \in S THEN answers[r] + 1 ELSE answers[r]]

\* A request is accepted; it may be answered at once.
Accept(r) ==
    /\ r \notin accepted
    /\ accepted' = accepted \cup {r}
    /\ \E S \in SUBSET {r} : Post(S)

\* One step of the client may answer several requests.
Respond ==
    /\ \E S \in SUBSET Unanswered : S # {} /\ Post(S)
    /\ UNCHANGED accepted

Next == (\E r \in Req : Accept(r)) \/ Respond

Spec == Init /\ [][Next]_<<accepted, answers>>
============================================================================
