------------------------------ MODULE LuaThreads ------------------------------
(***************************************************************************)
(* What calls, errors and coroutines promise a Lua program: frames has the *)
(* functions every thread is in, and one thread runs.  An error ends all   *)
(* up to the innermost protected call of its thread, whose message handler *)
(* it goes to, or else the thread, and is handed to whoever resumed it.  A *)
(* yield keeps everything, and a resume goes on with it.                   *)
(***************************************************************************)
EXTENDS Integers, Sequences, SequencesExt, FiniteSetsExt

CONSTANTS MainThread, Coroutine

VARIABLES frames,    \* of every thread, the kinds of the functions it is in
          standing,  \* of every thread: "running", "normal", "suspended" or "dead"
          chain,     \* the main thread, whom it resumed, whom that resumed, to the one that runs
          handler    \* the frame whose message handler got the last error, or 0

Threads == Coroutine \cup {MainThread}
Running == Last(chain)

\* A function is a Lua function, or one that calls back through C: protected, with a handler of
\* its own or without, or plain, with a continuation or without.
Protected == {"pcall", "xpcall"}
NoYield == {"sort"}
Callers == Protected \cup NoYield \cup {"dofile"}
Resumers == {"resume", "wrap"}

Init == /\ frames = [th \in Threads |-> IF th = MainThread THEN <<"lua">> ELSE <<>>]
        /\ standing = [th \in Threads |-> IF th = MainThread THEN "running" ELSE "suspended"]
        /\ chain = <<MainThread>>
        /\ handler = 0

\* The running thread gets a new standing and control goes back to its resumer.
Handback(st, ch, new) ==
    IF Len(ch) = 1 THEN [st EXCEPT ![Last(ch)] = new]
    ELSE [st EXCEPT ![Last(ch)] = new, ![ch[Len(ch) - 1]] = "running"]

\* A Lua function calls another one, itself or through one of the callers.
Call == /\ \E new \in {<<"lua">>} \cup {<<c, "lua">> : c \in Callers} :
              frames' = [frames EXCEPT ![Running] = @ \o new]
        /\ UNCHANGED <<standing, chain, handler>>

Return == LET fs == Front(frames[Running])
          IN  /\ frames' = IF fs = <<>> /\ Len(chain) > 1
                           THEN [frames EXCEPT ![Running] = <<>>, ![chain[Len(chain) - 1]] = Front(@)]
                           ELSE [frames EXCEPT ![Running] =
                                    IF fs # <<>> /\ Last(fs) \in Callers THEN Front(fs) ELSE fs]
              /\ IF fs = <<>> THEN /\ standing' = Handback(standing, chain, "dead")
                                   /\ chain' = Front(chain)
                 ELSE UNCHANGED <<standing, chain>>
              /\ UNCHANGED handler

Guards(fs) == {i \in DOMAIN fs : fs[i] \in Protected}

\* An error in the last thread of ch: what becomes of everybody.  A wrapped coroutine hands it
\* on to whoever resumed it.
RECURSIVE Fails(_, _, _)
Fails(ch, fr, st) ==
    LET th == Last(ch)
        by == ch[Len(ch) - 1]
        caught == Guards(fr[th])
        up == [fr EXCEPT ![th] = <<>>, ![by] = Front(@)]
    IN  IF caught # {}
        THEN [frames |-> [fr EXCEPT ![th] = SubSeq(@, 1, Max(caught) - 1)], standing |-> st, chain |-> ch,
              handler |-> IF fr[th][Max(caught)] = "xpcall" THEN Max(caught) ELSE 0]
        ELSE IF Len(ch) = 1
        THEN [frames |-> [fr EXCEPT ![th] = <<>>], standing |-> [st EXCEPT ![th] = "dead"], chain |-> <<>>,
              handler |-> 0]
        ELSE IF Last(fr[by]) = "wrap" THEN Fails(Front(ch), up, Handback(st, ch, "dead"))
        ELSE [frames |-> up, standing |-> Handback(st, ch, "dead"), chain |-> Front(ch), handler |-> 0]

\* Also where a caller is just entered, when C stack or arguments do not do.
Fail == \E fr \in {frames} \cup {[frames EXCEPT ![Running] = Append(@, c)] : c \in Callers} :
        \E r \in {Fails(chain, fr, standing)} :
            frames' = r.frames /\ standing' = r.standing /\ chain' = r.chain /\ handler' = r.handler

Yieldable(th) == th # MainThread /\ \A i \in DOMAIN frames[th] : frames[th][i] \notin NoYield

Yield == /\ Yieldable(Running)
         /\ frames' = [frames EXCEPT ![chain[Len(chain) - 1]] = Front(@)]
         /\ standing' = Handback(standing, chain, "suspended")
         /\ chain' = Front(chain)
         /\ UNCHANGED handler

Resume(co) == /\ standing[co] = "suspended"
              /\ \E fn \in Resumers : frames' = [frames EXCEPT ![Running] = Append(@, fn),
                                                             ![co] = IF @ = <<>> THEN <<"lua">> ELSE @]
              /\ standing' = [standing EXCEPT ![Running] = "normal", ![co] = "running"]
              /\ chain' = Append(chain, co)
              /\ UNCHANGED handler

Next == /\ chain # <<>>
        /\ Call \/ Return \/ Fail \/ Yield \/ \E co \in Coroutine : Resume(co)

promised == <<frames, standing, chain, handler>>
Spec == Init /\ [][Next]_promised
===============================================================================
