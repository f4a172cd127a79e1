------------------------------- MODULE LuaPattern -------------------------------
(***************************************************************************)
(* Pattern matching of the string library: lstrlib.c.  Strings are         *)
(* sequences of characters, and positions count from 1.  The C code has    *)
(* one array of captures, which an attempt changes and a failed attempt    *)
(* must put back; every operator here takes it and gives it back.          *)
(***************************************************************************)
EXTENDS Integers, Sequences, SequencesExt, FiniteSets, FiniteSetsExt

CONSTANTS Classes,      \* the characters of every class letter
          Upper,        \* the class letter of an upper case one
          MAXCCALLS, LUA_MAXCAPTURES

NULL == 0
Error == -1
Nul == "NUL"
At(t, i) == IF i \in DOMAIN t THEN t[i] ELSE Nul

\* CAP_UNFINISHED and CAP_POSITION, lengths of captures.
Unfinished == -1
Position == -2

\* ms: src, pat, and the captures up to the level, [init, len].  A result is where the match
\* ends, NULL or Error, and the captures.
Result(at, cap) == [at |-> at, cap |-> cap]
With(ms, r) == [ms EXCEPT !.cap = r.cap]
-------------------------------------------------------------------------------
(* Single characters.                                                      *)

\* The loop of classend that looks for a ']'.
RECURSIVE SetEnd(_, _)
SetEnd(pat, p) ==
    IF p > Len(pat) THEN Error
    ELSE LET next == IF pat[p] = "%" /\ p < Len(pat) THEN p + 2 ELSE p + 1
         IN  IF At(pat, next) = "]" THEN next + 1 ELSE SetEnd(pat, next)

ClassEnd(pat, p) ==
    CASE pat[p] = "%" -> IF p = Len(pat) THEN Error ELSE p + 2
      [] pat[p] = "[" -> SetEnd(pat, IF At(pat, p + 1) = "^" THEN p + 2 ELSE p + 1)
      [] OTHER -> p + 1

MatchClass(c, cl) ==
    IF cl \in DOMAIN Classes THEN c \in Classes[cl]
    ELSE IF cl \in DOMAIN Upper THEN c \notin Classes[Upper[cl]]
    ELSE c = cl

\* matchbracketclass: the set from p up to its ']' at ec; Code orders the characters.
Code(c) == CHOOSE i \in 1..6 : <<"NUL", "-", "]", "^", "a", "b">>[i] = c
RECURSIVE InSet(_, _, _, _)
InSet(c, pat, p, ec) ==
    IF p >= ec THEN FALSE
    ELSE IF pat[p] = "%" THEN MatchClass(c, pat[p + 1]) \/ InSet(c, pat, p + 2, ec)
    ELSE IF pat[p + 1] = "-" /\ p + 2 < ec
    THEN (Code(pat[p]) <= Code(c) /\ Code(c) <= Code(pat[p + 2])) \/ InSet(c, pat, p + 3, ec)
    ELSE pat[p] = c \/ InSet(c, pat, p + 1, ec)
MatchBracketClass(c, pat, p, ec) ==
    IF pat[p + 1] = "^" THEN ~ InSet(c, pat, p + 2, ec) ELSE InSet(c, pat, p + 1, ec)

SingleMatch(ms, s, p, ep) ==
    /\ s <= Len(ms.src)
    /\ CASE ms.pat[p] = "." -> TRUE
         [] ms.pat[p] = "%" -> MatchClass(ms.src[s], ms.pat[p + 1])
         [] ms.pat[p] = "[" -> MatchBracketClass(ms.src[s], ms.pat, p, ep - 1)
         [] OTHER -> ms.pat[p] = ms.src[s]

\* matchbalance, behind its opening character.
RECURSIVE Balance(_, _, _, _, _)
Balance(src, s, b, e, cont) ==
    IF s > Len(src) THEN NULL
    ELSE IF src[s] = e THEN IF cont = 1 THEN s + 1 ELSE Balance(src, s + 1, b, e, cont - 1)
    ELSE Balance(src, s + 1, b, e, IF src[s] = b THEN cont + 1 ELSE cont)

MatchBalance(ms, s, p) ==
    IF p >= Len(ms.pat) THEN Error
    ELSE IF At(ms.src, s) # ms.pat[p] THEN NULL
    ELSE Balance(ms.src, s + 1, ms.pat[p], ms.pat[p + 1], 1)
-------------------------------------------------------------------------------
(* Captures and repetitions.  d is the depth that is left.                 *)

\* The text of a finished capture.
Text(src, c) == SubSeq(src, c.init, c.init + c.len - 1)

\* check_capture and match_capture; the length of a position capture is none that fits.
MatchCapture(ms, s, l) ==
    IF l \notin DOMAIN ms.cap \/ ms.cap[l].len = Unfinished THEN Error
    ELSE IF ms.cap[l].len = Position THEN NULL
    ELSE IF IsPrefix(Text(ms.src, ms.cap[l]), SubSeq(ms.src, s, Len(ms.src)))
    THEN s + ms.cap[l].len ELSE NULL

Digits == {"1", "2"}
Digit(c) == CHOOSE i \in 1..2 : <<"1", "2">>[i] = c

RECURSIVE Match(_, _, _, _), Go(_, _, _, _), StartCapture(_, _, _, _, _),
          EndCapture(_, _, _, _), MaxExpand(_, _, _, _, _, _), MinExpand(_, _, _, _, _)

Match(ms, s, p, d) == IF d = 0 THEN Result(Error, ms.cap) ELSE Go(ms, s, p, d - 1)

\* A capture that could not be is undone.
StartCapture(ms, s, p, what, d) ==
    IF Len(ms.cap) >= LUA_MAXCAPTURES THEN Result(Error, ms.cap)
    ELSE LET r == Match([ms EXCEPT !.cap = Append(@, [init |-> s, len |-> what])], s, p, d)
         IN  IF r.at = NULL THEN [r EXCEPT !.cap = Front(@)] ELSE r

ToClose(ms) == {l \in DOMAIN ms.cap : ms.cap[l].len = Unfinished}

\* Mutant of EndCapture: a capture that was closed stays closed when the rest fails.
EndCaptureStays(ms, s, p, d) ==
    IF ToClose(ms) = {} THEN Result(Error, ms.cap)
    ELSE LET l == Max(ToClose(ms)) IN Match([ms EXCEPT !.cap[l].len = s - ms.cap[l].init], s, p, d)

EndCapture(ms, s, p, d) ==
    IF ToClose(ms) = {} THEN Result(Error, ms.cap)
    ELSE LET l == Max(ToClose(ms))
             r == Match([ms EXCEPT !.cap[l].len = s - ms.cap[l].init], s, p, d)
         IN  IF r.at = NULL THEN [r EXCEPT !.cap[l].len = Unfinished] ELSE r

\* As many as there are, then fewer; i is how many are tried.
MaxExpand(ms, s, p, ep, i, d) ==
    IF i < 0 THEN Result(NULL, ms.cap)
    ELSE LET r == Match(ms, s + i, ep + 1, d)
         IN  IF r.at # NULL THEN r ELSE MaxExpand(With(ms, r), s, p, ep, i - 1, d)
Repetitions(ms, s, p, ep) ==
    CHOOSE n \in 0..Len(ms.src) : /\ \A i \in 0..(n - 1) : SingleMatch(ms, s + i, p, ep)
                                  /\ ~ SingleMatch(ms, s + n, p, ep)

MinExpand(ms, s, p, ep, d) ==
    LET r == Match(ms, s, ep + 1, d)
    IN  IF r.at # NULL THEN r
        ELSE IF SingleMatch(ms, s, p, ep) THEN MinExpand(With(ms, r), s + 1, p, ep, d)
        ELSE r

\* A class and its suffix.
Default(ms, s, p, d) ==
    LET ep == ClassEnd(ms.pat, p)
        suffix == At(ms.pat, ep)
        once == Match(ms, s + 1, ep + 1, d)
    IN  IF ep = Error THEN Result(Error, ms.cap)
        ELSE IF ~ SingleMatch(ms, s, p, ep)
        THEN IF suffix \in {"*", "?", "-"} THEN Go(ms, s, ep + 1, d) ELSE Result(NULL, ms.cap)
        ELSE CASE suffix = "?" -> IF once.at # NULL THEN once ELSE Go(With(ms, once), s, ep + 1, d)
               [] suffix = "+" -> MaxExpand(ms, s + 1, p, ep, Repetitions(ms, s + 1, p, ep), d)
               [] suffix = "*" -> MaxExpand(ms, s, p, ep, Repetitions(ms, s, p, ep), d)
               [] suffix = "-" -> MinExpand(ms, s, p, ep, d)
               [] OTHER -> Go(ms, s + 1, ep, d)

Frontier(ms, s, p, d) ==
    LET ep == ClassEnd(ms.pat, p)
        in(c) == MatchBracketClass(c, ms.pat, p, ep - 1)
    IN  IF At(ms.pat, p) # "[" \/ ep = Error THEN Result(Error, ms.cap)
        ELSE IF ~ in(At(ms.src, s - 1)) /\ in(At(ms.src, s)) THEN Go(ms, s, ep, d)
        ELSE Result(NULL, ms.cap)

\* The rest of the pattern from p on, if at is where an item ended.
GoOn(ms, at, p, d) == IF at \in {NULL, Error} THEN Result(at, ms.cap) ELSE Go(ms, at, p, d)

Go(ms, s, p, d) ==
    LET c == At(ms.pat, p)
        n == At(ms.pat, p + 1)
    IN  IF p > Len(ms.pat) THEN Result(s, ms.cap)
        ELSE IF c = "(" /\ n = ")" THEN StartCapture(ms, s, p + 2, Position, d)
        ELSE IF c = "(" THEN StartCapture(ms, s, p + 1, Unfinished, d)
        ELSE IF c = ")" THEN EndCapture(ms, s, p + 1, d)
        ELSE IF c = "$" /\ p = Len(ms.pat) THEN Result(IF s = Len(ms.src) + 1 THEN s ELSE NULL, ms.cap)
        ELSE IF c = "%" /\ n = "b" THEN GoOn(ms, MatchBalance(ms, s, p + 2), p + 4, d)
        ELSE IF c = "%" /\ n = "f" THEN Frontier(ms, s, p + 2, d)
        ELSE IF c = "%" /\ n \in Digits THEN GoOn(ms, MatchCapture(ms, s, Digit(n)), p + 2, d)
        ELSE Default(ms, s, p, d)
-------------------------------------------------------------------------------
(* find, match, gmatch and gsub.                                           *)

\* push_captures, an error where one is unfinished: the whole match if there are none, unless the
\* caller says otherwise.
Bad(r) == r.at = Error \/ (r.at # NULL /\ \E l \in DOMAIN r.cap : r.cap[l].len = Unfinished)
PushCaptures(ms, cap, s, e, whole) ==
    IF cap = <<>> /\ whole THEN <<SubSeq(ms.src, s, e - 1)>>
    ELSE [l \in DOMAIN cap |-> IF cap[l].len = Position THEN <<cap[l].init>> ELSE Text(ms.src, cap[l])]

Posrelat(pos, len) == IF pos >= 0 THEN pos ELSE IF -pos > len THEN 0 ELSE len + pos + 1

\* lmemfind from position s on.
Memfind(src, s, pat) ==
    LET at == {i \in s..(Len(src) - Len(pat) + 1) : SubSeq(src, i, i + Len(pat) - 1) = pat}
    IN  IF at = {} THEN NULL ELSE Min(at)

Specials == {"^", "$", "*", "+", "?", ".", "(", "[", "%", "-"}

Anchored(pat) == At(pat, 1) = "^"
Prepared(src, pat) == [src |-> src, pat |-> IF Anchored(pat) THEN Tail(pat) ELSE pat, cap |-> <<>>]

RECURSIVE Search(_, _, _)
Search(ms, s, anchor) ==
    LET r == Match(ms, s, 1, MAXCCALLS)
    IN  IF r.at # NULL \/ anchor \/ s > Len(ms.src) THEN r @@ [start |-> s]
        ELSE Search(ms, s + 1, anchor)

\* str_find_aux, of find: start, end, captures; or of match: captures.
StrFind(src, pat, init0, plain, find) ==
    LET init == LET i == Posrelat(init0, Len(src)) IN IF i < 1 THEN 1 ELSE i
        s2 == Memfind(src, init, pat)
        ms == Prepared(src, pat)
        r == Search(ms, init, Anchored(pat))
        none == [start |-> NULL]
    IN  IF init > Len(src) + 1 THEN none
        ELSE IF find /\ (plain \/ ToSet(pat) \cap Specials = {})
        THEN IF s2 = NULL THEN none ELSE [start |-> s2, end |-> s2 + Len(pat) - 1, captures |-> <<>>]
        ELSE IF r.at = NULL THEN none
        ELSE IF Bad(r) THEN [start |-> Error]
        ELSE [start |-> r.start, end |-> r.at - 1,
              captures |-> PushCaptures(ms, r.cap, r.start, r.at, ~ find)]

\* All calls of gmatch's function: matches, with "error" at the end if there is one.
RECURSIVE Gmatch(_, _, _)
Gmatch(ms, s, lastmatch) ==
    LET r == Match(ms, s, 1, MAXCCALLS)
        captures == PushCaptures(ms, r.cap, s, r.at, TRUE)
    IN  IF s > Len(ms.src) + 1 THEN <<>>
        ELSE IF r.at \in {NULL, lastmatch} THEN Gmatch(ms, s + 1, lastmatch)
        ELSE IF Bad(r) THEN <<[start |-> Error]>>
        ELSE <<[start |-> s, end |-> r.at - 1, captures |-> captures]>> \o Gmatch(ms, r.at, r.at)

\* add_s: "%0" is the match, a digit a capture.
RECURSIVE AddS(_, _, _)
AddS(news, whole, captures) ==
    IF news = <<>> THEN <<>>
    ELSE IF Head(news) # "%" THEN <<Head(news)>> \o AddS(Tail(news), whole, captures)
    ELSE (CASE news[2] = "0" -> whole
            [] news[2] \in Digits -> captures[Digit(news[2])]
            [] news[2] = "%" -> <<"%">>) \o AddS(SubSeq(news, 3, Len(news)), whole, captures)

\* str_gsub, from what it has in its buffer and counted so far.
RECURSIVE Gsub(_, _, _, _, _, _, _)
Gsub(ms, s, lastmatch, b, n, max_s, q) ==
    LET r == Match(ms, s, 1, MAXCCALLS)
        captures == PushCaptures(ms, r.cap, s, r.at, TRUE)
        rest == [b |-> b \o SubSeq(ms.src, s, Len(ms.src)), n |-> n]
        matched == r.at \notin {NULL, lastmatch}
        added == AddS(q.news, SubSeq(ms.src, s, r.at - 1), captures)
        src == IF matched THEN r.at ELSE s + 1
        now == IF matched THEN b \o added ELSE Append(b, ms.src[s])
        count == IF matched THEN n + 1 ELSE n
    IN  IF n >= max_s THEN rest
        ELSE IF matched /\ Bad(r) THEN [n |-> Error]
        ELSE IF ~ matched /\ s > Len(ms.src) THEN rest
        ELSE IF Anchored(q.pat)
        THEN [b |-> now \o SubSeq(ms.src, src, Len(ms.src)), n |-> count]
        ELSE Gsub(ms, src, IF matched THEN r.at ELSE lastmatch, now, count, max_s, q)

\* str_sub and str_byte; str_rep.
StrSub(src, i, j) ==
    LET start == Max({1, Posrelat(i, Len(src))})
        end == Min({Len(src), Posrelat(j, Len(src))})
    IN  IF start <= end THEN SubSeq(src, start, end) ELSE <<>>

RECURSIVE StrRep(_, _, _)
StrRep(src, n, sep) == IF n <= 0 THEN <<>> ELSE IF n = 1 THEN src ELSE src \o sep \o StrRep(src, n - 1, sep)
-------------------------------------------------------------------------------
(* What a pattern means, item by item: every way it can match, the         *)
(* preferred first.  Nothing is undone, for nothing is shared.             *)

RECURSIVE Ways(_, _, _, _)
Then(src, items, s, cap) == Ways(src, Tail(items), s, cap)
Run(src, s, set) == Max({n \in 0..(Len(src) - s + 1) : \A i \in s..(s + n - 1) : src[i] \in set})
Times(src, items, s, cap, counts) ==
    FoldLeft(LAMBDA acc, n : acc \o Then(src, items, s + n, cap), <<>>, counts)
Count(from, to) == IF from <= to THEN [i \in 1..(to - from + 1) |-> from + i - 1] ELSE <<>>
Failure == <<[at |-> Error, cap |-> <<>>]>>

\* The shortest balanced text from s on.
Balanced(src, s, b, e) ==
    {n \in 2..(Len(src) - s + 1) :
        LET sum(k) == FoldLeft(LAMBDA acc, c : acc + (IF c = e THEN -1 ELSE IF c = b THEN 1 ELSE 0), 1,
                               SubSeq(src, s + 1, s + k - 1))
        IN  src[s] = b /\ sum(n) = 0 /\ \A k \in 1..(n - 1) : sum(k) > 0}

Ways(src, items, s, cap) ==
    LET i == Head(items)
        run == Run(src, s, i.set)
        open == {l \in DOMAIN cap : cap[l].len = Unfinished}
    IN  IF items = <<>> THEN <<[at |-> s, cap |-> cap]>>
        ELSE CASE i.kind = "" -> Times(src, items, s, cap, IF run >= 1 THEN <<1>> ELSE <<>>)
               [] i.kind = "?" -> Times(src, items, s, cap, IF run >= 1 THEN <<1, 0>> ELSE <<0>>)
               [] i.kind = "*" -> Times(src, items, s, cap, Reverse(Count(0, run)))
               [] i.kind = "+" -> Times(src, items, s, cap, Reverse(Count(1, run)))
               [] i.kind = "-" -> Times(src, items, s, cap, Count(0, run))
               [] i.kind = "(" -> Then(src, items, s, Append(cap, [init |-> s, len |-> Unfinished]))
               [] i.kind = "()" -> Then(src, items, s, Append(cap, [init |-> s, len |-> Position]))
               [] i.kind = ")" -> IF open = {} THEN Failure
                                  ELSE Then(src, items, s, [cap EXCEPT ![Max(open)].len = s - cap[Max(open)].init])
               [] i.kind = "$" -> IF s = Len(src) + 1 THEN Then(src, items, s, cap) ELSE <<>>
               [] i.kind = "frontier" ->
                      IF At(src, s - 1) \notin i.set /\ At(src, s) \in i.set THEN Then(src, items, s, cap) ELSE <<>>
               [] i.kind = "balance" ->
                      LET n == Balanced(src, s, "a", "b")
                      IN  IF n = {} THEN <<>> ELSE Then(src, items, s + Min(n), cap)
               [] i.kind = "%1" -> IF 1 \notin DOMAIN cap \/ 1 \in open THEN Failure
                                   ELSE IF cap[1].len = Position THEN <<>>
                                   ELSE IF s + cap[1].len - 1 <= Len(src)
                                           /\ SubSeq(src, s, s + cap[1].len - 1) = Text(src, cap[1])
                                   THEN Then(src, items, s + cap[1].len, cap) ELSE <<>>

First(src, items, s) == LET w == Ways(src, items, s, <<>>) IN IF w = <<>> THEN Result(NULL, <<>>) ELSE w[1]

RECURSIVE Matches(_, _, _, _)
Matches(src, items, s, last) ==
    LET r == First(src, items, s)
    IN  IF s > Len(src) + 1 THEN <<>>
        ELSE IF r.at \in {NULL, last} THEN Matches(src, items, s + 1, last)
        ELSE IF Bad(r) THEN <<<<Error>>>>
        ELSE <<<<s, r.at - 1>>>> \o Matches(src, items, r.at, r.at)

PatternOf(items) == FlattenSeq([i \in DOMAIN items |-> items[i].text])

\* Matching finds the preferred way of all that a pattern allows, with its captures, wherever it
\* begins: what failed attempts wrote into the captures is gone (lstrlib.c:394, 410).
MatchRight(q) ==
    LET ms == [src |-> q.src, pat |-> PatternOf(q.items), cap |-> <<>>]
    IN  \A s \in 1..(Len(q.src) + 1) :
            LET r == Match(ms, s, 1, MAXCCALLS)
                w == First(q.src, q.items, s)
            IN  r.at = w.at /\ (w.at # Error => r.cap = w.cap)

\* gmatch and gsub meet the same matches, which do not overlap, and gsub keeps what is between.
GsubRight(q) ==
    LET pat == PatternOf(q.items)
        ms == [src |-> q.src, pat |-> pat, cap |-> <<>>]
        all == Gmatch(ms, 1, NULL)
        g == Gsub(ms, 1, NULL, <<>>, 0, Len(q.src) + 1, [pat |-> pat, news |-> <<"%", "0">>])
    IN  /\ [i \in DOMAIN all |-> IF all[i].start = Error THEN <<Error>> ELSE <<all[i].start, all[i].end>>]
               = Matches(q.src, q.items, 1, NULL)
        /\ IF all # <<>> /\ Last(all).start = Error THEN g.n = Error
           ELSE g = [b |-> q.src, n |-> Len(all)]

\* A plain search finds what the search for the same text as a pattern does; find and match agree.
FindRight(q) ==
    LET f == StrFind(q.src, q.pat, q.init, FALSE, TRUE)
        p == StrFind(q.src, q.pat, q.init, TRUE, TRUE)
        t == StrFind(q.src, q.pat, q.init, FALSE, FALSE)
    IN  /\ f = p
        /\ f.start = t.start
        /\ f.start # NULL => /\ t.captures = <<q.pat>>
                             /\ StrSub(q.src, f.start, f.end) = q.pat

\* Negative positions count from the end, and no position leads outside the string.
SubRight(q) ==
    LET n == Len(q.src)
        real(i) == IF i < 0 THEN n + 1 + i ELSE i
    IN  /\ StrSub(q.src, q.i, q.j) = SubSeq(q.src, Max({1, real(q.i)}), Min({n, real(q.j)}))
        /\ Len(StrRep(q.src, q.j, <<"-">>)) = IF q.j <= 0 THEN 0 ELSE q.j * n + q.j - 1

PatternRight(q) ==
    CASE q.fn = "match" -> MatchRight(q) /\ GsubRight(q)
      [] q.fn = "find" -> FindRight(q)
      [] q.fn = "sub" -> SubRight(q)
===============================================================================
