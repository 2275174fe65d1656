------------------------------ MODULE Loganal ------------------------------
(***************************************************************************)
(* src/internal/loganal: Extract finds the failures in an all.bash log, and *)
(* keeps the lines that it found boring in a cache that later logs use too; *)
(* Classify groups failures whose messages differ in numbers only.  A line  *)
(* of a log is <<kind, text>>, where the kind says which expressions of     *)
(* failure.go match at it and the text is the package or test it names.     *)
(* "no space" stands for the four texts that are looked for in a whole log.*)
(***************************************************************************)
EXTENDS Integers, Sequences, FiniteSets, SequencesExt, FiniteSetsExt

CONSTANT Systemic               \* 5: packages with the same message

Kinds == {"header", "section", "test", "gotest", "build", "timeout", "killed", "panic",
          "traceback", "exit", "api", "good", "FAIL", "blank", "truncated", "misc", "no space", "text"}

\* endOfTest: the lines that it takes at line k, if it matches there.  A log is
\* cut short by an empty line and one that says so.
EndLen(m, k) ==
  IF k > Len(m) THEN 0
  ELSE IF m[k][1] \in {"FAIL", "build"} THEN 1
  ELSE IF k < Len(m) /\ m[k][1] = "blank" /\ m[k + 1][1] = "truncated" THEN 2 ELSE 0
Package(line) == IF line[1] = "blank" THEN "" ELSE line[2]

NoMatch == [next |-> 0, add |-> <<>>]
Fail(pkg, msg) == [pkg |-> pkg, msg |-> msg]

\* The line that ends a match from line i, not before line j; 0 if there is none.
EndFrom(m, j) ==
  LET ends == {k \in j..Len(m) : EndLen(m, k) > 0} IN IF ends = {} THEN 0 ELSE Min(ends)
Upto(m, i, j, msg) ==
  LET k == EndFrom(m, j)
  IN  IF k = 0 THEN NoMatch ELSE [next |-> k + EndLen(m, k), add |-> <<Fail(Package(m[k]), <<msg, m[i][2]>>)>>]
One(i, fs) == [next |-> i + 1, add |-> fs]

\* consumeTraceback and the trailer: all lines up to a traceback are dropped,
\* with the whole rest of the log when there is none.
consumeTraceback(m, i) ==
  LET start == {k \in (i + 1)..Len(m) : m[k][1] = "traceback"}
      in(k) == \A l \in Min(start)..k : m[l][1] \in {"traceback", "blank"}
      over == IF start = {} THEN Len(m) + 1 ELSE Max({k \in Min(start)..Len(m) : in(k)}) + 1
      skip(k, kind) == IF k <= Len(m) /\ m[k][1] = kind THEN k + 1 ELSE k
      trailer == skip(skip(over, "exit"), "killed")
  IN  trailer + EndLen(m, trailer)

\* The cases of Extract's switch, in order: the next line, and the failure found.
Match(m, i, st, bad) ==
  LET kind == m[i][1]
      text == m[i][2]
      panic == [next |-> consumeTraceback(m, i), add |-> <<Fail("runtime", <<"panic", text>>)>>]
  IN  CASE kind \in {"header", "section"} -> One(i, <<>>)
        [] kind = "test" -> IF EndFrom(m, i + 1) # 0 THEN Upto(m, i, i + 1, "test") ELSE One(i, <<>>)
        [] kind = "gotest" -> IF EndFrom(m, i + 2) # 0 THEN Upto(m, i, i + 2, "gotest") ELSE One(i, <<>>)
        [] kind = "build" -> One(i, <<Fail(text, <<"build failed", "">>)>>)
        [] kind = "timeout" -> IF EndFrom(m, i + 1) # 0 THEN Upto(m, i, i + 1, "timed out") ELSE panic
        [] kind = "killed" -> IF EndLen(m, i + 1) > 0 THEN Upto(m, i, i + 1, "timed out") ELSE NoMatch
        [] kind = "panic" -> panic
        [] kind = "api" -> One(i, <<Fail("API checker", <<"api", text>>)>>)
        [] kind = "good" -> One(i, <<>>)
        [] kind \in {"FAIL", "blank"} -> IF EndLen(m, i) > 0 THEN Upto(m, i, i, bad) ELSE NoMatch
        [] kind = "misc" -> IF Len(st.fs) = st.sectionFailures THEN One(i, <<Fail(st.section, <<"unknown", bad>>)>>)
                            ELSE NoMatch
        [] OTHER -> NoMatch

\* goodLine matches a # and a --- that begin nothing longer.
Good(m, i, r) == m[i][1] \in {"good", "test", "gotest"} /\ r.add = <<>> /\ r.next # 0

\* The loop from line i.  st holds the failures, the cache (line -> is it
\* good), the unknown lines, the section and whether testing started.
RECURSIVE Loop(_, _, _)
Loop(m, i, st) ==
  IF i > Len(m) THEN st
  ELSE LET line == m[i]
           bad == IF st.unknown = <<>> THEN "" ELSE Head(st.unknown)
           r == Match(m, i, st, bad)
           known == [st EXCEPT !.unknown = <<>>]
           unknown == IF line[1] = "blank" THEN st ELSE [st EXCEPT !.unknown = Append(@, line[2])]
       IN  IF line \in DOMAIN st.cache
           THEN Loop(m, i + 1, IF st.cache[line] THEN known ELSE unknown)
           ELSE IF r.next = 0
           THEN Loop(m, i + 1, [unknown EXCEPT !.cache = [l \in DOMAIN @ \cup {line} |-> IF l = line THEN FALSE ELSE @[l]]])
           ELSE Loop(m, r.next,
                  [known EXCEPT !.fs = @ \o r.add,
                                !.cache = IF Good(m, i, r)
                                          THEN [l \in DOMAIN @ \cup {line} |-> IF l = line THEN TRUE ELSE @[l]] ELSE @,
                                !.started = @ \/ line[1] = "header",
                                !.section = IF line[1] = "section" THEN line[2] ELSE @,
                                !.sectionFailures = IF line[1] = "section" THEN Len(st.fs) ELSE @])

\* A message in Systemic packages is kept once, without a package.
Collapse(fs) ==
  LET packages(f) == {g.pkg : g \in {g \in Range(fs) : g.msg = f.msg}}
      systemic(f) == Cardinality(packages(f)) >= Systemic
      keep == SelectSeq([i \in DOMAIN fs |-> i], LAMBDA i : ~systemic(fs[i]) \/ \A j \in 1..(i - 1) : fs[j].msg # fs[i].msg)
  IN  [k \in DOMAIN keep |-> IF systemic(fs[keep[k]]) THEN [fs[keep[k]] EXCEPT !.pkg = ""] ELSE fs[keep[k]]]

Extract(m, cache) ==
  LET end == Loop(m, 1, [fs |-> <<>>, cache |-> cache, unknown |-> <<>>, section |-> "", sectionFailures |-> 0,
                         started |-> FALSE])
      full == IF end.fs = <<>> /\ \E i \in DOMAIN m : m[i][1] = "no space" THEN <<Fail("", <<"no space", "">>)>> ELSE end.fs
      fs == Collapse(full)
  IN  [fs |-> IF ~end.started /\ fs = <<>> THEN <<Fail("", <<"toolchain", "">>)>> ELSE fs, cache |-> end.cache]

-----------------------------------------------------------------------------
(* classify.go: a message is a sequence of words, those that hold a digit     *)
(* being written <<"n", digits>>.                                             *)

Number(w) == w[1] = "n"
canonicalMessage(msg) == [i \in DOMAIN msg |-> IF Number(msg[i]) THEN <<"...">> ELSE msg[i]]

\* Slip: the line of the first failure.
CommonLine_first(fs, c) == IF Cardinality(c) = 1 THEN 0 ELSE fs[Min(c)].line

\* Line is given by the class when its failures agree on it.  So are OS and Arch.
CommonLine(fs, c) ==
  IF Cardinality(c) > 1 /\ \A i, j \in c : fs[i].line = fs[j].line THEN fs[Min(c)].line ELSE 0

\* The classes: sets of indexes, with their key.
Classify(fs) ==
  LET key(i) == [pkg |-> fs[i].pkg, msg |-> canonicalMessage(fs[i].msg)]
      class(i) == {j \in DOMAIN fs : key(j) = key(i)}
      common(c, f(_)) == Cardinality({f(j) : j \in c}) = 1
      word(c, k) == LET w(j) == fs[j].msg[k] IN IF common(c, w) THEN fs[Min(c)].msg[k] ELSE <<"...">>
      msg(c, i) == IF Cardinality(c) = 1 THEN key(i).msg ELSE [k \in DOMAIN fs[i].msg |-> word(c, k)]
  IN  {[members |-> class(i), pkg |-> fs[i].pkg, msg |-> msg(class(i), i), line |-> CommonLine(fs, class(i))] : i \in DOMAIN fs}

-----------------------------------------------------------------------------
Start == [l \in {} |-> TRUE]

\* A log with a FAIL line yields a failure, whatever the cache holds from the
\* log before.  The cache changes nothing as long as it holds no line that
\* matches together with the lines after it, or in some sections only.
ExtractSound(m1, m2) ==
  LET warm == Extract(m1, Start).cache
      depends == {"test", "gotest", "killed", "blank", "misc"}
  IN  /\ (\E i \in DOMAIN m2 : m2[i][1] \in {"FAIL", "build"}) => Extract(m2, warm).fs # <<>>
      /\ (\A l \in DOMAIN warm : l[1] \notin depends) => Extract(m2, warm).fs = Extract(m2, Start).fs

\* "Each input failure will be in exactly one failure class"; classes have
\* different keys, and what a key says holds for every failure of its class.
ClassesExact(fs) ==
  LET classes == Classify(fs)
  IN  /\ \A i \in DOMAIN fs : \E c \in classes : i \in c.members
      /\ \A c, d \in classes : c # d => c.members \cap d.members = {} /\ [c EXCEPT !.members = {}] # [d EXCEPT !.members = {}]
      /\ \A c \in classes : \A i \in c.members :
           /\ fs[i].pkg = c.pkg
           /\ Len(c.msg) = Len(fs[i].msg)
           /\ \A k \in DOMAIN c.msg : c.msg[k] = fs[i].msg[k] \/ (c.msg[k] = <<"...">> /\ Number(fs[i].msg[k]))
           /\ c.line \in {0, fs[i].line}
=============================================================================
