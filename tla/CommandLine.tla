----------------------------- MODULE CommandLine -----------------------------
(***************************************************************************)
(* splitbrain run and splitbrain check (cmd/splitbrain/main.go) on the     *)
(* files they share: a run judges the history it recorded, cuts a          *)
(* violation down (Minimise), writes the history and the counterexample    *)
(* and exits; a check loads one of the files, or one written by hand, and  *)
(* judges what it loaded.                                                  *)
(*                                                                         *)
(* The search of one key is its verdict, exact or unknown; the pool that   *)
(* runs the searches is Check's.  A write may fail after any part of the   *)
(* file, which is also what a kill in the middle leaves.                   *)
(***************************************************************************)
EXTENDS Minimise, HistoryFile, ExitStatus

CONSTANTS
  KeyOrder,      \* every key, in the order sort.Strings puts them
  Recorded,      \* the histories a run may come back with
  HandWritten,   \* the files a user may have written
  Expectations   \* what -expect may have been given

(***************************************************************************)
(* A history the checker refuses ends the run as any other failure does.   *)
(* Pending is the largest number a time can be.                            *)
(***************************************************************************)
ASSUME CommandAssumption ==
  /\ KeyOrder \in Seq(STRING)
  /\ \A h \in Recorded :
       h \in Seq(Operation) /\ Validate(h) /\ \A i \in DOMAIN h : h[i].complete <= Pending
  /\ HandWritten \subseteq Seq(Line)

VARIABLES
  cmd, pc,    \* the command, and where it is
  asked,      \* the files the run was told to write
  history,    \* what it is judging
  verdict,    \* and how it judged it
  exit,       \* its exit status, Running until there is one
  file,       \* the file a check was given
  disk,       \* the content of each file, as a set of at most one
  past        \* history variable: how the run before the check ended

session == <<cmd, pc, asked, history, verdict, exit, file, disk, past>>
allVars == <<vars, session>>

Running == 3   \* not a status a command exits with

Files == {"history", "counterexample", "by hand"}

CommandInit ==
  /\ Init
  /\ cmd = "run" /\ pc = "start" /\ exit = Running /\ file = "by hand"
  /\ asked \in SUBSET {"history", "counterexample"}
  /\ history = <<>> /\ verdict = "unknown"
  /\ disk = [f \in Files |-> {}]
  /\ past = [verdict |-> "unknown", exit |-> Running]

Leave(err) == exit' = ExitFor(err) /\ pc' = "exited"

-----------------------------------------------------------------------------
(***************************************************************************)
(* Check on the history just recorded or loaded.  Each key is searched     *)
(* alone, in a slice of its own that searchOne sorts in place.             *)
(***************************************************************************)
Slice(h, k) == SortByInvoke(ByKey(DropFailed(h), k))

(* What the searches may come to, key by key.                              *)
Judgements(h) ==
  LET keys == Keys(DropFailed(h))
  IN  {judged \in [keys -> Verdicts] : \A k \in keys : judged[k] \in VerdictsOn(Slice(h, k))}

Having(judged, v) == {k \in DOMAIN judged : judged[k] = v}

(* A violation before an unknown.                                          *)
Worst(judged) ==
  IF Having(judged, "not linearizable") # {} THEN "not linearizable"
  ELSE IF Having(judged, "unknown") # {} THEN "unknown"
  ELSE "linearizable"

(* The key reported: the first of them in sorted order.                    *)
Sooner(k, l) == \E p, q \in DOMAIN KeyOrder : p < q /\ KeyOrder[p] = k /\ KeyOrder[q] = l
First(k, S)  == k \in S /\ \A l \in S : ~Sooner(l, k)

(* A violation is cut down, on the key reported.                           *)
Judges(h, next) ==
  /\ history' = h
  /\ \E judged \in Judgements(h) :
       /\ verdict' = Worst(judged)
       /\ \/ /\ verdict' = "not linearizable" /\ pc' = "minimise"
             /\ \E k \in DOMAIN judged : First(k, Having(judged, verdict')) /\ Begin(Slice(h, k))
          \/ verdict' # "not linearizable" /\ pc' = next /\ UNCHANGED vars

(* oneRun: the experiment fails, or its history is judged.                 *)
Run ==
  /\ pc = "start"
  /\ \/ Leave("other") /\ UNCHANGED <<vars, history, verdict>>
     \/ \E h \in Recorded : Judges(h, "history") /\ UNCHANGED exit
  /\ UNCHANGED <<cmd, asked, file, disk, past>>

Minimises ==
  /\ pc = "minimise" /\ Minimising
  /\ pc' = IF phase' = "looking" THEN pc ELSE IF cmd = "run" THEN "history" ELSE "verdict"
  /\ UNCHANGED <<cmd, asked, history, verdict, exit, file, disk, past>>

(***************************************************************************)
(* writeHistory: created empty, then written a part at a time.  An error   *)
(* ends the command; so does a kill, without a status of its own.          *)
(***************************************************************************)
Torn(lines) ==
  {SubSeq(lines, 1, k) : k \in 0..(Len(lines) - 1)}
    \cup {Append(SubSeq(lines, 1, k), Garbage) : k \in 0..(Len(lines) - 1)}

Writes(path, lines, next) ==
  /\ \/ disk' = [disk EXCEPT ![path] = {lines}] /\ pc' = next /\ UNCHANGED exit
     \/ /\ disk' = disk \/ \E part \in Torn(lines) : disk' = [disk EXCEPT ![path] = {part}]
        /\ Leave("other")

Skips(next) == pc' = next /\ UNCHANGED <<disk, exit>>

WriteOut ==
  /\ pc = "history"
  /\ IF "history" \in asked THEN Writes("history", Save(history), "counterexample") ELSE Skips("counterexample")
  /\ UNCHANGED <<vars, cmd, asked, history, verdict, file, past>>

(* verdict.Ops: the truncation, when one was found.                        *)
WriteCounterexample ==
  /\ pc = "counterexample"
  /\ IF "counterexample" \in asked /\ Len(trunc) > 0
       THEN Writes("counterexample", Save(trunc), "verdict")
       ELSE Skips("verdict")
  /\ UNCHANGED <<vars, cmd, asked, history, verdict, file, past>>

(* The report comes last, and may fail as well.                            *)
Conclude ==
  /\ pc = "verdict"
  /\ Leave("other") \/ \E expect \in Expectations : Leave(CheckExpectation(expect, verdict))
  /\ UNCHANGED <<vars, cmd, asked, history, verdict, file, disk, past>>

-----------------------------------------------------------------------------
(***************************************************************************)
(* A check of what the run has left, or of a file somebody wrote.          *)
(***************************************************************************)
Again ==
  /\ cmd = "run" /\ pc = "exited"
  /\ past' = [verdict |-> verdict, exit |-> exit]
  /\ cmd' = "check" /\ pc' = "check" /\ exit' = Running
  /\ file' \in asked
  /\ history' = <<>> /\ verdict' = "unknown" /\ Holding(<<>>, "idle")
  /\ UNCHANGED <<asked, disk>>

ByHand ==
  /\ cmd = "run" /\ pc = "start"
  /\ \E lines \in HandWritten : disk' = [disk EXCEPT !["by hand"] = {lines}]
  /\ cmd' = "check" /\ pc' = "check"
  /\ UNCHANGED <<vars, asked, history, verdict, exit, file, past>>

Readable(path) == disk[path] # {} /\ \A lines \in disk[path] : Loads(lines) /\ Validate(Load(lines))
Content(path)  == CHOOSE lines \in disk[path] : TRUE

Check ==
  /\ pc = "check"
  /\ \/ ~Readable(file) /\ Leave("other") /\ UNCHANGED <<vars, history, verdict>>
     \/ Readable(file) /\ Judges(Load(Content(file)), "verdict") /\ UNCHANGED exit
  /\ UNCHANGED <<cmd, asked, file, disk, past>>

CommandNext ==
  Run \/ Minimises \/ WriteOut \/ WriteCounterexample \/ Conclude \/ Again \/ ByHand \/ Check

CommandSpec == CommandInit /\ [][CommandNext]_allVars

-----------------------------------------------------------------------------
Checked   == cmd = "check" /\ pc = "exited"
Concluded == past.exit \in {0, 1}

(* What a run that came to a verdict wrote is what it judged: a check of   *)
(* the saved history reads every line of it, is not refused, and when it   *)
(* decides it decides the same (history.go:187-216, 309-355).              *)
RecheckAgrees ==
  Checked /\ file = "history" /\ Concluded =>
    /\ Readable("history")
    /\ verdict \in {past.verdict, "unknown"}

(* The counterexample is a reproduction: checked again it is read, well    *)
(* formed and a violation, and there is nothing left to cut off it         *)
(* (main.go:336-341; checker.go:870-884).                                  *)
CounterexampleStands ==
  Checked /\ file = "counterexample" /\ Concluded /\ disk["counterexample"] # {} =>
    /\ Readable("counterexample")
    /\ verdict \in {"not linearizable", "unknown"}
    /\ phase = "found" => trunc = SortByInvoke(ops)

(* Nothing is read into a line that it does not say: when a check decides, *)
(* what the lines leave out could have been anything (history.go:261-271). *)
(* A key is a plain string in a line, and one left out the empty string    *)
(* (history.go:171): complete does not miss it, only Validate does.        *)
Filled(field, values) == IF field = {} THEN {{x} : x \in values} ELSE {field}
Named(key, names)     == IF key = "" THEN names ELSE {key}

FillIn(line, p, v, f, t, o, s, i) ==
  [line EXCEPT !.process = p, !.value = v, !.from = f, !.to = t,
               !.observed = o, !.swapped = s, !.invoke = i]

FilledFields(line) ==
  {FillIn(line, p, v, f, t, o, s, i) :
     p \in Filled(line.process, {0, 2}), v \in Filled(line.value, {0, 1}), f \in Filled(line.from, {0, 1}),
     t \in Filled(line.to, {0, 1}), o \in Filled(line.observed, {0, 1}), s \in Filled(line.swapped, BOOLEAN),
     i \in Filled(line.invoke, {0, 2})}

Fillings(line) ==
  UNION {FilledFields([line EXCEPT !.key = k]) : k \in Named(line.key, {"j", "k"})}

(* What is true of the whole of it, key by key.                            *)
ExactlyAll(h) ==
  IF \A k \in Keys(DropFailed(h)) : Linearizable(ByKey(DropFailed(h), k))
    THEN "linearizable" ELSE "not linearizable"

BlanksMeanNothing ==
  Checked /\ file = "by hand" /\ verdict \in Decided /\ Readable("by hand") =>
    LET lines == Content("by hand")
    IN  \A i \in DOMAIN lines : \A line \in Fillings(lines[i]) :
          verdict = ExactlyAll(Load([lines EXCEPT ![i] = line]))

=============================================================================
