----------------------------- MODULE CommandRun -----------------------------
(***************************************************************************)
(* The runs of one controller, one after the other or at once:               *)
(* CntlrCmdLine.run as the command line, a Session (api/Session.py) and the   *)
(* web server (CntlrWebMain.py) call it.  A run configures the model manager, *)
(* loads each entry point, compares, validates or views the manager's current *)
(* model and what came with it, closes, and its caller answers with the log,  *)
(* a view or a file.  A run's step is what it does between two points where    *)
(* something can fail.  The model manager's own steps are in ModelManager.     *)
(***************************************************************************)
EXTENDS Naturals, Sequences, FiniteSets, SequencesExt

CONSTANTS
    Workers,    \* threads that serve: one for a Session and the default server
    Files,      \* entry points
    Targets,    \* further target documents of an inline document set
    Requests,   \* what is asked for
    MaxRuns,    \* bound: runs made
    None        \* no model, no file

Modes == {"none", "c10", "c11"}
Answers == {"log", "zip", "zipWithLog", "view", "report", "nothing"}
RequestOK(r) ==
    /\ r.files \in Seq(Files) /\ IsInjective(r.files)
    /\ r.diff \in (Files \cup {None}) \ Range(r.files)
    /\ r.diff = None \/ Len(r.files) = 1   \* bound: one comparison
    /\ {r.plugins, r.imports, r.validate, r.keepOpen, r.exitCode, r.utr, r.clear}
          \subseteq BOOLEAN
    /\ r.calcs \in Modes \cup {"misspelt"} /\ r.answer \in Answers
    /\ r.clear \/ r.answer = "log"        \* only Session.get_logs may keep the buffer

Ids == 1..MaxRuns
\* The models of a run: of an entry point, of its further targets, of a comparison.
Models == [run : Ids, of : Files \cup {"report"}, target : Targets \cup {None}]

ASSUME RequestsAssumption ==
    /\ MaxRuns \in Nat /\ IsFiniteSet(Targets)
    /\ None \notin Files \cup Targets \cup Models
    /\ \A r \in Requests : RequestOK(r)

Settings == [utr : BOOLEAN, calcs : Modes]
\* "found" are errors of a model, "invalid" of an archive, "failed" what run says
\* of what it caught.
Messages == [run : Ids, about : Files \cup {"report", None},
             what : {"loaded", "found", "invalid", "failed"}]
Steps == {"idle", "settings", "parse", "load", "loaded", "diff", "select", "use",
          "close", "answer", "clear"}

VARIABLES
    stack,      \* modelManager.loadedModelXbrls
    current,    \* modelManager.modelXbrl
    closed,     \* models closed
    inError,    \* models with errors
    errors,     \* controller's errors: the runs that added some
    settings,   \* of the model manager
    log,        \* the log handler's buffer
    made,       \* runs begun
    pc,         \* worker -> step
    run,        \* worker -> the locals of its run
    seen,       \* history: models loaded
    used,       \* history: [id, request, model, settings] of validations and views
    pairs,      \* history: [id, entry, from, to] of comparisons
    said,       \* history: messages logged
    answers     \* history: [id, request, success, log] of what was answered

manager == <<stack, current, closed, inError, seen>>
history == <<used, pairs, said, answers>>
vars == <<manager, errors, settings, log, made, pc, run, history>>

Idle == [id |-> 0, request |-> None, todo |-> <<>>, model |-> None, report |-> None,
         queue |-> <<>>, success |-> TRUE, invalid |-> FALSE, carried |-> {}]

Init ==
    /\ stack = <<>> /\ current = None /\ closed = {} /\ inError = {} /\ seen = {}
    /\ errors = {} /\ settings = [utr |-> FALSE, calcs |-> "none"] /\ log = {}
    /\ made = 0
    /\ pc = [w \in Workers |-> "idle"] /\ run = [w \in Workers |-> Idle]
    /\ used = {} /\ pairs = {} /\ said = {} /\ answers = {}

------------------------------------------------------------------------------
\* Parts of steps.

Ask(w) == run[w].request
Entry(w) == Head(run[w].todo)
ModelOf(w, f) == [run |-> run[w].id, of |-> f, target |-> None]
Others(m, targets) == {[m EXCEPT !.target = t] : t \in targets}
OthersOf(m) == {x \in seen : x.run = m.run /\ x.of = m.of /\ x.target # None}

GoTo(w, step) == pc' = [pc EXCEPT ![w] = step]

Say(w, about, what) ==
    LET message == [run |-> run[w].id, about |-> about, what |-> what]
    IN log' = log \cup {message} /\ said' = said \cup {message}

\* Mutant of Push: what is loaded only becomes current when nothing is.
PushBehind(models) ==
    /\ stack' = stack \o models
    /\ current' = IF current = None THEN Last(models) ELSE current
    /\ seen' = seen \cup Range(models)

\* Mutant of Push: the stack is the other way up.
PushUnder(models) ==
    /\ stack' = models \o stack
    /\ current' = Last(models)
    /\ seen' = seen \cup Range(models)

\* modelManager.load and create.
Push(models) ==
    /\ stack' = stack \o models
    /\ current' = Last(models)
    /\ seen' = seen \cup Range(models)

\* modelManager.close; no model is on the stack twice.
Pop(m, besides) ==
    /\ stack' = RemoveFirst(stack, m)
    /\ current' = IF m # current THEN current
                  ELSE IF stack' = <<>> THEN None ELSE Head(stack')
    /\ closed' = closed \cup {m} \cup besides

\* The next entry point; its locals start afresh, success does not.
NextEntry(w, locals) ==
    /\ run' = [run EXCEPT ![w] = [locals EXCEPT !.todo = Tail(@), !.model = None,
                                                !.report = None, !.queue = <<>>]]
    /\ GoTo(w, "load")

------------------------------------------------------------------------------
\* The caller asks for a run.
Begin(w, r) ==
    /\ pc[w] = "idle" /\ made < MaxRuns
    /\ made' = made + 1
    /\ run' = [run EXCEPT ![w] = [Idle EXCEPT !.id = made + 1, !.request = r,
                                              !.todo = r.files]]
    /\ GoTo(w, "settings")
    /\ UNCHANGED <<manager, errors, settings, log, history>>

\* Mutant of Configure: a mode, too, is only ever switched on.
ConfigureOnly(w) ==
    /\ pc[w] = "settings"
    /\ settings' = [utr |-> settings.utr \/ Ask(w).utr,
                    calcs |-> IF Ask(w).calcs \in {"none", "misspelt"} THEN settings.calcs
                              ELSE Ask(w).calcs]
    /\ GoTo(w, "parse")
    /\ UNCHANGED <<manager, errors, log, made, run, history>>

\* Some settings are assigned, some only ever switched on; a misspelt mode is
\* ignored and leaves the mode of the run before.
Configure(w) ==
    /\ pc[w] = "settings"
    /\ settings' = [utr |-> settings.utr \/ Ask(w).utr,
                    calcs |-> IF Ask(w).calcs = "misspelt" THEN settings.calcs
                              ELSE Ask(w).calcs]
    /\ GoTo(w, "parse")
    /\ UNCHANGED <<manager, errors, log, made, run, history>>

Return(w, success) ==
    /\ run' = [run EXCEPT ![w].success = success]
    /\ GoTo(w, "answer")

\* There is nothing to do but to have configured; or the entry points are found, in
\* an archive that is perhaps validated with errors of the controller, or not.
Parse(w) ==
    /\ pc[w] = "parse"
    /\ \/ /\ Ask(w).plugins /\ Ask(w).files = <<>>
          /\ Return(w, TRUE)
          /\ UNCHANGED <<errors, log, said>>
       \/ /\ Ask(w).files # <<>>
          /\ GoTo(w, "load")
          /\ \/ UNCHANGED <<errors, log, said>>
             \/ /\ Ask(w).validate
                /\ errors' = errors \cup {run[w].id}
                /\ Say(w, None, "invalid")
          /\ UNCHANGED run
       \/ /\ Ask(w).files # <<>> \/ ~Ask(w).plugins
          /\ Say(w, None, "failed")
          /\ Return(w, FALSE)
          /\ UNCHANGED errors
    /\ UNCHANGED <<manager, settings, made, used, pairs, answers>>

\* The load raises, and run logs it, or a LoadingException, whose message the model
\* that is given up has logged.
LoadRaises(w) ==
    /\ pc[w] = "load" /\ run[w].todo # <<>>
    /\ \E what \in {"failed", "found"} : Say(w, Entry(w), what)
    /\ NextEntry(w, [run[w] EXCEPT !.success = FALSE])
    /\ UNCHANGED <<manager, errors, settings, made, used, pairs, answers>>

\* The entry point has no document: its model is on the stack, with its error.
LoadNothing(w) ==
    /\ pc[w] = "load" /\ run[w].todo # <<>>
    /\ LET m == ModelOf(w, Entry(w)) IN
         /\ Push(<<m>>) /\ inError' = inError \cup {m}
         /\ Say(w, Entry(w), "found")
         /\ run' = [run EXCEPT ![w].model = m, ![w].success = FALSE]
    /\ GoTo(w, "close")
    /\ UNCHANGED <<closed, errors, settings, made, used, pairs, answers>>

\* The models of further targets are stacked before the one they are found from.
Load(w, targets) ==
    /\ pc[w] = "load" /\ run[w].todo # <<>>
    /\ LET m == ModelOf(w, Entry(w))
           others == Others(m, targets) IN
         /\ Push(SetToSeq(others) \o <<m>>)
         /\ \E bad \in SUBSET (others \cup {m}) :
              /\ inError' = inError \cup bad
              /\ Say(w, Entry(w), IF bad = {} THEN "loaded" ELSE "found")
         /\ run' = [run EXCEPT ![w].model = m]
    /\ GoTo(w, "loaded")
    /\ UNCHANGED <<closed, errors, settings, made, used, pairs, answers>>

\* Files are imported into the model, which fails if it has errors, be they of the load,
\* and the plug-ins' hooks went well: compare, or validate and view, unless this entry
\* point or one before it failed.
Loaded(w) ==
    /\ pc[w] = "loaded"
    /\ \/ UNCHANGED <<inError, log, said>>
       \/ /\ Ask(w).imports
          /\ inError' = inError \cup {run[w].model}
          /\ Say(w, Entry(w), "found")
    /\ LET success == run[w].success /\ ~(Ask(w).imports /\ run[w].model \in inError')
       IN /\ run' = [run EXCEPT ![w].success = success]
          /\ GoTo(w, IF ~success THEN "close"
                     ELSE IF Ask(w).diff # None THEN "diff" ELSE "select")
    /\ UNCHANGED <<stack, current, closed, seen, errors, settings, made, used, pairs,
                   answers>>

\* An import or a hook raises, or a closed model is asked for its statistics:
\* nothing in run catches it.
Escape(w) ==
    /\ \/ pc[w] = "loaded"
       \/ pc[w] = "close" /\ run[w].model \in closed
    /\ run' = [run EXCEPT ![w] = Idle]
    /\ GoTo(w, "idle")
    /\ UNCHANGED <<manager, errors, settings, log, made, history>>

------------------------------------------------------------------------------
\* The second DTS cannot be loaded, or the comparison raises and both stay.
DiffRaises(w) ==
    /\ pc[w] = "diff"
    /\ \/ UNCHANGED <<stack, current, seen>>
       \/ Push(<<ModelOf(w, Ask(w).diff), ModelOf(w, "report")>>)
    /\ Say(w, Ask(w).diff, "failed")
    /\ run' = [run EXCEPT ![w].success = FALSE]
    /\ GoTo(w, "close")
    /\ UNCHANGED <<closed, inError, errors, settings, made, used, pairs, answers>>

\* It has errors: it is closed, and stays on the stack and current.
DiffInError(w) ==
    /\ pc[w] = "diff"
    /\ LET m == ModelOf(w, Ask(w).diff) IN
         /\ Push(<<m>>) /\ inError' = inError \cup {m}
         /\ closed' = IF Ask(w).keepOpen THEN closed ELSE closed \cup {m}
         /\ Say(w, Ask(w).diff, "found")
    /\ run' = [run EXCEPT ![w].success = FALSE]
    /\ GoTo(w, "close")
    /\ UNCHANGED <<errors, settings, made, used, pairs, answers>>

\* The report compares the two models on top of the stack, and becomes current.
Diff(w, targets) ==
    /\ pc[w] = "diff"
    /\ LET m == ModelOf(w, Ask(w).diff)
           others == SetToSeq(Others(m, targets))
           report == ModelOf(w, "report") IN
         /\ Push(others \o <<m, report>>)
         /\ pairs' = pairs \cup {[id |-> run[w].id, entry |-> run[w].model,
                                  from |-> Last(stack \o others), to |-> m]}
         /\ run' = [run EXCEPT ![w].report = report]
         /\ Say(w, Ask(w).diff, "loaded")
    /\ GoTo(w, "select")
    /\ UNCHANGED <<closed, inError, errors, settings, made, used, answers>>

\* Validation and views are of the manager's current model and its targets'.  There is
\* one, whatever other threads close: a thread closes one for each that it loads.
Select(w) ==
    /\ pc[w] = "select" /\ current # None
    /\ run' = [run EXCEPT ![w].queue = <<current>> \o SetToSeq(OthersOf(current))]
    /\ GoTo(w, "use")
    /\ UNCHANGED <<manager, errors, settings, log, made, history>>

\* Validate or view the next model, and maybe find errors; the loop's variable is
\* the run's model.
Use(w) ==
    /\ pc[w] = "use" /\ Head(run[w].queue) \notin closed
    /\ LET m == Head(run[w].queue) IN
         /\ used' = used \cup {[id |-> run[w].id, request |-> Ask(w), model |-> m,
                                 settings |-> settings]}
         /\ run' = [run EXCEPT ![w].model = m, ![w].queue = Tail(@)]
         /\ \/ UNCHANGED <<inError, log, said>>
            \/ /\ Ask(w).validate
               /\ inError' = inError \cup {m}
               /\ Say(w, m.of, "found")
    /\ GoTo(w, IF Tail(run[w].queue) = <<>> THEN "close" ELSE "use")
    /\ UNCHANGED <<stack, current, closed, seen, errors, settings, made, pairs, answers>>

\* A validator, a view or a closed model raises: the models left are passed over.
UseRaises(w) ==
    /\ pc[w] = "use"
    /\ Say(w, Head(run[w].queue).of, "failed")
    /\ run' = [run EXCEPT ![w].model = Head(run[w].queue), ![w].success = FALSE]
    /\ GoTo(w, "close")
    /\ UNCHANGED <<manager, errors, settings, made, used, pairs, answers>>

\* Mutant of Close: a comparison's errors are all that is noted.
CloseNotesReport(w) ==
    /\ pc[w] = "close" /\ run[w].model \notin closed
    /\ LET m == run[w].model
           report == run[w].report
           both == UNION {{p.from, p.to} : p \in {q \in pairs : q.id = run[w].id}} IN
         /\ NextEntry(w, [run[w] EXCEPT !.invalid = @ \/ report \in inError])
         /\ IF Ask(w).keepOpen THEN UNCHANGED <<stack, current, closed>>
            ELSE IF report # None THEN Pop(report, both) ELSE Pop(m, {})
    /\ UNCHANGED <<inError, seen, errors, settings, log, made, history>>

\* Mutant of Close: a comparison is left to be collected.
CloseModelOnly(w) ==
    /\ pc[w] = "close" /\ run[w].model \notin closed
    /\ LET m == run[w].model
           report == run[w].report IN
         /\ NextEntry(w, [run[w] EXCEPT !.invalid = @ \/ {m, report} \cap inError # {}])
         /\ IF Ask(w).keepOpen THEN UNCHANGED <<stack, current, closed>>
            ELSE Pop(m, {})
    /\ UNCHANGED <<inError, seen, errors, settings, log, made, history>>

\* Note the errors and close, through the manager, the comparison, with the models
\* it compares, or the model.
Close(w) ==
    /\ pc[w] = "close" /\ run[w].model \notin closed
    /\ LET m == run[w].model
           report == run[w].report
           both == UNION {{p.from, p.to} : p \in {q \in pairs : q.id = run[w].id}} IN
         /\ NextEntry(w, [run[w] EXCEPT !.invalid = @ \/ {m, report} \cap inError # {}])
         /\ IF Ask(w).keepOpen THEN UNCHANGED <<stack, current, closed>>
            ELSE IF report # None THEN Pop(report, both) ELSE Pop(m, {})
    /\ UNCHANGED <<inError, seen, errors, settings, log, made, history>>

------------------------------------------------------------------------------
\* No entry point is left: validationExitCode counts the models' errors and all
\* the controller has.
Finish(w) ==
    /\ pc[w] = "load" /\ run[w].todo = <<>>
    /\ Return(w, /\ run[w].success
                 /\ ~(Ask(w).exitCode /\ (run[w].invalid \/ errors # {})))
    /\ UNCHANGED <<manager, errors, settings, log, made, history>>

Reply(w, messages) ==
    /\ answers' = answers \cup {[id |-> run[w].id, request |-> Ask(w),
                                 success |-> run[w].success, log |-> messages]}
    /\ run' = [run EXCEPT ![w] = Idle]
    /\ GoTo(w, "idle")

\* A view that succeeded, a report, or a Session whose caller does not ask.
AnswerWithout(w) ==
    /\ pc[w] = "answer"
    /\ \/ Ask(w).answer = "view" /\ run[w].success
       \/ Ask(w).answer \in {"report", "nothing"}
    /\ Reply(w, {})
    /\ UNCHANGED <<manager, errors, settings, log, made, used, pairs, said>>

\* getLines, getXml, getJson: format what the buffer holds ...
ReadLog(w) ==
    /\ pc[w] = "answer"
    /\ \/ Ask(w).answer \in {"log", "zip", "zipWithLog"}
       \/ Ask(w).answer = "view" /\ ~run[w].success
    /\ run' = [run EXCEPT ![w].carried = IF Ask(w).answer = "zip" THEN {} ELSE log]
    /\ GoTo(w, "clear")
    /\ UNCHANGED <<manager, errors, settings, log, made, history>>

\* Mutant of ClearLog: the argument is not looked at.
ClearLogAlways(w) ==
    /\ pc[w] = "clear"
    /\ log' = {}
    /\ Reply(w, run[w].carried)
    /\ UNCHANGED <<manager, errors, settings, made, used, pairs, said>>

\* ... and then delete it, with what was logged meanwhile, if the caller wants: the
\* web server does, a Session only when it says so.
ClearLog(w) ==
    /\ pc[w] = "clear"
    /\ log' = IF Ask(w).clear THEN {} ELSE log
    /\ Reply(w, run[w].carried)
    /\ UNCHANGED <<manager, errors, settings, made, used, pairs, said>>

Work(w) ==
    \/ Configure(w) \/ Parse(w) \/ LoadRaises(w) \/ LoadNothing(w)
    \/ \E targets \in SUBSET Targets : Load(w, targets) \/ Diff(w, targets)
    \/ Loaded(w) \/ Escape(w) \/ DiffRaises(w) \/ DiffInError(w)
    \/ Select(w) \/ Use(w) \/ UseRaises(w) \/ Close(w) \/ Finish(w)
    \/ AnswerWithout(w) \/ ReadLog(w) \/ ClearLog(w)

Next == \E w \in Workers : Work(w) \/ \E r \in Requests : Begin(w, r)
Spec == Init /\ [][Next]_vars

------------------------------------------------------------------------------
TypeOK ==
    /\ stack \in Seq(Models) /\ current \in Models \cup {None}
    /\ closed \subseteq seen /\ inError \subseteq seen /\ seen \subseteq Models
    /\ errors \subseteq Ids /\ settings \in Settings
    /\ log \subseteq said /\ said \subseteq Messages
    /\ made \in 0..MaxRuns
    /\ pc \in [Workers -> Steps]
    /\ \A w \in Workers :
         /\ run[w].id \in 0..made
         /\ pc[w] # "idle" => run[w].request \in Requests
         /\ run[w].model \in seen \cup {None} /\ run[w].report \in seen \cup {None}

------------------------------------------------------------------------------
\* The answers to requests to validate or view, without a comparison.
Checks == {a \in answers : a.request.files # <<>> /\ a.request.diff = None}
ModelsOf(a) == {m \in seen : m.run = a.id}

\* No entry point of the run is a document set with further targets.
Single(id) == \A m \in seen : m.run = id => m.target = None

\* A run that does not compare validates and views the models it loaded itself,
\* open, and reports success only when it did so for each of them, though run
\* hands the manager's current model on, whichever that is by then.
UsesItsOwn ==
    /\ \A u \in used : u.request.diff = None => u.model.run = u.id
    /\ \A a \in Checks : a.success =>
         ModelsOf(a) \subseteq {u.model : u \in {v \in used : v.id = a.id}}

\* What is validated or viewed is so in the mode that the request asked for, whatever
\* the requests before it asked for, and with the unit type registry if it asked for it.
MeetsRequest(set, r) == /\ r.utr => set.utr
                        /\ r.calcs # "misspelt" => set.calcs = r.calcs
SettingsMet == \A u \in used : MeetsRequest(u.settings, u.request)

\* A run asked for an exit code that tells of validation errors does not report
\* success when its archive, or one of the models it loaded, has errors.  Not so of
\* further targets: of a document set's models only the last one's errors count.
ErrorsReported ==
    \A a \in Checks : a.request.exitCode /\ a.success =>
       /\ a.id \notin errors
       /\ Single(a.id) => ModelsOf(a) \cap inError = {}

\* A run that was not told to keep them open leaves none of its models on the stack,
\* or, if it compares, leaves them closed, whichever step failed; but for further
\* targets, which stay, and for a comparison that raises: its second DTS and its report
\* stay on the stack, open.
NothingLeftOpen ==
    \A a \in answers : ~a.request.keepOpen /\ Single(a.id) =>
       /\ a.request.diff = None => ModelsOf(a) \cap Range(stack) = {}
       /\ \A m \in ModelsOf(a) \ closed :
             /\ a.request.diff # None /\ ~a.success /\ \A p \in pairs : p.id # a.id
             /\ m.of \in {a.request.diff, "report"}

\* A comparison is of the run's own two DTSes, whatever else is kept open below
\* them; but for further targets, which come between the two.
ComparesItsOwn == \A p \in pairs : Single(p.id) => p.from = p.entry

\* An answer with the log carries exactly what was logged since the buffer was last
\* deleted, by its own run and by those whose answers left the buffer or that had none:
\* no message is lost, and none comes back once it was deleted.
Carries(a) == \/ a.request.answer \in {"log", "zipWithLog"}
              \/ a.request.answer = "view" /\ ~a.success
Deletes(a) == (Carries(a) \/ a.request.answer = "zip") /\ a.request.clear
LogSinceDeleted ==
    \A a \in answers : Carries(a) =>
       a.log = {m \in said : /\ m.run <= a.id
                            /\ \A b \in answers : Deletes(b) /\ b.id < a.id => b.id < m.run}

=============================================================================
