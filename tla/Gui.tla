-------------------------------- MODULE Gui --------------------------------
(***************************************************************************)
(* The window (src/src/gui.rs) beside the command line: a thread that      *)
(* draws, takes clicks and blocks while it installs or removes the         *)
(* authorization, and a worker that does one job at a time, changes the    *)
(* boot configuration - itself, through the broker, or through an elevated *)
(* copy of the program - and reads it again.                               *)
(*                                                                         *)
(* Both are callers of the module Cli: copy 0 is the thread, in a process  *)
(* with the window's privileges, copies 1 and 2 the processes it runs.     *)
(* The users of Cli go on typing commands meanwhile.                       *)
(***************************************************************************)
EXTENDS Cli

CONSTANTS
  worker, ui,  \* the two threads, as callers
  OsIds        \* the entries that OsKind::guess gives an operating system

ASSUME ThreadsAssumption == Callers = Users \cup {worker, ui} /\ worker # ui
                              /\ {worker, ui} \cap Users = {}
ASSUME OsIdsAssumption == OsIds \subseteq Ids /\ WinIds \subseteq OsIds

VARIABLES
  window,    \* "closed" or "open"
  shown,     \* the entries drawn
  status,    \* the last outcome drawn below them
  confirm,   \* whether a restart waits for confirmation
  job,       \* whether a worker runs, or has left an answer
  sent,      \* the channel from the worker
  noPrompt,  \* what the banner says of the authorization
  banner,    \* the drawing thread is inside authz::install or uninstall
  last,      \* history: how the last job ended, for the window
  disturbed  \* history: something else changed the world since that job began

drawn == <<window, shown, status, confirm, job, noPrompt, banner>>
vars == <<cliVars, drawn, sent, last, disturbed>>

Thread == <<worker, 0>>
Drawing == <<ui, 0>>
Nothing == [kind |-> "none", list |-> <<>>]
Fresh(l) == [kind |-> "list", list |-> l]
Said(kind) == [kind |-> kind, list |-> <<>>]

Flagged == [t : Targets, default : BOOLEAN, next : BOOLEAN]

TypeOK ==
  /\ CliTypeOK
  /\ window \in {"closed", "open"}
  /\ shown \in Seq(Flagged)
  /\ status \in {"none", "error"}
  /\ confirm \in BOOLEAN /\ job \in BOOLEAN /\ noPrompt \in BOOLEAN /\ banner \in BOOLEAN
  /\ sent \in [kind : {"none", "list", "error", "gone"}, list : Seq(Flagged)]
  /\ last \in {"none", "list", "error", "gone", "left"}
  /\ disturbed \in BOOLEAN
  /\ sent # Nothing => job /\ at[Thread] = "idle"
  /\ banner => window = "open"

Init ==
  /\ CliInit
  /\ window = "closed" /\ shown = <<>> /\ status = "none"
  /\ confirm = FALSE /\ job = FALSE /\ sent = Nothing
  /\ noPrompt = FALSE /\ banner = FALSE
  /\ last = "none" /\ disturbed = FALSE

-----------------------------------------------------------------------------
(* The worker *)

\* A step of process k that changes the world, unless it is part of the running job.
Disturbs(k) ==
  disturbed' = (disturbed \/ (window = "open" /\ world' # world /\ ~(job /\ Who(k) = worker)))

\* read_entries: the systems, in their order, or everything when there are none.
IsOs(t) == t.guid # None \/ t.id \in OsIds
OsOnly(l) == LET kept == {i \in DOMAIN l : IsOs(l[i])}
             IN IF kept = {} THEN l ELSE [i \in 1..Cardinality(kept) |-> l[Nth(kept, i)]]
View(m, e) ==
  LET slot == SlotOf(m, SeesHive(e))
      l == OsOnly(Listing(m, e))
  IN [i \in DOMAIN l |-> [t |-> l[i], default |-> IsDefault(l[i], m.order, slot),
                          next |-> IsNext(l[i], m.next, slot)]]

\* SwitcherApp::start and spawn, when no job runs.  (The processes that a job left
\* behind are waited for: the model has one set of copies for all jobs.)
StartsJob(v, s, e) ==
  /\ ~job /\ ~Busy(worker)
  /\ v \in scene.verbs \cup {"list"}
  /\ verb' = [verb EXCEPT ![worker] = v]
  /\ sel' = [sel EXCEPT ![worker] = s]
  /\ at' = [at EXCEPT ![Thread] = "perform"]
  /\ elevated' = [elevated EXCEPT ![Thread] = e, ![Drawing] = e]
  /\ done' = [done EXCEPT ![worker] = "no"]
  /\ status' = "none" /\ job' = TRUE
  /\ last' = "none" /\ disturbed' = FALSE
  /\ prompts' = [prompts EXCEPT ![worker] = 0]
  /\ UNCHANGED <<constants, world, result, relay, chosen, sent>>

\* A step of the worker: on to the next place, or the answer sent and the thread over.
Works(place) == Move(Thread, place) /\ UNCHANGED sent
Sends(answer) == Leave(Thread, "none") /\ sent' = answer
WorkerAt(place) ==
  /\ at[Thread] = place
  /\ UNCHANGED <<constants, authorized, command, relay, chosen, drawn, last>>

\* After a change that ended with w the entries are read; an error is sent at once.
Continues(w, next) == IF w = "ok" THEN Works(next)
                      ELSE Sends(Said(IF w = "panic" THEN "gone" ELSE "error"))

\* perform: through the broker when it is installed, else by this process or by an
\* elevated copy of it, which gets no relay file.
Perform ==
  /\ WorkerAt("perform")
  /\ LET reload == verb[worker] = "list"
         broker == Windows /\ Installed
     IN \/ broker /\ Works(IF reload THEN "brokerRead" ELSE "brokerApply")
        \/ /\ ~broker /\ (reload \/ elevated[Thread])
           /\ Works(IF reload THEN "read" ELSE "apply")
        \/ /\ ~broker /\ ~reload /\ ~elevated[Thread]
           /\ Elevate(Thread, ~Windows /\ Installed)
           /\ UNCHANGED sent
  /\ UNCHANGED <<machine, done, disturbed>>

\* apply, with this process's own privileges.
Apply ==
  /\ WorkerAt("apply")
  /\ \E o \in Commands(machine, verb[worker], sel[worker], elevated[Thread]) :
       machine' = o.machine /\ Continues(o.word, "read") /\ Did(worker, o.word)
  /\ UNCHANGED disturbed

AppliedElsewhereUnread ==  \* mutant: keeps the list of before the change
  /\ WorkerAt("collect")
  /\ Sends(IF result[Child(Thread)] = "ok" THEN Fresh(shown) ELSE Said("error"))
  /\ UNCHANGED <<machine, done, disturbed>>

\* The elevated copy has ended: its exit code is all that comes back.
AppliedElsewhere ==
  /\ WorkerAt("collect")
  /\ LET code == result[Child(Thread)]
     IN IF code = "ok"
          THEN /\ at' = [at EXCEPT ![Thread] = "read"]
               /\ result' = [result EXCEPT ![Child(Thread)] = "none"]
               /\ UNCHANGED <<elevated, prompts, sent>>
          ELSE Sends(Said("error"))
  /\ UNCHANGED <<machine, done, disturbed>>

\* read_entries, with this process's own privileges.
Read ==
  /\ WorkerAt("read")
  /\ Sends(Fresh(View(machine, elevated[Thread])))
  /\ Did(worker, "ok")
  /\ UNCHANGED <<machine, disturbed>>

\* broker_perform: the change and the reading are two requests.
BrokerApply ==
  /\ WorkerAt("brokerApply")
  /\ \E r \in Replies(Thread, sel[worker]) : Request(Thread, r) /\ Continues(r.word, "brokerRead")
  /\ UNCHANGED disturbed
BrokerRead ==
  /\ WorkerAt("brokerRead")
  /\ \/ Installed /\ Sends(Fresh(View(machine, TRUE))) /\ Did(worker, "ok")
     \/ BrokerFails /\ Sends(Said("error")) /\ UNCHANGED done
  /\ UNCHANGED <<machine, disturbed>>

JobStep == Perform \/ Apply \/ AppliedElsewhere \/ Read \/ BrokerApply \/ BrokerRead

-----------------------------------------------------------------------------
(* The drawing thread *)

Draws == window = "open" /\ ~banner

\* run and launch.  Without the broker, Windows shows no window to a process that
\* lacks privileges: it starts again through a prompt, so that one with them opens.
Launch ==
  /\ worker \in scene.cast /\ window = "closed" /\ ~Busy(ui)
  /\ \E e \in BOOLEAN :
       /\ Windows /\ ~Installed => e
       /\ StartsJob("list", NoSelector, e)
  /\ window' = "open" /\ noPrompt' = Installed
  /\ UNCHANGED <<shown, confirm, banner>>

PollPeeks ==  \* mutant: leaves the answer in the channel
  /\ Draws /\ job /\ sent # Nothing
  /\ shown' = IF sent.kind = "list" THEN sent.list ELSE shown
  /\ status' = IF sent.kind = "error" THEN "error" ELSE status
  /\ job' = FALSE /\ last' = sent.kind
  /\ UNCHANGED <<cliVars, window, confirm, noPrompt, banner, sent, disturbed>>

PollIgnoresGone ==  \* mutant: forgets that a worker can panic
  /\ Draws /\ job /\ sent.kind \in {"list", "error"}
  /\ shown' = IF sent.kind = "list" THEN sent.list ELSE shown
  /\ status' = IF sent.kind = "error" THEN "error" ELSE status
  /\ job' = FALSE /\ sent' = Nothing /\ last' = sent.kind
  /\ UNCHANGED <<cliVars, window, confirm, noPrompt, banner, disturbed>>

\* poll: a list replaces the one shown, an error is shown, and a channel whose
\* sender is gone ends the job without a word.
Poll ==
  /\ Draws /\ job /\ sent # Nothing
  /\ shown' = IF sent.kind = "list" THEN sent.list ELSE shown
  /\ status' = IF sent.kind = "error" THEN "error" ELSE status
  /\ job' = FALSE /\ sent' = Nothing /\ last' = sent.kind
  /\ UNCHANGED <<cliVars, window, confirm, noPrompt, banner, disturbed>>

ClickByIndex(i) ==  \* mutant: names the entry by its place in the list
  /\ Draws /\ ~confirm /\ i \in DOMAIN shown
  /\ \/ ~shown[i].default /\ StartsJob("default", [NoSelector EXCEPT !.index = {i - 1}], elevated[Drawing])
     \/ ~shown[i].next /\ StartsJob("next", [NoSelector EXCEPT !.index = {i - 1}], elevated[Drawing])
     \/ shown[i].next /\ StartsJob("clear", NoSelector, elevated[Drawing])
  /\ UNCHANGED <<window, shown, confirm, noPrompt, banner>>

\* entry_card: make it the default, arm it, or disarm it.
Click(i) ==
  /\ Draws /\ ~confirm /\ i \in DOMAIN shown
  /\ \/ ~shown[i].default /\ StartsJob("default", KeyOf(shown[i].t), elevated[Drawing])
     \/ ~shown[i].next /\ StartsJob("next", KeyOf(shown[i].t), elevated[Drawing])
     \/ shown[i].next /\ StartsJob("clear", NoSelector, elevated[Drawing])
  /\ UNCHANGED <<window, shown, confirm, noPrompt, banner>>

\* actions and confirmation: the machine restarts, which closes the window, or the
\* system refuses to.
AskRestart ==
  /\ "power" \in scene.verbs
  /\ Draws /\ ~job /\ ~confirm
  /\ confirm' = TRUE
  /\ UNCHANGED <<cliVars, window, shown, status, job, noPrompt, banner, sent, last, disturbed>>
Confirm ==
  /\ Draws /\ confirm
  /\ confirm' = FALSE
  /\ status' \in {status, "error"}
  /\ UNCHANGED <<cliVars, window, shown, job, noPrompt, banner, sent, last, disturbed>>

\* no_prompt_banner runs the installation on the drawing thread, whatever the
\* worker is doing.
ClickBanner ==
  /\ ui \in scene.cast /\ Draws /\ ~confirm /\ ~Busy(ui)
  /\ banner' = TRUE
  /\ verb' = [verb EXCEPT ![ui] = IF noPrompt THEN "uninstall" ELSE "install"]
  /\ at' = [at EXCEPT ![Drawing] = "authorize"]
  /\ result' = [result EXCEPT ![Drawing] = "none"]
  /\ done' = [done EXCEPT ![ui] = "no"]
  /\ prompts' = [prompts EXCEPT ![ui] = 0]
  /\ UNCHANGED <<constants, world, sel, elevated, relay, chosen, sent, last, disturbed,
                 window, shown, status, confirm, job, noPrompt>>
BannerReturns ==
  /\ banner /\ at[Drawing] = "idle"
  /\ banner' = FALSE
  /\ noPrompt' = IF result[Drawing] = "ok" THEN ~noPrompt ELSE noPrompt
  /\ status' = IF result[Drawing] = "ok" THEN "none" ELSE "error"
  /\ UNCHANGED <<cliVars, window, shown, confirm, job, sent, last, disturbed>>

\* The window's process ends, with both threads; what they run does not.
Close ==
  /\ window = "open"
  /\ window' = "closed" /\ shown' = <<>> /\ status' = "none"
  /\ confirm' = FALSE /\ job' = FALSE /\ sent' = Nothing
  /\ noPrompt' = FALSE /\ banner' = FALSE
  /\ at' = [at EXCEPT ![Thread] = "idle", ![Drawing] = "idle"]
  /\ elevated' = [elevated EXCEPT ![Thread] = FALSE, ![Drawing] = FALSE]
  /\ prompts' = [prompts EXCEPT ![worker] = 0, ![ui] = 0]
  /\ result' = [k \in Copies |-> IF k = Drawing /\ at[k] # "idle" THEN "left"
                                ELSE IF k \in {Child(Thread), Child(Drawing)} THEN "none"
                                ELSE result[k]]
  /\ last' = IF job THEN "left" ELSE last
  /\ disturbed' = FALSE
  /\ UNCHANGED <<constants, world, command, relay, chosen, done>>

-----------------------------------------------------------------------------
WindowStep == \/ Launch \/ Poll \/ AskRestart \/ Confirm \/ ClickBanner \/ BannerReturns
              \/ Close
              \/ \E i \in DOMAIN shown : Click(i)

\* A step of the command line; the threads have their own ways to end.
Elsewhere(k) == UNCHANGED <<drawn, sent, last>> /\ Disturbs(k)
Command(k) == k # Thread /\ CopyStep(k) /\ Elsewhere(k)

Next ==
  \/ WindowStep \/ JobStep
  \/ \E u \in Users : Ask(u) /\ Elsewhere(First(u))
  \/ \E k \in Copies : Command(k) \/ ((Answer(k) \/ Kill(k)) /\ Elsewhere(k))
  \/ Reap /\ Elsewhere(Drawing)

\* The threads and the processes they wait for run, and every frame polls before it
\* takes a click; the window repaints as long as a job runs.  Nobody has to answer
\* a prompt, click or type.
Processes(c) == \E d \in Depths : Command(<<c, d>>)
Fairness ==
  /\ WF_vars(JobStep \/ Processes(worker))
  /\ WF_vars(Processes(ui))
  /\ SF_vars(Poll)
  /\ WF_vars(BannerReturns)

Spec == Init /\ [][Next]_vars /\ Fairness

-----------------------------------------------------------------------------
(* Properties *)

\* What each of them asked for, and the answer it got.
Asks(c) == IF verb[c] \in {"list", "power"} THEN "reading" ELSE "writing"
ToldOf(word) == IF word \in Errors THEN "error" ELSE word
Told(c) ==
  IF c = worker
    THEN IF job THEN "waits"
         ELSE CASE last = "list" -> "ok" [] last = "gone" -> "left" [] OTHER -> last
    ELSE IF at[First(c)] # "idle" THEN "waits" ELSE ToldOf(result[First(c)])

\* What is left of a doomed record is nobody's doing any more.
E == INSTANCE Errand WITH Askers <- Callers, world <- <<machine, Lasting>>, done <- done,
                          asked <- [c \in Callers |-> Asks(c)],
                          told <- [c \in Callers |-> Told(c)]

\* Whoever asks, by whichever chain of elevated copies and broker calls, and
\* whatever fails or is killed: the command is carried out at most once, nothing
\* else changes the world, and success is reported only of a command that was carried
\* out and succeeded (dispatch, escalate, perform).
KeepsErrands == E!Spec

\* One command shows its user one prompt: the elevated half never elevates itself
\* again (escalate, "elevating again would loop forever").  The window's worker
\* hands its child no relay file to know itself by, so that one asks once more when
\* the first prompt gave it no privileges.
OneQuestion ==
  /\ \A u \in Users : prompts[u] > 1 => verb[u] \in {"install", "uninstall"}
  /\ prompts[worker] > 1 => ~elevated[Child(Thread)]

\* Two replies of the broker make one `default` or `next`: the entry chosen on the
\* first is the one that the second changes, whatever others changed in between.
BrokerSetsChosenStep ==
  \A k \in Copies : at[k] = "brokerSet" /\ done'[Who(k)] # done[Who(k)] =>
    machine' \in {machine, Firmware(machine, verb[Who(k)], chosen[k]),
                 Selecting(machine, verb[Who(k)], chosen[k])}
BrokerSetsChosen == [][BrokerSetsChosenStep]_vars

Rights == elevated[Drawing] \/ (Windows /\ Installed)
Sees == SeesVariables(Rights)
AtRest == window = "open" /\ ~job /\ ~disturbed

\* After a job that ended well the window shows what the machine now has, so that
\* the restart button names where it will land, until something else changes it.
ShownIsTruth == AtRest /\ last = "list" => shown = View(machine, Rights)

\* A click that ended well selected the very entry clicked, though the window
\* hides entries that the process carrying it out counts.  (An unprivileged window
\* that removed the broker under Windows sees nothing any more.)
ClickSelects ==
  AtRest /\ last = "list" /\ Sees /\ verb[worker] \in {"default", "next"} =>
    LET clicked == {i \in DOMAIN shown : Key(shown[i].t) \in sel[worker].keys}
    IN /\ clicked # {}
       /\ \A i \in clicked : IF verb[worker] = "default" THEN shown[i].default
                               ELSE shown[i].next

\* A job ends, however the worker and the processes it started end, unless somebody
\* leaves a prompt unanswered (poll; spawn, "wakes the UI when it lands").
Asking == \E k \in Copies : Who(k) \in {worker, ui} /\ at[k] = "asking"
JobsEnd == job ~> ~job \/ Asking

-----------------------------------------------------------------------------
(* Inductive invariants of the proofs *)

\* The types that the processes' control depends on.
ControlOK ==
  /\ scene \in Scenes
  /\ authorized \subseteq {"binary", "grant", "doomed"}
  /\ verb \in [Callers -> AllVerbs]
  /\ at \in [Copies -> CliPlaces \cup JobPlaces]
  /\ elevated \in [Copies -> BOOLEAN]
  /\ result \in [Copies -> Words]
  /\ relay \in [Copies -> {"absent", "empty"} \cup Words]
  /\ prompts \in [Callers -> Nat]
  /\ done \in [Callers -> {"no"} \cup Fates]
  /\ window \in {"closed", "open"}
  /\ job \in BOOLEAN /\ banner \in BOOLEAN /\ disturbed \in BOOLEAN
  /\ sent.kind \in {"none", "list", "error", "gone"}
  /\ last \in {"none", "list", "error", "gone", "left"}

\* A copy that does something itself, and one that may still carry the command out.
Acting(place) == place \notin {"idle", "waiting", "collect"}
Pending(place) == Acting(place) /\ place \notin {"read", "brokerRead"}

\* A child that ended well, not collected yet.
Good(c, d) == at[<<c, d>>] = "collect" /\ d < 2 /\ result[<<c, d + 1>>] = "ok"

\* Of the copies of a caller only the last one acts, and it has nothing below it.
ChainInv(c) ==
  /\ \A d, e \in Depths : d < e /\ (Acting(at[<<c, d>>]) \/ Good(c, d)) => at[<<c, e>>] = "idle"
  /\ \A d, e \in Depths : e = d + 1 /\ at[<<c, d>>] = "collect" => at[<<c, e>>] = "idle"
  /\ at[<<c, 2>>] \notin {"asking", "waiting", "collect"}

\* It carries out a command that nobody has, whose answer is not Ok; an Ok that
\* waits to be collected is of a command that succeeded, and a job reads after a
\* change only when that succeeded.
DutyInv(c) == \A d \in Depths :
  /\ Pending(at[<<c, d>>]) => done[c] = "no" /\ Told(c) \in {"waits", "left", "error"}
  /\ Good(c, d) => done[c] = "ok"
  /\ at[<<c, d>>] \in {"read", "brokerRead"} => done[c] # "failed"

Authorizing == {"install", "uninstall"}

\* The verb decides the places, and an elevated half has its parent's relay file,
\* but the half that the window's worker runs.
RouteInv(c) ==
  /\ \A d \in Depths :
       /\ at[<<c, d>>] = "authorize" => verb[c] \in Authorizing
       /\ at[<<c, d>>] \in {"power", "choose", "brokerSet", "brokerCall", "escalate", "switch"} =>
            verb[c] \notin Authorizing
       /\ at[<<c, d>>] \in JobPlaces => <<c, d>> = Thread
       /\ at[<<c, d>>] = "asking" /\ verb[c] \notin Authorizing =>
            relay[<<c, d>>] # "absent" \/ <<c, d>> = Thread
  /\ verb[c] \notin Authorizing => \A d, e \in Depths : e = d + 1 =>
       /\ at[<<c, e>>] # "idle" => relay[<<c, d>>] # "absent" \/ <<c, d>> = Thread
       /\ c # worker /\ d = 0 => at[<<c, e>>] \notin {"asking", "waiting", "collect"}
  /\ c # worker /\ verb[c] \notin Authorizing => at[<<c, 2>>] = "idle"

\* Whoever still has something to do has shown at most one prompt per copy above it.
PromptInv(c) ==
  /\ \A d \in Depths : Pending(at[<<c, d>>]) =>
       prompts[c] <= IF at[<<c, d>>] = "asking" THEN d + 1 ELSE d
  /\ prompts[c] <= 2
  /\ c # worker /\ verb[c] \notin Authorizing => prompts[c] <= 1

\* A job's thread, its answer and what it did.
WorkerInv ==
  /\ verb[worker] \notin Authorizing \cup {"power"}
  /\ at[Thread] \in JobPlaces \cup {"idle", "asking", "waiting", "collect"}
  /\ at[Thread] # "idle" => job
  /\ IF sent.kind = "none" THEN sent = Nothing ELSE job /\ at[Thread] = "idle"
  /\ sent.kind = "list" \/ (~job /\ last = "list") => done[worker] = "ok"
  /\ at[Child(Thread)] = "escalate" \/ prompts[worker] > 1 => ~elevated[Child(Thread)]

CallerInv(c) == ChainInv(c) /\ DutyInv(c) /\ RouteInv(c) /\ PromptInv(c)
GuiInv == ControlOK /\ WorkerInv /\ \A c \in Callers : CallerInv(c)

\* While the window is open: a job's thread has the window's rights, what it sends
\* is the last thing a job does, and as long as nothing else changed the world a job
\* that went past the broker still has none, and the list sent or drawn is what the
\* window may see.
ShownInv == window = "open" =>
  /\ at[Thread] # "idle" => elevated[Thread] = elevated[Drawing]
  /\ at[Thread] \in {"brokerApply", "brokerRead"} => Windows
  /\ sent.kind = "list" => ~Busy(worker)
  /\ ~disturbed =>
       /\ at[Thread] \in {"apply", "read", "asking", "waiting", "collect"} => ~(Windows /\ Installed)
       /\ sent.kind = "list" => sent.list = View(machine, Rights)
       /\ ~job /\ last = "list" => shown = View(machine, Rights)

\* What the other variables hold; a boot order is always a permutation.
DataInv ==
  /\ espOpen \in BOOLEAN
  /\ machine \in Machines /\ IsPermutation(machine.order)
  /\ sel \in [Callers -> SelectorSpace]
  /\ chosen \in [Copies -> Targets \cup {NoTarget}]
  /\ shown \in Seq(Flagged)
  /\ sent \in [kind : {"none", "list", "error", "gone"}, list : Seq(Flagged)]
  /\ status \in {"none", "error"} /\ confirm \in BOOLEAN /\ noPrompt \in BOOLEAN
  /\ banner \/ job => window = "open"

\* What Switcher::entries and the window list, over any boot order, for a process
\* that reads the store or does not.
Seen(hive) ==
  {e \in Targets : Listed(e, [efi |-> IF hive /\ WinIds = {Home} THEN Home ELSE None])}
Drawn(hive) == {e \in Seen(hive) : IsOs(e) \/ \A f \in Seen(hive) : ~IsOs(f)}

\* A change is made by a process that sees everything, or through the broker, which
\* does; what a copy chose from the broker's list is on that list.
Setting(c) == verb[c] \in {"default", "next"}
ChoiceInv == \A c \in Callers, d \in Depths :
  /\ at[<<c, d>>] = "switch" /\ Setting(c) => elevated[<<c, d>>]
  /\ at[<<c, d>>] = "choose" => Setting(c)
  /\ at[<<c, d>>] = "brokerSet" => Setting(c) /\ chosen[<<c, d>>] \in Seen(TRUE)
  /\ at[<<c, d>>] \in {"power", "brokerCall"} => ~Setting(c)

\* Whether the window's own rights reach the store, on the systems where they reach
\* the variables.
SeesStore == Windows \/ elevated[Drawing] \/ espOpen

\* A job whose change was made and has not been reported otherwise.
Succeeded == \/ at[Thread] \in {"read", "brokerRead"} \/ \E d \in Depths : Good(worker, d)
             \/ sent.kind = "list" \/ (~job /\ last = "list")
Selected(m, v, e) ==
  IF v = "default" THEN m.order[1] = e.id /\ (e.guid # None => m.def = e.guid)
  ELSE m.next = e.id /\ (e.guid # None => m.seq = e.guid)

\* While the window is open, what it draws are entries on its own list, and its jobs
\* name one of them by its key; what changes the machine itself has privileges, or
\* was given that key.
KeysInv ==
  /\ at[Thread] = "apply" => elevated[Thread]
  /\ \A d \in Depths : at[<<worker, d>>] = "brokerSet" => Key(chosen[<<worker, d>>]) \in sel[worker].keys
  /\ sel[worker].index = {} /\ sel[worker].labels = {}
  /\ window = "closed" => shown = <<>>
  /\ window = "open" =>
       /\ \A i \in DOMAIN shown : shown[i].t \in Drawn(SeesStore)
       /\ \A i \in DOMAIN sent.list : sent.list[i].t \in Drawn(SeesStore)
       /\ Setting(worker) => \E e \in Drawn(SeesStore) : sel[worker] = KeyOf(e)

\* A change that succeeded selected the entry of that key on the full list.
MadeChange(m) == \E e \in Seen(TRUE) : Key(e) \in sel[worker].keys /\ Selected(m, verb[worker], e)
ChangeInv == window = "open" /\ Setting(worker) /\ Succeeded /\ ~disturbed => MadeChange(machine)

-----------------------------------------------------------------------------
(* What the code says of itself and does not keep *)

\* A key that the window shows denotes an entry for as long as the machine is not
\* changed (Entry::key, "Stable selector key").
ClickFindsStep ==
  AppliedElsewhere /\ result[Child(Thread)] = "notFound" => disturbed
ClickFinds == [][ClickFindsStep]_vars
=============================================================================
