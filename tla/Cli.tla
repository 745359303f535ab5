-------------------------------- MODULE Cli --------------------------------
(***************************************************************************)
(* The command line, run with or without privileges: what `dispatch` does  *)
(* with a command (src/src/cli.rs), how a process that lacks privileges    *)
(* runs itself again with them (src/src/switcher/elevate.rs) and gets its  *)
(* output back through a relay file, and how the authorization that makes  *)
(* this prompt-free is installed (src/src/switcher/polkit.rs, authz.rs;    *)
(* its Windows half is the module Install).  A command that reaches the    *)
(* boot configuration is one step here: the module Switcher takes it       *)
(* apart.  So is a request to the broker, which the module Pipe does.      *)
(*                                                                         *)
(* A caller is a user at a terminal (and the threads of a window, in the   *)
(* module Gui).  Copy 0 of a caller is the process it started, copy d + 1  *)
(* the elevated one that copy d runs and waits for.                        *)
(***************************************************************************)
EXTENDS BootEntries, FiniteSets

CONSTANTS
  Callers,    \* whoever has something done
  Users,      \* those who type commands
  Selectors,  \* the selectors they type
  Scenes      \* a bound: the callers that act in one behaviour, the system it runs
              \* under, what they ask for (by typing or clicking) and the faults
              \* that may happen

AllVerbs == {"list", "default", "next", "clear", "power", "install", "uninstall"}
FaultKinds == {"write",      \* a variable or the store cannot be written
               "panic",      \* a command panics after its change
               "relay",      \* the relay file cannot be written or read
               "broker",     \* a call of the broker ends with an error
               "unelevated", \* an approved prompt does not give privileges
               "authorize",  \* a step of the authorization's installation fails
               "power",      \* the system's tool for restarting cannot be started
               "kill"}       \* a process that was started dies

ASSUME UsersAssumption == Users \subseteq Callers
ASSUME CliSelectorsAssumption == Selectors \subseteq SelectorSpace
ASSUME ScenesAssumption ==
  Scenes \subseteq [cast : SUBSET Callers, platform : {"linux", "windows"},
                   verbs : SUBSET AllVerbs, faults : SUBSET FaultKinds]

VARIABLES
  scene,      \* the scene of this behaviour
  espOpen,    \* whether anybody may read the BCD hive (Linux)
  machine,    \* the boot configuration: order, next, def, seq
  authorized, \* "binary": the CLI is at its canonical path; "grant": the polkit
              \* policy, or the record of the service; "doomed": Windows will
              \* delete that record as soon as nobody uses it
  verb, sel,  \* per caller: the command it gave
  at,         \* per copy: where it is
  elevated,   \* per copy: its privileges
  result,     \* per copy: how it ended, until that is collected
  relay,      \* per copy: the relay file it created
  chosen,     \* per copy: the entry it chose from the broker's list
  prompts,    \* per caller: the prompts shown for its command
  done        \* per caller: whether its command was carried out, and how that ended

world == <<machine, authorized>>
constants == <<scene, espOpen>>
command == <<verb, sel>>
cliVars == <<constants, world, command, at, elevated, result, relay, chosen,
             prompts, done>>

Depths == 0..2
Copies == Callers \X Depths
Who(k) == k[1]
Child(k) == <<k[1], k[2] + 1>>
Parent(k) == <<k[1], k[2] - 1>>
First(c) == <<c, 0>>

Machines == [order : Seq(Ids), next : Ids \cup {None}, def : Guids, seq : Guids \cup {None}]
NoSelector == [index |-> {}, keys |-> {}, labels |-> {}]
CliPlaces == {"idle", "dispatch", "power", "authorize", "choose", "brokerSet",
              "brokerCall", "escalate", "asking", "waiting", "collect", "switch"}
JobPlaces == {"perform", "apply", "read", "brokerApply", "brokerRead"}  \* module Gui
Errors == {"notFound", "failed", "refused", "noPrivilege"}
Words == {"none", "ok", "left"} \cup Errors
Fates == {"ok", "failed"}  \* of a command that was carried out

-----------------------------------------------------------------------------
(* What a process sees and does with the boot configuration *)

May(fault) == fault \in scene.faults
Windows == scene.platform = "windows"
Installed == {"binary", "grant"} \subseteq authorized
Doomed == "doomed" \in authorized

\* Under Windows the firmware's variables need privileges; under Linux the hive
\* usually does.
SeesVariables(e) == e \/ ~Windows
SeesHive(e) == e \/ (~Windows /\ espOpen)

SlotOf(m, hive) ==
  LET efi == PairedEntry(m.order, FALSE)
  IN IF hive /\ efi # None THEN [efi |-> efi, def |-> m.def, seq |-> m.seq] ELSE NoSlot
Listing(m, e) == IF SeesVariables(e) THEN Entries(m.order, SlotOf(m, SeesHive(e))) ELSE <<>>

Firmware(m, v, t) == IF v = "default" THEN [m EXCEPT !.order = MoveToFront(m.order, t.id)]
                                     ELSE [m EXCEPT !.next = t.id]
Store(m, v, t) == IF t.guid = None THEN m
                  ELSE IF v = "default" THEN [m EXCEPT !.def = t.guid]
                  ELSE [m EXCEPT !.seq = t.guid]
Selecting(m, v, t) == Store(Firmware(m, v, t), v, t)
Clearing(m, e) == [m EXCEPT !.next = None,
                            !.seq = IF SlotOf(m, SeesHive(e)) = NoSlot THEN @ ELSE None]

\* The ways a command that started with configuration m may end.
Outcome(m, w) == [machine |-> m, word |-> w]
Failures(m, half) ==
  (IF May("write") THEN {Outcome(m, "failed"), Outcome(half, "failed")} ELSE {})
Panics(m) == IF May("panic") THEN {Outcome(m, "panic")} ELSE {}
Commands(m, v, s, e) ==
  LET hits == UNION {{l[i] : i \in {i \in DOMAIN l : Finds(s, l, i)}} : l \in {Listing(m, e)}}
  IN CASE v \in {"default", "next"} ->
            IF hits = {} THEN {Outcome(m, "notFound")}
            ELSE UNION { {Outcome(Selecting(m, v, t), "ok")} \cup Panics(Selecting(m, v, t))
                           \cup Failures(m, Firmware(m, v, t)) : t \in hits }
       [] v = "clear" -> {Outcome(Clearing(m, e), "ok")}
                           \cup Failures(m, [m EXCEPT !.next = None])
       [] OTHER -> {Outcome(m, "ok")}

-----------------------------------------------------------------------------
CliTypeOK ==
  /\ scene \in Scenes
  /\ espOpen \in BOOLEAN
  /\ machine \in Machines
  /\ authorized \subseteq {"binary", "grant", "doomed"}
  /\ verb \in [Callers -> AllVerbs]
  /\ sel \in [Callers -> SelectorSpace]
  /\ at \in [Copies -> CliPlaces \cup JobPlaces]
  /\ elevated \in [Copies -> BOOLEAN]
  /\ result \in [Copies -> Words]
  /\ relay \in [Copies -> {"absent", "empty"} \cup Words]
  /\ chosen \in [Copies -> Targets \cup {NoTarget}]
  /\ prompts \in [Callers -> 0..2]
  /\ done \in [Callers -> {"no"} \cup Fates]

\* No one-shot is armed, and the authorization is installed or not.
CliInit ==
  /\ scene \in Scenes
  /\ espOpen \in IF ~Windows THEN BOOLEAN ELSE {FALSE}
  /\ machine \in [order : {s \in [1..Cardinality(Ids) -> Ids] : IsPermutation(s)},
                  next : {None}, def : Guids, seq : {None}]
  /\ authorized \in {{}, {"binary", "grant"}}
  /\ verb = [c \in Callers |-> "list"]
  /\ sel = [c \in Callers |-> NoSelector]
  /\ at = [k \in Copies |-> "idle"]
  /\ elevated = [k \in Copies |-> FALSE]
  /\ result = [k \in Copies |-> "none"]
  /\ relay = [k \in Copies |-> "absent"]
  /\ chosen = [k \in Copies |-> NoTarget]
  /\ prompts = [c \in Callers |-> 0]
  /\ done = [c \in Callers |-> "no"]

-----------------------------------------------------------------------------
(* How a copy moves and ends *)

Busy(c) == \E d \in Depths : at[<<c, d>>] # "idle"
HasRelay(k) == k[2] > 0 /\ relay[Parent(k)] # "absent"

\* What a step does to the processes: it moves one, ends it, starts its child or
\* shows a prompt.
Move(k, place) ==
  /\ at' = [at EXCEPT ![k] = place]
  /\ UNCHANGED <<elevated, result, prompts>>

\* A copy ends; a parent that waits for it goes on.
Leave(k, w) ==
  LET waited == k[2] > 0 /\ at[Parent(k)] = "waiting"
  IN /\ at' = [c \in Copies |-> IF c = k THEN "idle"
                               ELSE IF waited /\ c = Parent(k) THEN "collect" ELSE at[c]]
     /\ result' = [c \in Copies |-> IF c = k /\ (waited \/ k[2] = 0) THEN w
                                   ELSE IF c = Child(k) THEN "none" ELSE result[c]]
     /\ elevated' = IF k[2] > 0 \/ Who(k) \in Users THEN [elevated EXCEPT ![k] = FALSE] ELSE elevated
     /\ prompts' = IF k[2] = 0 THEN [prompts EXCEPT ![Who(k)] = 0] ELSE prompts

Start(k, e) ==
  /\ at' = [at EXCEPT ![k] = "waiting", ![Child(k)] = "dispatch"]
  /\ elevated' = [elevated EXCEPT ![Child(k)] = e]
  /\ UNCHANGED <<result, prompts>>

Prompt(k) ==
  /\ at' = [at EXCEPT ![k] = "asking"]
  /\ prompts' = [prompts EXCEPT ![Who(k)] = @ + 1]
  /\ UNCHANGED <<elevated, result>>

\* emit: what is printed goes to the relay file when there is one.
Emit(k, w, files) ==
  \/ relay' = IF HasRelay(k) THEN [files EXCEPT ![Parent(k)] = w] ELSE files
  \/ May("relay") /\ relay' = files

Exit(k, w) == Leave(k, w) /\ Emit(k, w, relay)

\* A panic is an exit code like any other.
Code(w) == IF w = "panic" THEN "failed" ELSE w

\* The command of c has been carried out, or attempted, and ended with w.
Fate(w) == IF w = "ok" THEN "ok" ELSE "failed"
Did(c, w) == done' = [done EXCEPT ![c] = Fate(w)]

-----------------------------------------------------------------------------
(* A command, from the process that was started to its answer *)

\* Somebody types a command; whatever they left behind has ended.
Ask(u) ==
  /\ u \in Users \cap scene.cast /\ ~Busy(u)
  /\ \E v \in scene.verbs :
       /\ verb' = [verb EXCEPT ![u] = v]
       /\ \E s \in IF v \in {"default", "next"} THEN Selectors ELSE {NoSelector} :
            sel' = [sel EXCEPT ![u] = s]
  /\ \E e \in BOOLEAN : elevated' = [elevated EXCEPT ![First(u)] = e]
  /\ at' = [at EXCEPT ![First(u)] = "dispatch"]
  /\ result' = [result EXCEPT ![First(u)] = "none"]
  /\ relay' = [relay EXCEPT ![First(u)] = "absent"]
  /\ done' = [done EXCEPT ![u] = "no"]
  /\ prompts' = [prompts EXCEPT ![u] = 0]
  /\ UNCHANGED <<constants, world, chosen>>

\* needs_elevation.
NeedsElevation(v) == Windows \/ v \in {"default", "next", "clear"}

\* dispatch: power and the authorization need nothing, then comes the broker, then
\* this process, elevated if it must.
Route(k) ==
  LET v == verb[Who(k)]
  IN CASE v = "power" -> "power"
       [] v \in {"install", "uninstall"} -> "authorize"
       [] OTHER -> IF Windows /\ Installed
                     THEN IF v \in {"default", "next"} THEN "choose" ELSE "brokerCall"
                   ELSE IF NeedsElevation(v) /\ ~elevated[k] THEN "escalate" ELSE "switch"

Dispatch(k) ==
  /\ at[k] = "dispatch"
  /\ Move(k, Route(k))
  /\ UNCHANGED <<constants, world, command, relay, chosen, done>>

\* reboot, shutdown: handed to the system's tool, whose own answer nobody reads.
Power(k) ==
  /\ at[k] = "power"
  /\ \/ Exit(k, "ok") /\ Did(Who(k), "ok")
     \/ May("power") /\ Exit(k, "failed") /\ Did(Who(k), "failed")
  /\ UNCHANGED <<constants, world, command, chosen>>

\* The command itself, by a process that may.
Switch(k) ==
  /\ at[k] = "switch"
  /\ \E o \in Commands(machine, verb[Who(k)], sel[Who(k)], elevated[k]) :
       machine' = o.machine /\ Exit(k, Code(o.word)) /\ Did(Who(k), o.word)
  /\ UNCHANGED <<constants, authorized, command, chosen>>

\* run_self_elevated: polkit asks nothing for the installed CLI that its policy
\* names (in a local, active session); everything else asks.
Elevate(k, free) == IF free THEN Start(k, TRUE) ELSE Prompt(k)

EscalateAgain(k) ==  \* mutant: the elevated half elevates itself again
  /\ at[k] = "escalate" /\ k[2] < 2
  /\ relay' = [relay EXCEPT ![k] = "empty"]
  /\ Elevate(k, ~Windows /\ Installed)
  /\ UNCHANGED <<constants, world, command, chosen, done>>

\* escalate: a half that was elevated and still lacks privileges gives up; else a
\* relay file is made and this command line run again.
Escalate(k) ==
  /\ at[k] = "escalate"
  /\ \/ HasRelay(k) /\ Exit(k, "noPrivilege")
     \/ ~HasRelay(k) /\ May("relay") /\ Exit(k, "failed")
     \/ /\ ~HasRelay(k)
        /\ relay' = [relay EXCEPT ![k] = "empty"]
        /\ Elevate(k, ~Windows /\ Installed)
  /\ UNCHANGED <<constants, world, command, chosen, done>>

\* What may be left of the authorization by an installation that says Ok: all of it.
\* Nothing is left by a removal under Linux; under Windows the executables that are
\* in use are, and the record that is, until nobody uses it.  Neither an installation
\* nor a removal can do anything with a record that is doomed.
AfterOk(v) ==
  IF Doomed THEN {}
  ELSE IF v = "install" THEN {{"binary", "grant"}}
  ELSE IF ~Windows THEN {{}}
  ELSE {files \cup record : files \in {{}, authorized \cap {"binary"}},
                            record \in {{}} \cup (IF "grant" \in authorized
                                                 THEN {{"grant", "doomed"}} ELSE {})}

\* And by one that fails: under Windows the last things an installation does are the
\* start trigger and the uninstall entry, and a removal fails before it has removed
\* anything.
AfterError(v) ==
  IF v = "install"
    THEN {authorized, authorized \cup {"binary"}}
           \cup (IF Windows /\ ~Doomed THEN {{"binary", "grant"}} ELSE {})
    ELSE {authorized} \cup (IF Windows THEN {}
                            ELSE {authorized \ {"grant"}, authorized \ {"binary"}})

\* authz::install and uninstall: a shell run by pkexec, or the process itself again
\* (run_install), which has no relay file to know a second time from the first: it
\* would ask for ever where a prompt gives no privileges.  Depths cuts that short.
\* Without the files to install it fails before it asks.
Authorize(k) ==
  /\ at[k] = "authorize"
  /\ \/ /\ elevated[k]
        /\ authorized' \in AfterOk(verb[Who(k)])
        /\ Exit(k, "ok") /\ Did(Who(k), "ok")
     \/ /\ elevated[k] /\ (Doomed \/ May("authorize"))
        /\ authorized' \in AfterError(verb[Who(k)])
        /\ Exit(k, "failed") /\ Did(Who(k), "failed")
     \/ /\ ~elevated[k] /\ k[2] < 2
        /\ Elevate(k, FALSE)
        /\ UNCHANGED <<authorized, relay, done>>
     \/ /\ ~elevated[k] /\ (k[2] = 2 \/ May("authorize"))
        /\ Exit(k, "failed")
        /\ UNCHANGED <<authorized, done>>
  /\ UNCHANGED <<constants, machine, command, chosen>>

\* The user answers the prompt.  (pkexec's child is root; where prompts give no
\* privileges the child of runas is not.)
Answer(k) ==
  /\ at[k] = "asking"
  /\ \/ Start(k, TRUE)
     \/ Windows /\ May("unelevated") /\ Start(k, FALSE)
     \/ /\ at' = [at EXCEPT ![k] = "collect"]
        /\ result' = [result EXCEPT ![Child(k)] = "refused"]
        /\ UNCHANGED <<elevated, prompts>>
  /\ UNCHANGED <<constants, world, command, relay, chosen, done>>

CollectCode(k, text) ==  \* mutant: reports what was printed, whatever the exit code
  IF text \in {"absent", "empty"} THEN "ok" ELSE text

\* What the parent reports: success by the exit code, and the elevated half's own
\* message when there is one.
Collected(k, text) ==
  LET code == result[Child(k)]
  IN IF code = "ok" THEN "ok"
     ELSE IF text \in Errors THEN text
     ELSE IF code = "refused" THEN "refused" ELSE "failed"

\* The child has ended: its output is read back and the relay file removed.
Collect(k) ==
  /\ at[k] = "collect"
  /\ \E text \in {relay[k]} \cup (IF May("relay") THEN {"empty"} ELSE {}) :
       /\ Leave(k, Collected(k, text))
       /\ Emit(k, Collected(k, text), [relay EXCEPT ![k] = "absent"])
  /\ UNCHANGED <<constants, world, command, chosen, done>>

-----------------------------------------------------------------------------
(* Through the broker: privileged, one request at a time *)

\* A doomed service answers as long as it runs, and is not started again.
BrokerFails == May("broker") \/ ~Installed \/ Doomed

\* choose: the selector is resolved here, against a list asked for first.
Choose(k) ==
  /\ at[k] = "choose"
  /\ LET l == Listing(machine, TRUE)
         hits == {i \in DOMAIN l : Finds(sel[Who(k)], l, i)}
     IN \/ \E i \in hits :
            /\ Installed
            /\ chosen' = [chosen EXCEPT ![k] = l[i]]
            /\ Move(k, "brokerSet") /\ UNCHANGED relay
        \/ /\ \/ Installed /\ hits = {} /\ Exit(k, "notFound")
              \/ BrokerFails /\ Exit(k, "failed")
           /\ UNCHANGED chosen
  /\ UNCHANGED <<constants, world, command, done>>

\* A request with selector s: carried out by the service, answered or not (see
\* RemoteCall).
Replies(k, s) ==
  LET served == IF Installed THEN Commands(machine, verb[Who(k)], s, TRUE) ELSE {}
      lost == IF May("broker") THEN served ELSE {}
  IN {[machine |-> o.machine, word |-> Code(o.word), done |-> Fate(o.word)] : o \in served}
       \cup {[machine |-> o.machine, word |-> "failed", done |-> Fate(o.word)] : o \in lost}
       \cup (IF BrokerFails THEN {[machine |-> machine, word |-> "failed", done |-> done[Who(k)]]}
             ELSE {})
Request(k, r) == machine' = r.machine /\ done' = [done EXCEPT ![Who(k)] = r.done]

BrokerSetSelector(k) ==  \* mutant: sends the selector on instead of the key chosen
  /\ at[k] = "brokerSet"
  /\ \E r \in Replies(k, sel[Who(k)]) : Request(k, r) /\ Exit(k, r.word)
  /\ chosen' = [chosen EXCEPT ![k] = NoTarget]
  /\ UNCHANGED <<constants, authorized, command>>

BrokerSet(k) ==
  /\ at[k] = "brokerSet"
  /\ \E r \in Replies(k, KeyOf(chosen[k])) : Request(k, r) /\ Exit(k, r.word)
  /\ chosen' = [chosen EXCEPT ![k] = NoTarget]
  /\ UNCHANGED <<constants, authorized, command>>

BrokerCall(k) ==
  /\ at[k] = "brokerCall"
  /\ \E r \in Replies(k, NoSelector) : Request(k, r) /\ Exit(k, r.word)
  /\ UNCHANGED <<constants, authorized, command, chosen>>

-----------------------------------------------------------------------------
(* Processes that die.  A child survives its parent. *)

Kill(k) ==
  /\ May("kill") /\ at[k] # "idle"
  /\ Who(k) \in Users \/ k[2] > 0
  /\ Leave(k, IF k[2] = 0 THEN "left" ELSE "failed")
  /\ chosen' = [chosen EXCEPT ![k] = NoTarget]
  /\ UNCHANGED <<constants, world, command, relay, done>>

\* Nobody uses the doomed record any more: Windows deletes it.
Lasting == IF Doomed THEN authorized \ {"grant", "doomed"} ELSE authorized
Reap ==
  /\ Doomed
  /\ authorized' = Lasting
  /\ UNCHANGED <<constants, machine, command, at, elevated, result, relay, chosen, prompts, done>>

CopyStep(k) == \/ Dispatch(k) \/ Power(k) \/ Switch(k) \/ Escalate(k) \/ Authorize(k)
               \/ Collect(k) \/ Choose(k) \/ BrokerSet(k) \/ BrokerCall(k)

=============================================================================
