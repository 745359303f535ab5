----------------------------- MODULE GuiProofs -----------------------------
(***************************************************************************)
(* Theorems about the command line and the window (Cli, Gui), for any      *)
(* users, entries, objects, selectors, scenes and faults: whichever        *)
(* processes an errand takes, it keeps the promises of the module Errand.  *)
(***************************************************************************)
EXTENDS Gui, TLAPS

-----------------------------------------------------------------------------
(* What a step leaves alone *)

\* Nothing of caller b changes.
Untouched(b) ==
  /\ \A e \in Depths : /\ at'[<<b, e>>] = at[<<b, e>>]
                       /\ result'[<<b, e>>] = result[<<b, e>>]
                       /\ relay'[<<b, e>>] = relay[<<b, e>>]
  /\ verb'[b] = verb[b] /\ done'[b] = done[b] /\ prompts'[b] = prompts[b]
  /\ b = worker => /\ job' = job /\ last' = last
                    /\ elevated'[Child(Thread)] = elevated[Child(Thread)]

Only(c) == \A b \in Callers \ {c} : Untouched(b)

\* The command of c was carried out.
Doing(c) == \E f \in Fates : done' = [done EXCEPT ![c] = f]

LEMMA TheCallers ==
  /\ worker \in Callers /\ ui \in Callers /\ worker # ui
  /\ Users \subseteq Callers /\ worker \notin Users /\ ui \notin Users
  /\ \A c \in Callers : c \in Users \/ c = worker \/ c = ui
BY ThreadsAssumption

LEMMA TheCopies ==
  /\ Thread = <<worker, 0>> /\ Child(Thread) = <<worker, 1>>
  /\ Drawing = <<ui, 0>> /\ Child(Drawing) = <<ui, 1>>
  /\ 0 \in Depths /\ 1 \in Depths /\ 2 \in Depths
  /\ \A c \in Callers, d \in Depths : <<c, d>> \in Copies
BY DEF Thread, Drawing, Child, Depths, Copies

LEMMA Kept ==
  ASSUME NEW b \in Callers, Untouched(b)
  PROVE  /\ Told(b)' = Told(b) /\ Asks(b)' = Asks(b)
         /\ CallerInv(b) => CallerInv(b)'
<1>1. Told(b)' = Told(b)
  BY DEF Untouched, Told, First, Depths
<1>2. Asks(b)' = Asks(b)
  BY DEF Untouched, Asks
<1>3. ChainInv(b) => ChainInv(b)'
  BY DEF Untouched, ChainInv, Good, Depths
<1>4. DutyInv(b) => DutyInv(b)'
  BY <1>1 DEF Untouched, DutyInv, Good, Depths
<1>5. RouteInv(b) => RouteInv(b)'
  BY DEF Untouched, RouteInv, Depths
<1>6. PromptInv(b) => PromptInv(b)'
  BY DEF Untouched, PromptInv
<1> QED
  BY <1>1, <1>2, <1>3, <1>4, <1>5, <1>6 DEF CallerInv

-----------------------------------------------------------------------------
(* What a step does to the copies of one caller *)

Moved(c, d, p) ==
  /\ \A b \in Callers, e \in Depths :
       /\ at'[<<b, e>>] = IF b = c /\ e = d THEN p ELSE at[<<b, e>>]
       /\ result'[<<b, e>>] = result[<<b, e>>]
       /\ elevated'[<<b, e>>] = elevated[<<b, e>>]
  /\ prompts' = prompts

Left(c, d, w) ==
  /\ \A b \in Callers, e \in Depths :
       /\ at'[<<b, e>>] = IF b = c /\ e = d THEN "idle"
                          ELSE IF b = c /\ e + 1 = d /\ at[<<b, e>>] = "waiting"
                            THEN "collect" ELSE at[<<b, e>>]
       /\ result'[<<b, e>>] =
            IF b = c /\ e = d /\ (d = 0 \/ at[<<c, d - 1>>] = "waiting") THEN w
            ELSE IF b = c /\ e = d + 1 THEN "none" ELSE result[<<b, e>>]
       /\ elevated'[<<b, e>>] = IF b = c /\ e = d /\ (d > 0 \/ c \in Users)
                                  THEN FALSE ELSE elevated[<<b, e>>]
  /\ \A b \in Callers : prompts'[b] = IF b = c /\ d = 0 THEN 0 ELSE prompts[b]

Started(c, d, e0) ==
  /\ \A b \in Callers, e \in Depths :
       /\ at'[<<b, e>>] = IF b = c /\ e = d THEN "waiting"
                          ELSE IF b = c /\ e = d + 1 THEN "dispatch" ELSE at[<<b, e>>]
       /\ result'[<<b, e>>] = result[<<b, e>>]
       /\ elevated'[<<b, e>>] = IF b = c /\ e = d + 1 THEN e0 ELSE elevated[<<b, e>>]
  /\ prompts' = prompts

Prompted(c, d) ==
  /\ \A b \in Callers, e \in Depths :
       /\ at'[<<b, e>>] = IF b = c /\ e = d THEN "asking" ELSE at[<<b, e>>]
       /\ result'[<<b, e>>] = result[<<b, e>>]
       /\ elevated'[<<b, e>>] = elevated[<<b, e>>]
  /\ \A b \in Callers : prompts'[b] = IF b = c THEN prompts[b] + 1 ELSE prompts[b]

LEMMA MoveEffect ==
  ASSUME ControlOK, NEW c \in Callers, NEW d \in Depths, NEW p, Move(<<c, d>>, p)
  PROVE  Moved(c, d, p)
BY DEF ControlOK, Move, Copies, Moved

LEMMA LeaveEffect ==
  ASSUME ControlOK, NEW c \in Callers, NEW d \in Depths, NEW w, Leave(<<c, d>>, w)
  PROVE  Left(c, d, w)
<1> DEFINE waited == d > 0 /\ at[<<c, d - 1>>] = "waiting"
<1>1. /\ at' = [k \in Copies |-> IF k = <<c, d>> THEN "idle"
                                ELSE IF waited /\ k = <<c, d - 1>> THEN "collect" ELSE at[k]]
      /\ result' = [k \in Copies |-> IF k = <<c, d>> /\ (waited \/ d = 0) THEN w
                                    ELSE IF k = <<c, d + 1>> THEN "none" ELSE result[k]]
      /\ elevated' = IF d > 0 \/ c \in Users THEN [elevated EXCEPT ![<<c, d>>] = FALSE] ELSE elevated
      /\ prompts' = IF d = 0 THEN [prompts EXCEPT ![c] = 0] ELSE prompts
  BY DEF Leave, Who, Child, Parent
<1>2. \A b \in Callers, e \in Depths :
        /\ <<b, e>> = <<c, d>> <=> b = c /\ e = d
        /\ <<b, e>> = <<c, d - 1>> <=> b = c /\ e + 1 = d
        /\ <<b, e>> = <<c, d + 1>> <=> b = c /\ e = d + 1
        /\ e + 1 = d => d > 0
        /\ d # 0 <=> d > 0
        /\ <<b, e>> \in Copies
  BY DEF Depths, Copies
<1>3. \A b \in Callers, e \in Depths :
        /\ at'[<<b, e>>] = IF b = c /\ e = d THEN "idle"
                           ELSE IF b = c /\ e + 1 = d /\ at[<<b, e>>] = "waiting"
                             THEN "collect" ELSE at[<<b, e>>]
        /\ result'[<<b, e>>] =
             IF b = c /\ e = d /\ (d = 0 \/ at[<<c, d - 1>>] = "waiting") THEN w
             ELSE IF b = c /\ e = d + 1 THEN "none" ELSE result[<<b, e>>]
  BY <1>1, <1>2
<1>4. \A b \in Callers, e \in Depths :
        elevated'[<<b, e>>] = IF b = c /\ e = d /\ (d > 0 \/ c \in Users)
                                THEN FALSE ELSE elevated[<<b, e>>]
  BY <1>1, <1>2 DEF ControlOK
<1>5. \A b \in Callers : prompts'[b] = IF b = c /\ d = 0 THEN 0 ELSE prompts[b]
  BY <1>1 DEF ControlOK
<1> QED
  BY ONLY <1>3, <1>4, <1>5 DEF Left

LEMMA StartEffect ==
  ASSUME ControlOK, NEW c \in Callers, NEW d \in Depths, NEW e0, Start(<<c, d>>, e0)
  PROVE  Started(c, d, e0)
<1>1. /\ at' = [at EXCEPT ![<<c, d>>] = "waiting", ![<<c, d + 1>>] = "dispatch"]
      /\ elevated' = [elevated EXCEPT ![<<c, d + 1>>] = e0]
      /\ result' = result /\ prompts' = prompts
  BY DEF Start, Child
<1>2. \A b \in Callers, e \in Depths :
        /\ <<b, e>> = <<c, d>> <=> b = c /\ e = d
        /\ <<b, e>> = <<c, d + 1>> <=> b = c /\ e = d + 1
        /\ ~(e = d /\ e = d + 1)
        /\ <<b, e>> \in Copies
  BY DEF Depths, Copies
<1> QED
  BY <1>1, <1>2 DEF ControlOK, Started

LEMMA PromptEffect ==
  ASSUME ControlOK, NEW c \in Callers, NEW d \in Depths, Prompt(<<c, d>>)
  PROVE  Prompted(c, d)
BY DEF ControlOK, Prompt, Copies, Who, Prompted

-----------------------------------------------------------------------------
(* The invariant of a caller, move by move *)

\* The relay files that somebody still writes to stay.
RelaysStay(c, d) ==
  /\ \A b \in Callers \ {c}, e \in Depths : relay'[<<b, e>>] = relay[<<b, e>>]
  /\ \A e \in Depths : \/ relay'[<<c, e>>] = relay[<<c, e>>] \/ relay'[<<c, e>>] # "absent"
                       \/ e = d /\ at[<<c, d>>] = "collect"

\* What is left alone by every step of a process of c, but done and relay.
Background(c) ==
  /\ verb' = verb /\ job' = job /\ last' = last
  /\ \A b \in Callers \ {c} : done'[b] = done[b]

Plain(c) == verb[c] \notin Authorizing

\* A copy that leaves; k was not idle.
LEMMA LeaveKeeps ==
  ASSUME ControlOK, NEW c \in Callers, CallerInv(c), NEW d \in Depths, NEW w \in Words,
         Leave(<<c, d>>, w), at[<<c, d>>] # "idle",
         w # "none" \/ <<c, d>> = Thread, w # "left" \/ d = 0,
         Background(c), RelaysStay(c, d),
         done'[c] = done[c] \/ Acting(at[<<c, d>>]),
         w = "ok" => done'[c] = "ok" /\ \A e \in Depths : d < e => at[<<c, e>>] = "idle"
  PROVE  /\ Only(c) /\ CallerInv(c)'
         /\ d > 0 \/ c = worker => Told(c)' = Told(c)
         /\ d = 0 /\ c # worker => Told(c) = "waits" /\ Told(c)' = ToldOf(w)
<1>1. /\ \A b \in Callers, e \in Depths :
           /\ at'[<<b, e>>] = IF b = c /\ e = d THEN "idle"
                              ELSE IF b = c /\ e + 1 = d /\ at[<<b, e>>] = "waiting"
                                THEN "collect" ELSE at[<<b, e>>]
           /\ result'[<<b, e>>] =
                IF b = c /\ e = d /\ (d = 0 \/ at[<<c, d - 1>>] = "waiting") THEN w
                ELSE IF b = c /\ e = d + 1 THEN "none" ELSE result[<<b, e>>]
           /\ b # c => elevated'[<<b, e>>] = elevated[<<b, e>>]
      /\ \A b \in Callers : prompts'[b] = IF b = c /\ d = 0 THEN 0 ELSE prompts[b]
  <2>1. Left(c, d, w)
    BY LeaveEffect
  <2> QED  BY ONLY <2>1 DEF Left
<1>2. Only(c)
  BY <1>1, TheCallers, TheCopies DEF Only, Untouched, Background, RelaysStay, ControlOK
<1>3. ChainInv(c)'
  BY <1>1 DEF CallerInv, ChainInv, Good, Acting, Depths
<1>4. d > 0 \/ c = worker => Told(c)' = Told(c)
  BY <1>1 DEF Told, First, Background, Depths
<1>5. d = 0 /\ c # worker => Told(c) = "waits" /\ Told(c)' = ToldOf(w)
  BY <1>1 DEF Told, First, Depths
<1>6. DutyInv(c)'
  <2>1. ASSUME NEW e \in Depths, Pending(at'[<<c, e>>])
        PROVE  done'[c] = "no" /\ Told(c)' \in {"waits", "left", "error"}
    <3>1. e # d /\ at'[<<c, e>>] = at[<<c, e>>]
      BY <1>1, <2>1 DEF Pending, Acting
    <3>2. Pending(at[<<c, e>>]) /\ Acting(at[<<c, e>>])
      BY <2>1, <3>1 DEF Pending
    <3>3. e > d /\ ~Acting(at[<<c, d>>])
      BY <3>1, <3>2 DEF CallerInv, ChainInv, Depths, Acting
    <3>4. w # "ok" /\ done'[c] = done[c]
      BY <3>2, <3>3 DEF Acting
    <3>5. d = 0 /\ c # worker => ToldOf(w) \in {"waits", "left", "error"}
      BY <3>4 DEF ToldOf, Words, Thread
    <3> QED  BY <1>4, <1>5, <3>2, <3>4, <3>5 DEF CallerInv, DutyInv, Depths
  <2>2. ASSUME NEW e \in Depths, Good(c, e)'
        PROVE  done'[c] = "ok"
    <3>1. CASE e + 1 = d /\ at[<<c, e>>] = "waiting"
      BY <1>1, <2>2, <3>1 DEF Good, Depths
    <3>2. CASE ~(e + 1 = d /\ at[<<c, e>>] = "waiting")
      <4>1. at[<<c, e>>] = "collect" /\ e # d /\ e < 2
        BY <1>1, <2>2, <3>2 DEF Good
      <4>2. e + 1 # d
        BY <4>1 DEF CallerInv, ChainInv, Depths
      <4>3. result'[<<c, e + 1>>] = result[<<c, e + 1>>]
        BY <1>1, <4>1, <4>2 DEF Depths
      <4>4. Good(c, e)
        BY <2>2, <4>1, <4>3 DEF Good
      <4>5. ~Acting(at[<<c, d>>])
        BY <4>1, <4>4 DEF CallerInv, ChainInv, Depths, Acting
      <4> QED  BY <4>4, <4>5 DEF CallerInv, DutyInv
    <3> QED  BY <3>1, <3>2
  <2>3. ASSUME NEW e \in Depths, at'[<<c, e>>] \in {"read", "brokerRead"}
        PROVE  done'[c] # "failed"
    <3>1. e # d /\ at'[<<c, e>>] = at[<<c, e>>] /\ Acting(at[<<c, e>>])
      BY <1>1, <2>3 DEF Acting
    <3>2. ~Acting(at[<<c, d>>])
      BY <3>1 DEF CallerInv, ChainInv, Depths, Acting
    <3> QED  BY <2>3, <3>1, <3>2 DEF CallerInv, DutyInv
  <2> QED  BY <2>1, <2>2, <2>3 DEF DutyInv
<1>7. RouteInv(c)'
  BY <1>1 DEF CallerInv, RouteInv, ChainInv, RelaysStay, Background, Depths, JobPlaces
<1>8. PromptInv(c)'
  BY <1>1 DEF CallerInv, PromptInv, Background, Depths, Pending, Acting, ControlOK
<1> QED
  BY <1>2, <1>3, <1>4, <1>5, <1>6, <1>7, <1>8 DEF CallerInv

\* A copy that goes on to another place, with the command still to be carried out.
LEMMA MoveKeeps ==
  ASSUME ControlOK, NEW c \in Callers, CallerInv(c), NEW d \in Depths, NEW p,
         Move(<<c, d>>, p), Pending(at[<<c, d>>]), at[<<c, d>>] # "asking",
         Acting(p), p # "asking",
         p = "authorize" => ~Plain(c),
         p \in {"power", "choose", "brokerSet", "brokerCall", "escalate", "switch"} => Plain(c),
         p \in JobPlaces => <<c, d>> = Thread,
         Background(c), relay' = relay, done'[c] = done[c] \/ ~Pending(p),
         p \in {"read", "brokerRead"} => done'[c] # "failed"
  PROVE  Only(c) /\ CallerInv(c)' /\ Told(c)' = Told(c)
<1>1. /\ \A b \in Callers, e \in Depths :
           /\ at'[<<b, e>>] = IF b = c /\ e = d THEN p ELSE at[<<b, e>>]
           /\ result'[<<b, e>>] = result[<<b, e>>]
           /\ b # c => elevated'[<<b, e>>] = elevated[<<b, e>>]
      /\ prompts' = prompts
  <2>1. Moved(c, d, p)
    BY MoveEffect
  <2> QED  BY ONLY <2>1 DEF Moved
<1>2. Only(c)
  BY <1>1, TheCallers, TheCopies DEF Only, Untouched, Background
<1>3. ChainInv(c)'
  BY <1>1 DEF CallerInv, ChainInv, Good, Acting, Pending, Depths
<1>4. Told(c)' = Told(c)
  <2>1. CASE c = worker
    BY <2>1 DEF Told, Background
  <2>2. CASE c # worker
    <3>0. 0 \in Depths
      BY DEF Depths
    <3>1. at[<<c, 0>>] # "idle" <=> at'[<<c, 0>>] # "idle"
      BY <1>1, <3>0 DEF Pending, Acting
    <3>2. result'[<<c, 0>>] = result[<<c, 0>>]
      BY <1>1, <3>0
    <3> QED  BY <2>2, <3>1, <3>2 DEF Told, First
  <2> QED  BY <2>1, <2>2
<1>5. DutyInv(c)'
  BY <1>1, <1>4 DEF CallerInv, DutyInv, ChainInv, Good, Depths, Pending, Acting
<1>6. RouteInv(c)'
  BY <1>1 DEF CallerInv, RouteInv, Background, Depths, Plain, Pending, Acting
<1>7. PromptInv(c)'
  BY <1>1 DEF CallerInv, PromptInv, Background, Depths
<1> QED
  BY <1>4, <1>2, <1>3, <1>5, <1>6, <1>7 DEF CallerInv

\* A copy that runs the next one and waits for it.
LEMMA StartKeeps ==
  ASSUME ControlOK, NEW c \in Callers, CallerInv(c), NEW d \in Depths, NEW e0 \in BOOLEAN,
         Start(<<c, d>>, e0), Pending(at[<<c, d>>]), d < 2,
         Plain(c) => /\ relay'[<<c, d>>] # "absent" \/ <<c, d>> = Thread
                     /\ c # worker => d = 0,
         Background(c), RelaysStay(c, d), done' = done
  PROVE  Only(c) /\ CallerInv(c)' /\ Told(c)' = Told(c)
<1>1. /\ \A b \in Callers, e \in Depths :
           /\ at'[<<b, e>>] = IF b = c /\ e = d THEN "waiting"
                              ELSE IF b = c /\ e = d + 1 THEN "dispatch" ELSE at[<<b, e>>]
           /\ result'[<<b, e>>] = result[<<b, e>>]
           /\ b # c => elevated'[<<b, e>>] = elevated[<<b, e>>]
      /\ prompts' = prompts
  <2>1. Started(c, d, e0)
    BY StartEffect
  <2> QED  BY ONLY <2>1 DEF Started
<1>2. Only(c)
  BY <1>1, TheCallers, TheCopies DEF Only, Untouched, Background, RelaysStay
<1>3. \A e \in Depths : d < e => at[<<c, e>>] = "idle"
  BY DEF CallerInv, ChainInv, Pending
<1>4. ChainInv(c)'
  BY <1>1, <1>3 DEF CallerInv, ChainInv, Good, Acting, Depths, Pending
<1>5. Told(c)' = Told(c)
  <2>1. CASE c = worker
    BY <2>1 DEF Told, Background
  <2>2. CASE c # worker
    <3>0. 0 \in Depths /\ (d = 0 \/ d = 1)
      BY DEF Depths
    <3>1. at[<<c, 0>>] # "idle" <=> at'[<<c, 0>>] # "idle"
      BY <1>1, <3>0 DEF Pending, Acting
    <3>2. result'[<<c, 0>>] = result[<<c, 0>>]
      BY <1>1, <3>0
    <3> QED  BY <2>2, <3>1, <3>2 DEF Told, First
  <2> QED  BY <2>1, <2>2
<1>6. DutyInv(c)'
  BY <1>1, <1>3, <1>5 DEF CallerInv, DutyInv, Good, Depths, Pending, Acting
<1>7. RouteInv(c)'
  BY <1>1, <1>3 DEF CallerInv, RouteInv, RelaysStay, Background, Depths, Plain, JobPlaces,
                    Pending, Acting
<1>8. PromptInv(c)'
  BY <1>1, <1>3 DEF CallerInv, PromptInv, Background, Depths, Pending, Acting, ControlOK
<1> QED
  BY <1>5, <1>2, <1>4, <1>6, <1>7, <1>8 DEF CallerInv

\* A copy that shows a prompt.
LEMMA PromptKeeps ==
  ASSUME ControlOK, NEW c \in Callers, CallerInv(c), NEW d \in Depths,
         Prompt(<<c, d>>), Pending(at[<<c, d>>]), at[<<c, d>>] # "asking", d < 2,
         Plain(c) => /\ relay'[<<c, d>>] # "absent" \/ <<c, d>> = Thread
                     /\ c # worker => d = 0,
         Background(c), RelaysStay(c, d), done' = done
  PROVE  Only(c) /\ CallerInv(c)' /\ Told(c)' = Told(c)
<1>1. /\ \A b \in Callers, e \in Depths :
           /\ at'[<<b, e>>] = IF b = c /\ e = d THEN "asking" ELSE at[<<b, e>>]
           /\ result'[<<b, e>>] = result[<<b, e>>]
           /\ b # c => elevated'[<<b, e>>] = elevated[<<b, e>>]
      /\ \A b \in Callers : prompts'[b] = IF b = c THEN prompts[b] + 1 ELSE prompts[b]
  <2>1. Prompted(c, d)
    BY PromptEffect
  <2> QED  BY ONLY <2>1 DEF Prompted
<1>2. Only(c)
  BY <1>1, TheCallers, TheCopies DEF Only, Untouched, Background, RelaysStay
<1>3. \A e \in Depths : d < e => at[<<c, e>>] = "idle"
  BY DEF CallerInv, ChainInv, Pending
<1>4. ChainInv(c)'
  BY <1>1, <1>3 DEF CallerInv, ChainInv, Good, Acting, Depths, Pending
<1>5. Told(c)' = Told(c)
  <2>1. CASE c = worker
    BY <2>1 DEF Told, Background
  <2>2. CASE c # worker
    <3>0. 0 \in Depths /\ (d = 0 \/ d = 1)
      BY DEF Depths
    <3>1. at[<<c, 0>>] # "idle" <=> at'[<<c, 0>>] # "idle"
      BY <1>1, <3>0 DEF Pending, Acting
    <3>2. result'[<<c, 0>>] = result[<<c, 0>>]
      BY <1>1, <3>0
    <3> QED  BY <2>2, <3>1, <3>2 DEF Told, First
  <2> QED  BY <2>1, <2>2
<1>6. DutyInv(c)'
  BY <1>1, <1>3, <1>5 DEF CallerInv, DutyInv, Good, Depths, Pending, Acting
<1>7. RouteInv(c)'
  BY <1>1, <1>3 DEF CallerInv, RouteInv, RelaysStay, Background, Depths, Plain, JobPlaces,
                    Pending, Acting
<1>8. PromptInv(c)'
  <2>1. prompts[c] <= d /\ prompts[c] \in Nat
    BY DEF CallerInv, PromptInv, ControlOK
  <2>2. prompts'[c] <= d + 1 /\ prompts'[c] <= 2 /\ (Plain(c) /\ c # worker => prompts'[c] <= 1)
    BY <1>1, <2>1 DEF Depths
  <2>3. \A e \in Depths : Pending(at'[<<c, e>>]) => e = d
    BY <1>1, <1>3 DEF Pending, Acting, CallerInv, ChainInv, Depths
  <2> QED  BY <1>1, <2>2, <2>3 DEF PromptInv, Background, Plain
<1> QED
  BY <1>5, <1>2, <1>4, <1>6, <1>7, <1>8 DEF CallerInv

\* A prompt refused.
LEMMA RefuseKeeps ==
  ASSUME ControlOK, NEW c \in Callers, CallerInv(c), NEW d \in Depths,
         at[<<c, d>>] = "asking",
         at' = [at EXCEPT ![<<c, d>>] = "collect"],
         result' = [result EXCEPT ![<<c, d + 1>>] = "refused"],
         prompts' = prompts, elevated' = elevated, Background(c), relay' = relay, done' = done
  PROVE  Only(c) /\ CallerInv(c)' /\ Told(c)' = Told(c)
<1>1. \A b \in Callers, e \in Depths :
        /\ at'[<<b, e>>] = IF b = c /\ e = d THEN "collect" ELSE at[<<b, e>>]
        /\ result'[<<b, e>>] = IF b = c /\ e = d + 1 THEN "refused" ELSE result[<<b, e>>]
  BY DEF ControlOK, Copies, Depths
<1>2. Only(c)
  BY <1>1, TheCallers, TheCopies DEF Only, Untouched, Background
<1>3. (\A e \in Depths : d < e => at[<<c, e>>] = "idle") /\ d < 2 /\ Pending(at[<<c, d>>])
  BY DEF CallerInv, ChainInv, Acting, Pending, Depths
<1>4. ChainInv(c)'
  BY <1>1, <1>3 DEF CallerInv, ChainInv, Good, Acting, Depths, Pending
<1>5. Told(c)' = Told(c)
  <2>1. CASE c = worker
    BY <2>1 DEF Told, Background
  <2>2. CASE c # worker
    <3>0. 0 \in Depths /\ d + 1 # 0
      BY DEF Depths
    <3>1. at[<<c, 0>>] # "idle" <=> at'[<<c, 0>>] # "idle"
      BY <1>1, <3>0
    <3>2. result'[<<c, 0>>] = result[<<c, 0>>]
      BY <1>1, <3>0
    <3> QED  BY <2>2, <3>1, <3>2 DEF Told, First
  <2> QED  BY <2>1, <2>2
<1>6. DutyInv(c)'
  BY <1>1, <1>3, <1>5 DEF CallerInv, DutyInv, ChainInv, Good, Depths, Pending, Acting
<1>7. RouteInv(c)'
  BY <1>1, <1>3 DEF CallerInv, RouteInv, Background, Depths, JobPlaces, Pending, Acting
<1>8. PromptInv(c)'
  BY <1>1, <1>3 DEF CallerInv, PromptInv, Background, Depths, Pending, Acting
<1> QED
  BY <1>5, <1>2, <1>4, <1>6, <1>7, <1>8 DEF CallerInv

\* A new command, given to a caller none of whose copies is left.
LEMMA AskKeeps ==
  ASSUME ControlOK, NEW c \in Callers, ~Busy(c), NEW p \in {"dispatch", "perform", "authorize"},
         at' = [at EXCEPT ![<<c, 0>>] = p],
         result' = [result EXCEPT ![<<c, 0>>] = "none"] \/ result' = result,
         \A b \in Callers \ {c}, e \in Depths : relay'[<<b, e>>] = relay[<<b, e>>],
         \A b \in Callers \ {c} : verb'[b] = verb[b],
         prompts' = [prompts EXCEPT ![c] = 0], done' = [done EXCEPT ![c] = "no"],
         c # worker => job' = job /\ last' = last, c = worker => job' = TRUE,
         p = "perform" => c = worker,
         p = "authorize" => verb'[c] \in Authorizing,
         \A b \in Callers, e \in Depths : e > 0 => elevated'[<<b, e>>] = elevated[<<b, e>>]
  PROVE  Only(c) /\ CallerInv(c)' /\ Told(c)' = "waits"
<1>1. \A b \in Callers, e \in Depths :
        /\ at'[<<b, e>>] = IF b = c /\ e = 0 THEN p ELSE at[<<b, e>>]
        /\ b # c => result'[<<b, e>>] = result[<<b, e>>]
  BY DEF ControlOK, Copies, Depths
<1>2. \A e \in Depths : at[<<c, e>>] = "idle"
  BY DEF Busy
<1>3. Only(c)
  BY <1>1, TheCallers, TheCopies DEF Only, Untouched, ControlOK
<1>4. \A e \in Depths : at'[<<c, e>>] = IF e = 0 THEN p ELSE "idle"
  BY <1>1, <1>2
<1>5. ChainInv(c)'
  BY <1>4 DEF ChainInv, Good, Acting, Depths
<1>6. Told(c)' = "waits"
  <2>1. CASE c = worker
    BY <2>1 DEF Told
  <2>2. CASE c # worker
    <3>1. at'[<<c, 0>>] # "idle"
      BY <1>4 DEF Depths
    <3> QED  BY <2>2, <3>1 DEF Told, First
  <2> QED  BY <2>1, <2>2
<1>7. DutyInv(c)'
  BY <1>4, <1>6 DEF DutyInv, Good, Depths, ControlOK
<1>8. RouteInv(c)'
  BY <1>4 DEF RouteInv, Depths, JobPlaces, Thread
<1>9. PromptInv(c)'
  <2>1. prompts'[c] = 0
    BY DEF ControlOK
  <2> QED  BY <1>4, <2>1 DEF PromptInv, Depths
<1> QED
  BY <1>3, <1>5, <1>6, <1>7, <1>8, <1>9 DEF CallerInv

-----------------------------------------------------------------------------
(* The types, and what a process of the worker does to its thread *)

ProcsOK ==
  /\ at \in [Copies -> CliPlaces \cup JobPlaces]
  /\ elevated \in [Copies -> BOOLEAN]
  /\ result \in [Copies -> Words]
  /\ prompts \in [Callers -> Nat]

LEMMA MoveTypes ==
  ASSUME ProcsOK, NEW k \in Copies, NEW p \in CliPlaces \cup JobPlaces, Move(k, p)
  PROVE  ProcsOK'
BY DEF ProcsOK, Move

LEMMA LeaveTypes ==
  ASSUME ProcsOK, NEW k \in Copies, NEW w \in Words, Leave(k, w)
  PROVE  ProcsOK'
<1>1. Who(k) \in Callers
  BY DEF Who, Copies
<1>2. at' \in [Copies -> CliPlaces \cup JobPlaces]
  BY DEF ProcsOK, Leave, CliPlaces
<1>3. result' \in [Copies -> Words]
  BY DEF ProcsOK, Leave, Words
<1>4. elevated' \in [Copies -> BOOLEAN]
  BY DEF ProcsOK, Leave
<1>5. prompts' \in [Callers -> Nat]
  BY <1>1 DEF ProcsOK, Leave
<1> QED
  BY <1>2, <1>3, <1>4, <1>5 DEF ProcsOK

LEMMA StartTypes ==
  ASSUME ProcsOK, NEW k \in Copies, NEW e \in BOOLEAN, Start(k, e)
  PROVE  ProcsOK'
<1>1. [at EXCEPT ![k] = "waiting"] \in [Copies -> CliPlaces \cup JobPlaces]
  BY DEF ProcsOK, CliPlaces
<1>2. at' \in [Copies -> CliPlaces \cup JobPlaces]
  BY <1>1 DEF Start, CliPlaces
<1> QED
  BY <1>2 DEF ProcsOK, Start

LEMMA PromptTypes ==
  ASSUME ProcsOK, NEW k \in Copies, Prompt(k)
  PROVE  ProcsOK'
<1>1. Who(k) \in Callers
  BY DEF Who, Copies
<1> QED
  BY <1>1 DEF ProcsOK, Prompt, CliPlaces

\* The worker's thread stays or goes on, and the half that it runs asks in its
\* place only where it lacks privileges.
ThreadKept ==
  /\ \/ at'[Thread] = at[Thread]
     \/ /\ at[Thread] # "idle"
        /\ at'[Thread] \in JobPlaces \cup {"asking", "waiting", "collect"}
  /\ at'[Child(Thread)] = "escalate" \/ prompts'[worker] > 1 => ~elevated'[Child(Thread)]

LEMMA MoveThread ==
  ASSUME ControlOK, WorkerInv, NEW c \in Callers, NEW d \in Depths, NEW p,
         <<c, d>> # Thread, Move(<<c, d>>, p), p = "escalate" => ~elevated[<<c, d>>]
  PROVE  ThreadKept
<1>1. Moved(c, d, p)
  BY MoveEffect
<1> QED
  BY <1>1, TheCallers, TheCopies DEF Moved, ThreadKept, WorkerInv

LEMMA LeaveThread ==
  ASSUME ControlOK, WorkerInv, NEW c \in Callers, NEW d \in Depths, NEW w,
         <<c, d>> # Thread, Leave(<<c, d>>, w)
  PROVE  ThreadKept
<1>1. Left(c, d, w)
  BY LeaveEffect
<1>0. ~(worker = c /\ 0 = d)
  BY TheCopies
<1>2. at'[Thread] = at[Thread] \/ (at[Thread] = "waiting" /\ at'[Thread] = "collect")
  <2>1. at'[<<worker, 0>>] = IF worker = c /\ 0 = d THEN "idle"
                             ELSE IF worker = c /\ 0 + 1 = d /\ at[<<worker, 0>>] = "waiting"
                               THEN "collect" ELSE at[<<worker, 0>>]
    BY <1>1, TheCallers, TheCopies DEF Left
  <2> QED  BY <2>1, <1>0, TheCopies
<1>3. \/ at'[Child(Thread)] = at[Child(Thread)]
      \/ at'[Child(Thread)] \in {"idle", "collect"}
  <2>1. at'[<<worker, 1>>] = IF worker = c /\ 1 = d THEN "idle"
                             ELSE IF worker = c /\ 1 + 1 = d /\ at[<<worker, 1>>] = "waiting"
                               THEN "collect" ELSE at[<<worker, 1>>]
    BY <1>1, TheCallers, TheCopies DEF Left
  <2> QED  BY <2>1, TheCopies
<1>4. /\ elevated'[<<worker, 1>>] = FALSE \/ elevated'[<<worker, 1>>] = elevated[<<worker, 1>>]
      /\ prompts'[worker] = 0 \/ prompts'[worker] = prompts[worker]
  <2>1. elevated'[<<worker, 1>>] = IF worker = c /\ 1 = d /\ (d > 0 \/ c \in Users)
                                     THEN FALSE ELSE elevated[<<worker, 1>>]
    BY <1>1, TheCallers, TheCopies DEF Left
  <2>2. prompts'[worker] = IF worker = c /\ d = 0 THEN 0 ELSE prompts[worker]
    BY <1>1, TheCallers DEF Left
  <2> QED  BY <2>1, <2>2
<1> QED
  BY <1>2, <1>3, <1>4, TheCopies DEF ThreadKept, WorkerInv

LEMMA StartThread ==
  ASSUME ControlOK, WorkerInv, NEW c \in Callers, NEW d \in Depths, NEW e0,
         <<c, d>> # Thread, Start(<<c, d>>, e0)
  PROVE  ThreadKept
<1>1. Started(c, d, e0)
  BY StartEffect
<1>2. ~(worker = c /\ 0 = d)
  BY TheCopies
<1>3. /\ at'[<<worker, 0>>] = at[<<worker, 0>>]
      /\ at'[<<worker, 1>>] # "escalate" \/ at'[<<worker, 1>>] = at[<<worker, 1>>]
      /\ elevated'[<<worker, 1>>] = elevated[<<worker, 1>>]
  <2>1. /\ at'[<<worker, 0>>] = IF worker = c /\ 0 = d THEN "waiting"
                                ELSE IF worker = c /\ 0 = d + 1 THEN "dispatch" ELSE at[<<worker, 0>>]
        /\ at'[<<worker, 1>>] = IF worker = c /\ 1 = d THEN "waiting"
                                ELSE IF worker = c /\ 1 = d + 1 THEN "dispatch" ELSE at[<<worker, 1>>]
        /\ elevated'[<<worker, 1>>] = IF worker = c /\ 1 = d + 1 THEN e0 ELSE elevated[<<worker, 1>>]
    BY <1>1, TheCallers, TheCopies DEF Started
  <2>2. 0 # d + 1 /\ (1 = d + 1 => 0 = d)
    BY DEF Depths
  <2> QED  BY <1>2, <2>1, <2>2
<1> QED
  BY <1>1, <1>3, TheCopies DEF Started, ThreadKept, WorkerInv

LEMMA PromptThread ==
  ASSUME ControlOK, WorkerInv, NEW c \in Callers, NEW d \in Depths,
         <<c, d>> # Thread, Prompt(<<c, d>>), 
         <<c, d>> = Child(Thread) => ~elevated[<<c, d>>],
         c = worker => d < 2
  PROVE  ThreadKept
<1>1. Prompted(c, d)
  BY PromptEffect
<1>2. /\ ~(worker = c /\ 0 = d)
      /\ c = worker /\ d = 1 => ~elevated[<<worker, 1>>]
  BY TheCopies
<1>3. /\ at'[<<worker, 0>>] = at[<<worker, 0>>]
      /\ at'[<<worker, 1>>] # "escalate" \/ at'[<<worker, 1>>] = at[<<worker, 1>>]
      /\ elevated'[<<worker, 1>>] = elevated[<<worker, 1>>]
  BY <1>1, <1>2, TheCallers, TheCopies DEF Prompted, Depths
<1>4. prompts'[worker] > 1 => ~elevated[<<worker, 1>>]
  <2>1. c = worker => d = 1
    BY <1>2 DEF Depths
  <2> QED  BY <1>1, <1>2, <2>1, TheCallers, TheCopies DEF Prompted, WorkerInv
<1> QED
  BY <1>3, <1>4, TheCopies DEF ThreadKept, WorkerInv

-----------------------------------------------------------------------------
(* Steps of Errand *)

ErrandStep == [E!Next]_(E!vars)

LEMMA OthersToo ==
  ASSUME NEW c \in Callers, Only(c)
  PROVE  /\ \A b \in Callers \ {c} : Told(b)' = Told(b) /\ Asks(b)' = Asks(b)
         /\ \A b \in Callers \ {c} : done'[b] = done[b]
BY Kept DEF Only, Untouched

LEMMA WorldLasts == world' = world => machine' = machine /\ Lasting' = Lasting
BY DEF world, Lasting, Doomed

\* A step that gives c a command.
LEMMA IsAsk ==
  ASSUME NEW c \in Callers, Only(c), Told(c) # "waits", Told(c)' = "waits",
         done \in [Callers -> {"no"} \cup Fates], done' = [done EXCEPT ![c] = "no"], world' = world
  PROVE  ErrandStep
<1>1. [b \in Callers |-> Told(b)'] = [[b \in Callers |-> Told(b)] EXCEPT ![c] = "waits"]
  BY OthersToo
<1>2. [b \in Callers |-> Asks(b)'] = [[b \in Callers |-> Asks(b)] EXCEPT ![c] = Asks(c)']
  BY OthersToo
<1>3. Asks(c)' \in {"reading", "writing"}
  BY DEF Asks
<1>4. E!Ask(c)
  BY <1>1, <1>2, <1>3, WorldLasts DEF E!Ask, E!Kinds
<1> QED
  BY <1>4 DEF ErrandStep, E!Next

\* A step that carries out the command of c, tells its answer, or does both or
\* nothing.
LEMMA IsErrand ==
  ASSUME NEW c \in Callers, Only(c), Asks(c)' = Asks(c),
         done \in [Callers -> {"no"} \cup Fates],
         \/ Told(c)' = Told(c)
         \/ Told(c) = "waits" /\ (Told(c)' = "error" \/ (Told(c)' = "ok" /\ done'[c] = "ok")),
         \/ done' = done /\ world' = world
         \/ /\ Doing(c) /\ done[c] = "no"
            /\ Told(c) \in {"waits", "left", "error"}
            /\ Asks(c) = "reading" => world' = world
  PROVE  ErrandStep
<1> DEFINE asked == [b \in Callers |-> Asks(b)]
           told == [b \in Callers |-> Told(b)]
<1>1. asked' = asked
  BY OthersToo
<1>2. told' = [told EXCEPT ![c] = Told(c)'] /\ told[c] = Told(c) /\ asked[c] = Asks(c)
  BY OthersToo
<1>3. CASE Told(c)' = Told(c)
  <2>1. told' = told
    BY <1>2, <1>3
  <2>2. CASE done' = done /\ world' = world
    BY <1>1, <2>1, <2>2, WorldLasts DEF ErrandStep, E!vars
  <2>3. CASE ~(done' = done /\ world' = world)
    <3>1. E!Do(c)
      BY <1>1, <1>2, <2>3, WorldLasts DEF E!Do, Doing, Fates
    <3> QED  BY <2>1, <3>1 DEF ErrandStep, E!Next, E!DoAndTell
  <2> QED  BY <2>2, <2>3
<1>4. CASE Told(c) = "waits" /\ (Told(c)' = "error" \/ (Told(c)' = "ok" /\ done'[c] = "ok"))
  <2>1. E!Tell(c)
    BY <1>2, <1>4 DEF E!Tell
  <2>2. CASE done' = done /\ world' = world
    <3>1. E!JustTell(c)
      BY <1>1, <2>1, <2>2, WorldLasts DEF E!JustTell
    <3> QED  BY <3>1 DEF ErrandStep, E!Next
  <2>3. CASE ~(done' = done /\ world' = world)
    <3>1. E!Do(c)
      BY <1>1, <1>2, <2>3, WorldLasts DEF E!Do, Doing, Fates
    <3> QED  BY <2>1, <3>1 DEF ErrandStep, E!Next, E!DoAndTell
  <2> QED  BY <2>2, <2>3
<1> QED
  BY <1>3, <1>4

\* A step by which c leaves.
LEMMA IsLeave ==
  ASSUME NEW c \in Callers, Only(c), Told(c) = "waits", Told(c)' = "left",
         Asks(c)' = Asks(c), done' = done, world' = world
  PROVE  ErrandStep
<1> DEFINE told == [b \in Callers |-> Told(b)]
<1>1. [b \in Callers |-> Asks(b)]' = [b \in Callers |-> Asks(b)]
  BY OthersToo
<1>2. told' = [b \in Callers |-> IF b \in {c} THEN "left" ELSE told[b]] /\ told[c] = "waits"
  BY OthersToo
<1>3. E!Leave({c})
  BY <1>1, <1>2, WorldLasts DEF E!Leave
<1> QED
  BY <1>3 DEF ErrandStep, E!Next

-----------------------------------------------------------------------------
(* What a step of a process promises *)

RelayFiles == [Copies -> {"absent", "empty"} \cup Words]
StepKeeps(c) == Only(c) /\ CallerInv(c)' /\ ProcsOK' /\ ThreadKept /\ relay' \in RelayFiles

\* What a process that leaves tells.
Tells(c, d, w) ==
  /\ d > 0 \/ c = worker => Told(c)' = Told(c)
  /\ d = 0 /\ c # worker => Told(c) = "waits" /\ Told(c)' = ToldOf(w)

Ends == {"ok"} \cup Errors

LEMMA Parts ==
  ASSUME GuiInv
  PROVE  /\ ControlOK /\ WorkerInv /\ ProcsOK /\ relay \in RelayFiles
         /\ done \in [Callers -> {"no"} \cup Fates] /\ verb \in [Callers -> AllVerbs]
         /\ \A c \in Callers : CallerInv(c)
BY DEF GuiInv, ControlOK, ProcsOK, RelayFiles

LEMMA EmitRelays ==
  ASSUME NEW c \in Callers, NEW d \in Depths, NEW w \in Words, NEW files \in RelayFiles,
         Emit(<<c, d>>, w, files)
  PROVE  /\ relay' \in RelayFiles
         /\ \A b \in Callers, e \in Depths : relay'[<<b, e>>] = files[<<b, e>>]
                                             \/ (b = c /\ relay'[<<b, e>>] = w)
<1>1. CASE relay' = files
  BY <1>1
<1>2. CASE relay' = [files EXCEPT ![<<c, d - 1>>] = w]
  BY <1>2 DEF RelayFiles, Copies
<1> QED
  BY <1>1, <1>2 DEF Emit, Parent

LEMMA NeverAbsent == "absent" \notin Words /\ "none" \in Words /\ Ends \subseteq Words
BY DEF Words, Errors, Ends

\* A copy that does something and exits.
LEMMA ExitKeeps ==
  ASSUME GuiInv, NEW c \in Callers, NEW d \in Depths, <<c, d>> # Thread, NEW w \in Ends,
         Exit(<<c, d>>, w), Acting(at[<<c, d>>]), Background(c),
         done' = done \/ Doing(c), w = "ok" => done'[c] = "ok"
  PROVE  StepKeeps(c) /\ Tells(c, d, w)
<1>1. w \in Words /\ w # "none" /\ w # "left" /\ <<c, d>> \in Copies
  BY NeverAbsent, TheCopies DEF Ends, Errors
<1>2. Leave(<<c, d>>, w) /\ Emit(<<c, d>>, w, relay)
  BY DEF Exit
<1>3. relay' \in RelayFiles /\ RelaysStay(c, d)
  BY <1>1, <1>2, Parts, EmitRelays, NeverAbsent DEF RelaysStay
<1>5. \A e \in Depths : d < e => at[<<c, e>>] = "idle"
  BY Parts DEF CallerInv, ChainInv
<1>6. Only(c) /\ CallerInv(c)' /\ Tells(c, d, w)
  BY <1>1, <1>2, <1>3, <1>5, Parts, LeaveKeeps DEF Tells, Acting
<1>7. ProcsOK' /\ ThreadKept
  BY <1>1, <1>2, Parts, LeaveTypes, LeaveThread
<1> QED
  BY <1>3, <1>6, <1>7 DEF StepKeeps

\* A process that exits keeps the errand's promises.
LEMMA ExitIsErrand ==
  ASSUME GuiInv, NEW c \in Callers, NEW d \in Depths, NEW w \in Ends,
         Only(c), Tells(c, d, w), Background(c), Pending(at[<<c, d>>]),
         w = "ok" => done'[c] = "ok",
         \/ done' = done /\ world' = world
         \/ Doing(c) /\ (Asks(c) = "reading" => world' = world)
  PROVE  ErrandStep
<1>1. done[c] = "no" /\ Told(c) \in {"waits", "left", "error"}
  BY Parts DEF CallerInv, DutyInv
<1>2. Asks(c)' = Asks(c)
  BY DEF Asks, Background
<1>3. ToldOf(w) = IF w = "ok" THEN "ok" ELSE "error"
  BY DEF ToldOf, Ends, Errors
<1>4. \/ Told(c)' = Told(c)
      \/ Told(c) = "waits" /\ (Told(c)' = "error" \/ (Told(c)' = "ok" /\ done'[c] = "ok"))
  BY <1>3 DEF Tells, Depths
<1> QED
  BY <1>1, <1>2, <1>4, Parts, IsErrand

LEMMA StepInvariant ==
  ASSUME GuiInv, NEW c \in Callers, StepKeeps(c), Background(c),
         UNCHANGED <<constants, drawn, sent, last>>,
         authorized' \subseteq {"binary", "grant", "doomed"}, disturbed' \in BOOLEAN,
         done' = done \/ (Doing(c) /\ done[c] = "no")
  PROVE  GuiInv'
<1>1. /\ done' \in [Callers -> {"no"} \cup Fates]
      /\ done[worker] = "ok" => done'[worker] = "ok"
  BY Parts, TheCallers DEF Doing
<1>2. ControlOK'
  BY <1>1 DEF StepKeeps, GuiInv, ControlOK, ProcsOK, RelayFiles, Background, constants, drawn
<1>3. WorkerInv'
  <2>1. verb' = verb /\ job' = job /\ last' = last /\ sent' = sent
    BY DEF Background
  <2>2. at'[Thread] \in JobPlaces \cup {"idle", "asking", "waiting", "collect"}
        /\ (at'[Thread] = "idle" <=> at[Thread] = "idle")
    BY Parts DEF StepKeeps, ThreadKept, WorkerInv, JobPlaces
  <2> QED  BY <1>1, <2>1, <2>2, Parts DEF StepKeeps, ThreadKept, WorkerInv
<1>4. \A b \in Callers : CallerInv(b)'
  BY Parts, Kept DEF StepKeeps, Only
<1> QED
  BY <1>2, <1>3, <1>4 DEF GuiInv

-----------------------------------------------------------------------------
(* The steps of the command line *)

\* The ways to end a command that selects t.
Ways(m, v, t) == {Outcome(Selecting(m, v, t), "ok")} \cup Panics(Selecting(m, v, t))
                   \cup Failures(m, Firmware(m, v, t))

\* What a command may end with; only a selection or a clearing changes the machine.
LEMMA CommandsEnd ==
  ASSUME NEW m, NEW v, NEW s, NEW e, NEW o \in Commands(m, v, s, e)
  PROVE  /\ o.word \in {"ok", "panic", "failed", "notFound"}
         /\ v \notin {"default", "next", "clear"} => o.machine = m
<1>1. CASE v \in {"default", "next"}
  <2> DEFINE hits == UNION {{l[i] : i \in {i \in DOMAIN l : Finds(s, l, i)}} : l \in {Listing(m, e)}}
  <2>1. Commands(m, v, s, e) = IF hits = {} THEN {Outcome(m, "notFound")}
                               ELSE UNION {Ways(m, v, t) : t \in hits}
    BY <1>1 DEF Commands, Ways
  <2> HIDE DEF hits
  <2>2. CASE hits = {}
    BY <1>1, <2>1, <2>2 DEF Outcome
  <2>3. CASE hits # {}
    <3>1. o \in UNION {Ways(m, v, t) : t \in hits}
      BY <2>1, <2>3
    <3>2. PICK t \in hits : o \in Ways(m, v, t)
      BY <3>1, Zenon
    <3>3. o.word \in {"ok", "panic", "failed"}
      BY <3>2 DEF Ways, Panics, Failures, Outcome
    <3> QED  BY <1>1, <3>3
  <2> QED  BY <2>2, <2>3
<1>2. CASE v = "clear"
  <2>1. o \in {Outcome(Clearing(m, e), "ok")} \cup Failures(m, [m EXCEPT !.next = None])
    BY <1>2 DEF Commands
  <2> QED  BY <1>2, <2>1 DEF Failures, Outcome
<1>3. CASE v \notin {"default", "next", "clear"}
  <2>1. o \in {Outcome(m, "ok")}
    BY <1>3 DEF Commands
  <2> QED  BY <2>1 DEF Outcome
<1> QED
  BY <1>1, <1>2, <1>3

LEMMA RepliesEnd ==
  ASSUME NEW k \in Copies, NEW s, NEW r \in Replies(k, s)
  PROVE  /\ r.word \in {"ok", "failed", "notFound"}
         /\ r.done \in Fates \/ (r.done = done[Who(k)] /\ r.machine = machine)
         /\ r.word = "ok" => r.done = "ok"
         /\ verb[Who(k)] \notin {"default", "next", "clear"} => r.machine = machine
<1> DEFINE served == IF Installed THEN Commands(machine, verb[Who(k)], s, TRUE) ELSE {}
           lost == IF May("broker") THEN served ELSE {}
<1>1. \/ \E o \in served : r = [machine |-> o.machine, word |-> Code(o.word), done |-> Fate(o.word)]
      \/ \E o \in lost : r = [machine |-> o.machine, word |-> "failed", done |-> Fate(o.word)]
      \/ r = [machine |-> machine, word |-> "failed", done |-> done[Who(k)]]
  BY DEF Replies
<1>2. \A o \in served : /\ o.word \in {"ok", "panic", "failed", "notFound"}
                        /\ verb[Who(k)] \notin {"default", "next", "clear"} => o.machine = machine
  <2> SUFFICES ASSUME NEW o \in Commands(machine, verb[Who(k)], s, TRUE)
               PROVE  /\ o.word \in {"ok", "panic", "failed", "notFound"}
                      /\ verb[Who(k)] \notin {"default", "next", "clear"} => o.machine = machine
    OBVIOUS
  <2>1. \A e : \A q \in Commands(machine, verb[Who(k)], s, e) :
          /\ q.word \in {"ok", "panic", "failed", "notFound"}
          /\ verb[Who(k)] \notin {"default", "next", "clear"} => q.machine = machine
    BY CommandsEnd
  <2> QED  BY <2>1
<1>3. \A o \in served : /\ Code(o.word) \in {"ok", "failed", "notFound"}
                        /\ Code(o.word) = "ok" => Fate(o.word) = "ok"
                        /\ Fate(o.word) \in Fates
  BY <1>2 DEF Code, Fate, Fates
<1>4. \A o \in lost : o \in served
  OBVIOUS
<1> HIDE DEF served, lost
<1> QED
  BY <1>1, <1>2, <1>3, <1>4

\* Whoever asks for a change of the boot configuration is not only reading.
LEMMA ReadingKeeps ==
  ASSUME NEW c \in Callers, Asks(c) = "reading"
  PROVE  verb[c] \notin {"default", "next", "clear"} \cup Authorizing
BY DEF Asks, Authorizing

LEMMA Steady ==
  ASSUME GuiInv, NEW c \in Callers, NEW d \in Depths, Elsewhere(<<c, d>>),
         UNCHANGED <<constants, command>>, done' = done \/ Doing(c)
  PROVE  Background(c) /\ disturbed' \in BOOLEAN
BY Parts DEF Elsewhere, Background, Doing, Disturbs, GuiInv, ControlOK, drawn, command

LEMMA DidIsDoing ==
  ASSUME GuiInv, NEW c \in Callers, NEW w, Did(c, w)
  PROVE  Doing(c) /\ (w = "ok" => done'[c] = "ok")
BY Parts DEF Did, Doing, Fate, Fates

LEMMA DispatchStep ==
  ASSUME GuiInv, NEW c \in Callers, NEW d \in Depths, <<c, d>> # Thread,
         Dispatch(<<c, d>>), Elsewhere(<<c, d>>)
  PROVE  GuiInv' /\ ErrandStep
<1> DEFINE k == <<c, d>>
           p == Route(k)
<1>1. /\ at[k] = "dispatch" /\ Move(k, p) /\ relay' = relay /\ done' = done
      /\ UNCHANGED <<constants, world, command>> /\ Who(k) = c
  BY DEF Dispatch, Who
<1>2. Background(c) /\ disturbed' \in BOOLEAN
  BY <1>1, Steady
<1>3. /\ p \in {"power", "authorize", "choose", "brokerCall", "escalate", "switch"}
      /\ p = "authorize" <=> ~Plain(c)
      /\ p = "escalate" => ~elevated[k]
  <2>1. CASE verb[c] = "power"
    BY <1>1, <2>1 DEF Route, Plain, Authorizing
  <2>2. CASE verb[c] \in Authorizing
    BY <1>1, <2>2 DEF Route, Plain, Authorizing
  <2>3. CASE verb[c] \notin Authorizing \cup {"power"}
    <3>1. \/ p \in {"choose", "brokerCall", "switch"}
          \/ p = "escalate" /\ ~elevated[k]
      BY <1>1, <2>3 DEF Route, Authorizing
    <3> QED  BY <2>3, <3>1 DEF Plain
  <2> QED  BY <2>1, <2>2, <2>3
<1> HIDE DEF p
<1>4. /\ Pending(at[k]) /\ at[k] # "asking" /\ Acting(p) /\ p # "asking"
      /\ p \notin JobPlaces /\ p \in CliPlaces
  BY <1>1, <1>3 DEF Pending, Acting, JobPlaces, CliPlaces
<1>5. Only(c) /\ CallerInv(c)' /\ Told(c)' = Told(c)
  BY <1>1, <1>2, <1>3, <1>4, Parts, MoveKeeps
<1>6. ProcsOK' /\ ThreadKept
  BY <1>1, <1>3, <1>4, Parts, TheCopies, MoveTypes, MoveThread
<1>7. StepKeeps(c)
  BY <1>1, <1>5, <1>6, Parts DEF StepKeeps
<1>8. GuiInv'
  BY <1>1, <1>2, <1>7, StepInvariant DEF Elsewhere, world, GuiInv, ControlOK
<1>9. Asks(c)' = Asks(c)
  BY <1>2 DEF Background, Asks
<1>10. ErrandStep
  BY <1>1, <1>5, <1>9, Parts, IsErrand
<1> QED  BY <1>8, <1>10

\* A step that acts and exits, with everything in one place.
LEMMA ExitStep ==
  ASSUME GuiInv, NEW c \in Callers, NEW d \in Depths, <<c, d>> # Thread, NEW w \in Ends,
         Exit(<<c, d>>, w), Pending(at[<<c, d>>]), Elsewhere(<<c, d>>),
         UNCHANGED <<constants, command>>, authorized' \subseteq {"binary", "grant", "doomed"},
         w = "ok" => done'[c] = "ok",
         \/ done' = done /\ world' = world
         \/ Doing(c) /\ (Asks(c) = "reading" => world' = world)
  PROVE  GuiInv' /\ ErrandStep
<1>1. Background(c) /\ disturbed' \in BOOLEAN
  BY Steady
<1>2. done[c] = "no"
  BY Parts DEF CallerInv, DutyInv
<1>3. StepKeeps(c) /\ Tells(c, d, w)
  BY <1>1, ExitKeeps DEF Pending
<1>4. GuiInv'
  BY <1>1, <1>2, <1>3, StepInvariant DEF Elsewhere
<1>5. ErrandStep
  BY <1>1, <1>3, ExitIsErrand DEF StepKeeps
<1> QED  BY <1>4, <1>5

LEMMA PowerStep ==
  ASSUME GuiInv, NEW c \in Callers, NEW d \in Depths, <<c, d>> # Thread,
         Power(<<c, d>>), Elsewhere(<<c, d>>)
  PROVE  GuiInv' /\ ErrandStep
<1>1. PICK w \in {"ok", "failed"} : Exit(<<c, d>>, w) /\ Did(c, w)
  BY DEF Power, Who
<1>2. /\ w \in Ends /\ Pending(at[<<c, d>>]) /\ world' = world
      /\ UNCHANGED <<constants, command>> /\ authorized' = authorized
  BY DEF Power, Ends, Errors, Pending, Acting, world
<1>3. Doing(c) /\ (w = "ok" => done'[c] = "ok")
  BY <1>1, DidIsDoing
<1> QED
  BY <1>1, <1>2, <1>3, ExitStep DEF GuiInv, ControlOK

LEMMA SwitchStep ==
  ASSUME GuiInv, NEW c \in Callers, NEW d \in Depths, <<c, d>> # Thread,
         Switch(<<c, d>>), Elsewhere(<<c, d>>)
  PROVE  GuiInv' /\ ErrandStep
<1>1. PICK o \in Commands(machine, verb[c], sel[c], elevated[<<c, d>>]) :
        machine' = o.machine /\ Exit(<<c, d>>, Code(o.word)) /\ Did(c, o.word)
  BY DEF Switch, Who
<1>2. /\ Code(o.word) \in Ends /\ (Code(o.word) = "ok" => o.word = "ok")
      /\ verb[c] \notin {"default", "next", "clear"} => o.machine = machine
  BY CommandsEnd DEF Code, Ends, Errors
<1>3. /\ Pending(at[<<c, d>>]) /\ authorized' = authorized /\ UNCHANGED <<constants, command>>
      /\ Doing(c) /\ (o.word = "ok" => done'[c] = "ok")
  BY <1>1, DidIsDoing DEF Switch, Pending, Acting
<1>4. Asks(c) = "reading" => world' = world
  BY <1>1, <1>2, <1>3, ReadingKeeps DEF world
<1> QED
  BY <1>1, <1>2, <1>3, <1>4, ExitStep DEF GuiInv, ControlOK

LEMMA BrokerStep ==
  ASSUME GuiInv, NEW c \in Callers, NEW d \in Depths, <<c, d>> # Thread,
         BrokerSet(<<c, d>>) \/ BrokerCall(<<c, d>>), Elsewhere(<<c, d>>)
  PROVE  GuiInv' /\ ErrandStep
<1>1. PICK s : \E r \in Replies(<<c, d>>, s) : Request(<<c, d>>, r) /\ Exit(<<c, d>>, r.word)
  BY DEF BrokerSet, BrokerCall
<1>2. PICK r \in Replies(<<c, d>>, s) : Request(<<c, d>>, r) /\ Exit(<<c, d>>, r.word)
  BY <1>1
<1>3. /\ Who(<<c, d>>) = c /\ <<c, d>> \in Copies
      /\ Pending(at[<<c, d>>]) /\ authorized' = authorized /\ UNCHANGED <<constants, command>>
  BY TheCopies DEF BrokerSet, BrokerCall, Pending, Acting, Who
<1>4. /\ r.word \in {"ok", "failed", "notFound"}
      /\ r.done \in Fates \/ (r.done = done[c] /\ r.machine = machine)
      /\ r.word = "ok" => r.done = "ok"
      /\ verb[c] \notin {"default", "next", "clear"} => r.machine = machine
  BY <1>3, RepliesEnd
<1>5. r.word \in Ends
  BY <1>4 DEF Ends, Errors
<1>6. machine' = r.machine /\ done' = [done EXCEPT ![c] = r.done]
  BY <1>2, <1>3 DEF Request
<1>7. \/ done' = done /\ world' = world
      \/ Doing(c) /\ (Asks(c) = "reading" => world' = world)
  <2>1. CASE r.done \in Fates
    <3>1. Asks(c) = "reading" => world' = world
      BY <1>3, <1>4, <1>6, ReadingKeeps DEF world
    <3> QED  BY <1>6, <2>1, <3>1 DEF Doing
  <2>2. CASE r.done = done[c] /\ r.machine = machine
    BY <1>3, <1>6, <2>2, Parts DEF world
  <2> QED  BY <1>4, <2>1, <2>2
<1>8. r.word = "ok" => done'[c] = "ok"
  BY <1>4, <1>6, Parts
<1> QED
  BY <1>2, <1>3, <1>5, <1>7, <1>8, ExitStep DEF GuiInv, ControlOK

\* A step that runs the next copy, at once or behind a prompt.
LEMMA ElevateStep ==
  ASSUME GuiInv, NEW c \in Callers, NEW d \in Depths, <<c, d>> # Thread, NEW free \in BOOLEAN,
         Elevate(<<c, d>>, free), at[<<c, d>>] \in {"escalate", "authorize"}, d < 2,
         <<c, d>> = Child(Thread) => ~elevated[<<c, d>>], Elsewhere(<<c, d>>),
         UNCHANGED <<constants, world, command>>, done' = done,
         relay' \in RelayFiles, RelaysStay(c, d),
         Plain(c) => relay'[<<c, d>>] # "absent" /\ (c # worker => d = 0)
  PROVE  GuiInv' /\ ErrandStep
<1>1. Background(c) /\ disturbed' \in BOOLEAN
  BY Steady
<1>2. Pending(at[<<c, d>>]) /\ at[<<c, d>>] # "asking" /\ <<c, d>> \in Copies
  BY TheCopies DEF Pending, Acting
<1>3. Only(c) /\ CallerInv(c)' /\ Told(c)' = Told(c) /\ ProcsOK' /\ ThreadKept
  <2>1. CASE free
    <3>1. \E e \in BOOLEAN : Start(<<c, d>>, e)
      BY <2>1 DEF Elevate
    <3>2. PICK e \in BOOLEAN : Start(<<c, d>>, e)
      BY <3>1
    <3>3. Only(c) /\ CallerInv(c)' /\ Told(c)' = Told(c)
      BY <1>1, <1>2, <3>2, Parts, StartKeeps
    <3> QED  BY <1>2, <3>2, <3>3, Parts, StartTypes, StartThread
  <2>2. CASE ~free
    <3>1. Prompt(<<c, d>>)
      BY <2>2 DEF Elevate
    <3>2. Only(c) /\ CallerInv(c)' /\ Told(c)' = Told(c)
      BY <1>1, <1>2, <3>1, Parts, PromptKeeps
    <3> QED  BY <1>2, <3>1, <3>2, Parts, PromptTypes, PromptThread
  <2> QED  BY <2>1, <2>2
<1>4. GuiInv'
  BY <1>1, <1>3, StepInvariant DEF StepKeeps, Elsewhere, world, GuiInv, ControlOK
<1>5. Asks(c)' = Asks(c)
  BY <1>1 DEF Background, Asks
<1>6. ErrandStep
  BY <1>3, <1>5, Parts, IsErrand
<1> QED  BY <1>4, <1>6

LEMMA EscalateStep ==
  ASSUME GuiInv, NEW c \in Callers, NEW d \in Depths, <<c, d>> # Thread,
         Escalate(<<c, d>>), Elsewhere(<<c, d>>)
  PROVE  GuiInv' /\ ErrandStep
<1> DEFINE k == <<c, d>>
<1>1. at[k] = "escalate" /\ UNCHANGED <<constants, world, command>> /\ done' = done
  BY DEF Escalate
<1>2. authorized' \subseteq {"binary", "grant", "doomed"} /\ Pending(at[k])
  BY <1>1 DEF world, GuiInv, ControlOK, Pending, Acting
<1>3. CASE \E w \in {"noPrivilege", "failed"} : Exit(k, w)
  <2>1. PICK w \in {"noPrivilege", "failed"} : Exit(k, w)
    BY <1>3
  <2> QED  BY <1>1, <1>2, <2>1, ExitStep DEF Ends, Errors
<1>4. CASE /\ ~HasRelay(k) /\ relay' = [relay EXCEPT ![k] = "empty"]
           /\ Elevate(k, ~Windows /\ Installed)
  <2>1. Plain(c)
    BY <1>1, Parts DEF CallerInv, RouteInv, Plain
  <2>2. d = 0 \/ (d = 1 /\ c = worker)
    <3>1. d > 0 => relay[<<c, d - 1>>] = "absent"
      BY <1>4 DEF HasRelay, Parent
    <3>2. \A b, e \in Depths : e = b + 1 /\ at[<<c, e>>] # "idle" =>
            relay[<<c, b>>] # "absent" \/ <<c, b>> = Thread
      BY <2>1, Parts DEF CallerInv, RouteInv, Plain
    <3>3. d > 0 => d - 1 \in Depths /\ d = (d - 1) + 1
      BY DEF Depths
    <3>4. d > 0 => relay[<<c, d - 1>>] # "absent" \/ <<c, d - 1>> = Thread
      BY <1>1, <3>2, <3>3
    <3> QED  BY <3>1, <3>4 DEF Thread, Depths
  <2>3. d < 2 /\ (c # worker => d = 0)
    BY <2>2
  <2>4. relay' \in RelayFiles /\ RelaysStay(c, d) /\ relay'[k] # "absent"
    BY <1>4, Parts, TheCopies DEF RelayFiles, RelaysStay
  <2>5. k = Child(Thread) => ~elevated[k]
    BY <1>1, Parts DEF WorkerInv
  <2> QED
    BY <1>1, <1>4, <2>1, <2>3, <2>4, <2>5, ElevateStep
<1> QED
  BY <1>3, <1>4 DEF Escalate

LEMMA AuthorizeStep ==
  ASSUME GuiInv, NEW c \in Callers, NEW d \in Depths, <<c, d>> # Thread,
         Authorize(<<c, d>>), Elsewhere(<<c, d>>)
  PROVE  GuiInv' /\ ErrandStep
<1> DEFINE k == <<c, d>>
<1>1. /\ at[k] = "authorize" /\ UNCHANGED <<constants, command>> /\ Pending(at[k])
      /\ machine' = machine /\ Who(k) = c
  BY DEF Authorize, Pending, Acting, Who
<1>2. ~Plain(c)
  BY <1>1, Parts DEF CallerInv, RouteInv, Plain
<1>3. Asks(c) # "reading"
  BY <1>2 DEF Plain, Authorizing, Asks
<1>4. \A g \in AfterOk(verb[c]) \cup AfterError(verb[c]) : g \subseteq {"binary", "grant", "doomed"}
  <2>1. authorized \subseteq {"binary", "grant", "doomed"}
    BY DEF GuiInv, ControlOK
  <2>2. \A g \in AfterOk(verb[c]) : g \subseteq {"binary", "grant", "doomed"}
    BY <2>1 DEF AfterOk
  <2>3. \A g \in AfterError(verb[c]) : g \subseteq {"binary", "grant", "doomed"}
    BY <2>1 DEF AfterError
  <2> QED  BY <2>2, <2>3
<1>5. CASE authorized' \in AfterOk(verb[c]) /\ Exit(k, "ok") /\ Did(c, "ok")
  <2>1. \E w \in Ends : w = "ok" /\ Exit(k, w)
    BY <1>5 DEF Ends
  <2>2. Doing(c) /\ done'[c] = "ok"
    BY <1>5, DidIsDoing
  <2> QED  BY <1>1, <1>3, <1>4, <1>5, <2>1, <2>2, ExitStep
<1>6. CASE authorized' \in AfterError(verb[c]) /\ Exit(k, "failed") /\ Did(c, "failed")
  <2>1. \E w \in Ends : w = "failed" /\ Exit(k, w)
    BY <1>6 DEF Ends, Errors
  <2>2. Doing(c)
    BY <1>6, DidIsDoing
  <2> QED  BY <1>1, <1>3, <1>4, <1>6, <2>1, <2>2, ExitStep
<1>7. CASE ~elevated[k] /\ d < 2 /\ Elevate(k, FALSE) /\ UNCHANGED <<authorized, relay, done>>
  <2>1. \E free \in BOOLEAN : Elevate(k, free)
    BY <1>7
  <2>2. relay' \in RelayFiles /\ RelaysStay(c, d) /\ world' = world
    BY <1>1, <1>7, Parts DEF RelaysStay, world
  <2> QED  BY <1>1, <1>2, <1>7, <2>1, <2>2, ElevateStep
<1>8. CASE Exit(k, "failed") /\ UNCHANGED <<authorized, done>>
  <2>1. \E w \in Ends : w = "failed" /\ Exit(k, w)
    BY <1>8 DEF Ends, Errors
  <2>2. world' = world /\ authorized' \subseteq {"binary", "grant", "doomed"}
    BY <1>1, <1>8 DEF world, GuiInv, ControlOK
  <2> QED  BY <1>1, <1>8, <2>1, <2>2, ExitStep
<1> QED
  BY <1>1, <1>5, <1>6, <1>7, <1>8 DEF Authorize

\* What the parent reports was carried out when it says Ok.
LEMMA CollectStep ==
  ASSUME GuiInv, NEW c \in Callers, NEW d \in Depths, <<c, d>> # Thread,
         Collect(<<c, d>>), Elsewhere(<<c, d>>)
  PROVE  GuiInv' /\ ErrandStep
<1> DEFINE k == <<c, d>>
<1>1. PICK text : /\ Leave(k, Collected(k, text))
                  /\ Emit(k, Collected(k, text), [relay EXCEPT ![k] = "absent"])
  BY DEF Collect
<1> DEFINE w == Collected(k, text)
           files == [relay EXCEPT ![k] = "absent"]
<1>2. /\ at[k] = "collect" /\ UNCHANGED <<constants, world, command>> /\ done' = done
      /\ k \in Copies /\ ~Acting(at[k])
  BY TheCopies DEF Collect, Acting
<1>3. w \in Ends
  BY DEF Collected, Ends, Errors
<1>4. w = "ok" => result[<<c, d + 1>>] = "ok"
  BY DEF Collected, Child, Errors
<1>5. d < 2
  <2>1. at[<<c, 2>>] \notin {"asking", "waiting", "collect"}
    BY Parts DEF CallerInv, ChainInv
  <2> QED  BY <1>2, <2>1 DEF Depths
<1>6. w = "ok" => done'[c] = "ok" /\ \A e \in Depths : d < e => at[<<c, e>>] = "idle"
  <2>1. ASSUME w = "ok" PROVE Good(c, d)
    BY <1>2, <1>4, <1>5, <2>1 DEF Good
  <2> QED  BY <1>2, <2>1, Parts DEF CallerInv, ChainInv, DutyInv
<1> HIDE DEF w
<1>7. w \in Words /\ w # "none" /\ w # "left"
  BY <1>3, NeverAbsent DEF Ends, Errors
<1>8. Background(c) /\ disturbed' \in BOOLEAN
  BY <1>2, Steady
<1>9. relay' \in RelayFiles /\ RelaysStay(c, d)
  <2>1. files \in RelayFiles /\ \A b \in Callers, e \in Depths :
          files[<<b, e>>] = IF b = c /\ e = d THEN "absent" ELSE relay[<<b, e>>]
    BY <1>2, Parts DEF RelayFiles, Copies
  <2>2. /\ relay' \in RelayFiles
        /\ \A b \in Callers, e \in Depths : relay'[<<b, e>>] = files[<<b, e>>]
                                            \/ (b = c /\ relay'[<<b, e>>] = w)
    <3>1. Emit(k, w, files)
      BY <1>1 DEF w
    <3> HIDE DEF files
    <3> QED  BY <1>7, <2>1, <3>1, EmitRelays
  <2> QED  BY <1>2, <1>7, <2>1, <2>2, NeverAbsent DEF RelaysStay
<1>10. Only(c) /\ CallerInv(c)' /\ Tells(c, d, w)
  BY <1>1, <1>2, <1>6, <1>7, <1>8, <1>9, Parts, LeaveKeeps DEF Tells, w
<1>11. ProcsOK' /\ ThreadKept
  BY <1>1, <1>2, <1>7, Parts, LeaveTypes, LeaveThread DEF w
<1>12. GuiInv'
  BY <1>2, <1>8, <1>9, <1>10, <1>11, StepInvariant DEF StepKeeps, Elsewhere, world, GuiInv, ControlOK
<1>13. ErrandStep
  <2>1. Asks(c)' = Asks(c)
    BY <1>8 DEF Background, Asks
  <2>2. ToldOf(w) = IF w = "ok" THEN "ok" ELSE "error"
    BY <1>3 DEF ToldOf, Ends, Errors
  <2>3. \/ Told(c)' = Told(c)
        \/ Told(c) = "waits" /\ (Told(c)' = "error" \/ (Told(c)' = "ok" /\ done'[c] = "ok"))
    BY <1>6, <1>10, <2>2 DEF Tells, Depths
  <2> QED  BY <1>2, <1>10, <2>1, <2>3, Parts, IsErrand
<1> QED  BY <1>12, <1>13

LEMMA ChooseStep ==
  ASSUME GuiInv, NEW c \in Callers, NEW d \in Depths, <<c, d>> # Thread,
         Choose(<<c, d>>), Elsewhere(<<c, d>>)
  PROVE  GuiInv' /\ ErrandStep
<1> DEFINE k == <<c, d>>
<1>1. /\ at[k] = "choose" /\ UNCHANGED <<constants, world, command>> /\ done' = done
      /\ Pending(at[k]) /\ authorized' \subseteq {"binary", "grant", "doomed"} /\ k \in Copies
  BY TheCopies DEF Choose, Pending, Acting, world, GuiInv, ControlOK
<1>2. CASE \E w \in {"notFound", "failed"} : Exit(k, w)
  <2>1. PICK w \in {"notFound", "failed"} : Exit(k, w)
    BY <1>2
  <2> QED  BY <1>1, <2>1, ExitStep DEF Ends, Errors
<1>3. CASE \E p \in {"brokerSet"} : Move(k, p) /\ relay' = relay
  <2>1. PICK p \in {"brokerSet"} : Move(k, p) /\ relay' = relay
    BY <1>3
  <2>2. Background(c) /\ disturbed' \in BOOLEAN
    BY <1>1, Steady
  <2>3. Plain(c)
    BY <1>1, Parts DEF CallerInv, RouteInv, Plain
  <2>4. Acting(p) /\ p # "asking" /\ p # "escalate" /\ p # "authorize" /\ p \notin JobPlaces
        /\ p \in CliPlaces
    BY DEF Acting, JobPlaces, CliPlaces
  <2>5. Only(c) /\ CallerInv(c)' /\ Told(c)' = Told(c)
    BY <1>1, <2>1, <2>2, <2>3, <2>4, Parts, MoveKeeps
  <2>6. ProcsOK' /\ ThreadKept
    BY <1>1, <2>1, <2>4, Parts, MoveTypes, MoveThread
  <2>7. GuiInv'
    BY <1>1, <2>1, <2>2, <2>5, <2>6, Parts, StepInvariant DEF StepKeeps, Elsewhere
  <2>8. Asks(c)' = Asks(c)
    BY <2>2 DEF Background, Asks
  <2> QED  BY <1>1, <2>5, <2>7, <2>8, Parts, IsErrand
<1> QED
  BY <1>2, <1>3 DEF Choose

LEMMA AnswerStep ==
  ASSUME GuiInv, NEW c \in Callers, NEW d \in Depths, Answer(<<c, d>>), Elsewhere(<<c, d>>)
  PROVE  GuiInv' /\ ErrandStep
<1> DEFINE k == <<c, d>>
<1>1. /\ at[k] = "asking" /\ UNCHANGED <<constants, world, command>> /\ done' = done
      /\ relay' = relay /\ Pending(at[k]) /\ authorized' \subseteq {"binary", "grant", "doomed"}
      /\ k \in Copies
  BY TheCopies DEF Answer, Pending, Acting, world, GuiInv, ControlOK
<1>2. Background(c) /\ disturbed' \in BOOLEAN
  BY <1>1, Steady
<1>3. /\ at[<<c, 2>>] \notin {"asking", "waiting", "collect"}
      /\ \A e \in Depths : d < e => at[<<c, e>>] = "idle"
      /\ prompts[c] <= d + 1 /\ prompts[c] \in Nat
  BY <1>1, Parts DEF CallerInv, ChainInv, Acting, PromptInv, Pending, ControlOK
<1>4. d < 2
  BY <1>1, <1>3 DEF Depths
<1>5. RelaysStay(c, d)
  BY <1>1 DEF RelaysStay
<1>6. k = Thread => at[Child(Thread)] # "escalate" /\ prompts[worker] <= 1
  BY <1>3, TheCopies DEF Thread
<1>7. CASE \E e \in BOOLEAN : Start(k, e)
  <2>1. PICK e \in BOOLEAN : Start(k, e)
    BY <1>7
  <2>2. Plain(c) => relay'[k] # "absent" \/ k = Thread
    BY <1>1, Parts DEF CallerInv, RouteInv, Plain
  <2>3. Plain(c) /\ c # worker => d = 0
    <3>1. ASSUME Plain(c), c # worker
          PROVE  at[<<c, 1>>] # "asking" /\ at[<<c, 2>>] = "idle"
      <4>1. \A b, f \in Depths : f = b + 1 /\ b = 0 => at[<<c, f>>] # "asking"
        BY <3>1, Parts DEF CallerInv, RouteInv, Plain
      <4>2. at[<<c, 2>>] = "idle"
        BY <3>1, Parts DEF CallerInv, RouteInv, Plain
      <4> QED  BY <4>1, <4>2 DEF Depths
    <3> QED  BY <1>1, <3>1 DEF Depths
  <2>4. Only(c) /\ CallerInv(c)' /\ Told(c)' = Told(c)
    BY <1>1, <1>2, <1>4, <1>5, <2>1, <2>2, <2>3, Parts, StartKeeps
  <2>5. ProcsOK'
    BY <1>1, <2>1, Parts, StartTypes
  <2>6. ThreadKept
    <3>1. CASE k # Thread
      BY <2>1, <3>1, Parts, StartThread
    <3>2. CASE k = Thread
      <4>1. Started(c, d, e) /\ c = worker /\ d = 0
        BY <2>1, <3>2, Parts, StartEffect DEF Thread
      <4>2. /\ at'[<<worker, 0>>] = "waiting" /\ at'[<<worker, 1>>] = "dispatch"
            /\ prompts' = prompts
        BY <4>1, TheCallers, TheCopies DEF Started
      <4>3. at[Thread] = "asking" /\ at'[Thread] = "waiting" /\ at'[Child(Thread)] = "dispatch"
        BY <1>1, <3>2, <4>2, TheCopies
      <4>4. ~(prompts'[worker] > 1)
        BY <1>3, <1>6, <3>2, <4>1, <4>2
      <4> QED  BY <4>3, <4>4 DEF ThreadKept
    <3> QED  BY <3>1, <3>2
  <2> QED  BY <1>1, <1>2, <2>4, <2>5, <2>6, Parts, StepInvariant, IsErrand
           DEF StepKeeps, Elsewhere, Background, Asks
<1>8. CASE /\ at' = [at EXCEPT ![k] = "collect"]
           /\ result' = [result EXCEPT ![Child(k)] = "refused"]
           /\ UNCHANGED <<elevated, prompts>>
  <2>1. result' = [result EXCEPT ![<<c, d + 1>>] = "refused"]
    BY <1>8 DEF Child
  <2>2. Only(c) /\ CallerInv(c)' /\ Told(c)' = Told(c)
    BY <1>1, <1>2, <1>8, <2>1, Parts, RefuseKeeps
  <2>3. ProcsOK'
    BY <1>1, <1>8, Parts DEF ProcsOK, CliPlaces, Words, Errors
  <2>4. ThreadKept
    BY <1>1, <1>6, <1>8, Parts, TheCopies DEF ThreadKept, ControlOK, WorkerInv
  <2> QED  BY <1>1, <1>2, <2>2, <2>3, <2>4, Parts, StepInvariant, IsErrand
           DEF StepKeeps, Elsewhere, Background, Asks
<1> QED
  BY <1>7, <1>8 DEF Answer

\* A process that dies reports nothing; its parent collects a failure.
LEMMA KillStep ==
  ASSUME GuiInv, NEW c \in Callers, NEW d \in Depths, Kill(<<c, d>>), Elsewhere(<<c, d>>)
  PROVE  GuiInv' /\ ErrandStep
<1> DEFINE k == <<c, d>>
           w == IF d = 0 THEN "left" ELSE "failed"
<1>1. /\ at[k] # "idle" /\ UNCHANGED <<constants, world, command>> /\ done' = done
      /\ relay' = relay /\ authorized' \subseteq {"binary", "grant", "doomed"}
      /\ k \in Copies /\ Leave(k, w) /\ (c \in Users \/ d > 0)
  BY TheCopies DEF Kill, Who, world, GuiInv, ControlOK
<1>2. Background(c) /\ disturbed' \in BOOLEAN
  BY <1>1, Steady
<1>3. k # Thread
  BY <1>1, TheCallers DEF Thread
<1>4. w \in Words /\ w # "none" /\ w # "ok" /\ (w # "left" \/ d = 0)
  BY DEF Words, Errors
<1> HIDE DEF w
<1>5. RelaysStay(c, d)
  BY <1>1 DEF RelaysStay
<1>6. Only(c) /\ CallerInv(c)' /\ Tells(c, d, w)
  BY <1>1, <1>2, <1>4, <1>5, Parts, LeaveKeeps DEF Tells
<1>7. ProcsOK' /\ ThreadKept
  BY <1>1, <1>3, <1>4, Parts, LeaveTypes, LeaveThread
<1>8. GuiInv'
  BY <1>1, <1>2, <1>6, <1>7, Parts, StepInvariant DEF StepKeeps, Elsewhere
<1>9. Asks(c)' = Asks(c)
  BY <1>2 DEF Background, Asks
<1>10. CASE d > 0
  BY <1>1, <1>6, <1>8, <1>9, <1>10, Parts, IsErrand DEF Tells
<1>11. CASE d = 0
  <2>1. Told(c) = "waits" /\ Told(c)' = "left"
    BY <1>1, <1>6, <1>11, TheCallers DEF Tells, w, ToldOf, Errors
  <2> QED  BY <1>1, <1>6, <1>8, <1>9, <2>1, IsLeave
<1> QED
  BY <1>8, <1>10, <1>11 DEF Depths

\* A step of the window, or of whoever gives a command, keeps the worker's part.
LEMMA AskStep ==
  ASSUME GuiInv, NEW u \in Users, Ask(u), Elsewhere(First(u))
  PROVE  GuiInv' /\ ErrandStep
<1>1. /\ ~Busy(u) /\ u \in Callers /\ u # worker /\ <<u, 0>> \in Copies
  BY TheCallers, TheCopies DEF Ask
<1>2. PICK v \in scene.verbs, e \in BOOLEAN :
        /\ verb' = [verb EXCEPT ![u] = v]
        /\ elevated' = [elevated EXCEPT ![<<u, 0>>] = e]
  BY DEF Ask, First
<1>3. /\ at' = [at EXCEPT ![<<u, 0>>] = "dispatch"]
      /\ result' = [result EXCEPT ![<<u, 0>>] = "none"]
      /\ relay' = [relay EXCEPT ![<<u, 0>>] = "absent"]
      /\ done' = [done EXCEPT ![u] = "no"]
      /\ prompts' = [prompts EXCEPT ![u] = 0]
      /\ UNCHANGED <<constants, world, drawn, sent, last>>
  BY DEF Ask, First, Elsewhere
<1>4. v \in AllVerbs
  BY ScenesAssumption DEF GuiInv, ControlOK
<1>5. disturbed' \in BOOLEAN
  BY Parts DEF Elsewhere, Disturbs, ControlOK
<1>6. /\ \A b \in Callers \ {u}, d \in Depths : relay'[<<b, d>>] = relay[<<b, d>>]
      /\ \A b \in Callers \ {u} : verb'[b] = verb[b]
      /\ \A b \in Callers, d \in Depths : d > 0 => elevated'[<<b, d>>] = elevated[<<b, d>>]
      /\ \A b \in Callers, d \in Depths : b # u => elevated'[<<b, d>>] = elevated[<<b, d>>]
  BY <1>1, <1>2, <1>3, Parts, TheCopies DEF RelayFiles, ControlOK, Depths
<1>7. Only(u) /\ CallerInv(u)' /\ Told(u)' = "waits"
  <2>1. \A p \in {"dispatch"} : at' = [at EXCEPT ![<<u, 0>>] = p] =>
          Only(u) /\ CallerInv(u)' /\ Told(u)' = "waits"
    BY <1>1, <1>3, <1>6, Parts, AskKeeps DEF drawn
  <2> QED  BY <1>3, <2>1
<1>8. Told(u) # "waits"
  BY <1>1, TheCopies, Parts DEF Busy, Told, First, ToldOf, ControlOK, Words, Errors
<1>9. ControlOK'
  <2>1. /\ verb' \in [Callers -> AllVerbs] /\ elevated' \in [Copies -> BOOLEAN]
        /\ at' \in [Copies -> CliPlaces \cup JobPlaces] /\ result' \in [Copies -> Words]
        /\ relay' \in [Copies -> {"absent", "empty"} \cup Words]
        /\ prompts' \in [Callers -> Nat] /\ done' \in [Callers -> {"no"} \cup Fates]
    BY <1>1, <1>2, <1>3, <1>4, Parts DEF ControlOK, CliPlaces, Words
  <2> QED  BY <1>3, <1>5, <2>1, Parts DEF ControlOK, constants, world, drawn
<1>10. WorkerInv'
  <2>1. /\ verb'[worker] = verb[worker] /\ at'[Thread] = at[Thread] /\ done'[worker] = done[worker]
        /\ at'[Child(Thread)] = at[Child(Thread)] /\ prompts'[worker] = prompts[worker]
        /\ elevated'[Child(Thread)] = elevated[Child(Thread)]
    BY <1>1, <1>6, <1>7, TheCallers, TheCopies DEF Only, Untouched
  <2> QED  BY <1>3, <2>1, Parts DEF WorkerInv, drawn
<1>11. \A b \in Callers : CallerInv(b)'
  BY <1>7, Parts, Kept DEF Only
<1>12. ErrandStep
  BY <1>1, <1>3, <1>7, <1>8, Parts, IsAsk
<1> QED
  BY <1>9, <1>10, <1>11, <1>12 DEF GuiInv

-----------------------------------------------------------------------------
(* The steps of the worker *)

\* What a step of the worker's thread leaves alone.
Working ==
  /\ at[Thread] # "idle" /\ UNCHANGED <<constants, authorized, command, relay, drawn, last, disturbed>>
  /\ \/ done' = done /\ world' = world
     \/ Doing(worker) /\ done[worker] = "no" /\ (Asks(worker) = "reading" => world' = world)

LEMMA WorkingParts ==
  ASSUME GuiInv, Working
  PROVE  /\ Background(worker) /\ RelaysStay(worker, 0) /\ relay' \in RelayFiles
         /\ Told(worker) = "waits" /\ Asks(worker)' = Asks(worker)
         /\ authorized' \subseteq {"binary", "grant", "doomed"} /\ disturbed' \in BOOLEAN
         /\ worker \in Callers /\ 0 \in Depths /\ Thread = <<worker, 0>> /\ Thread \in Copies
BY Parts, TheCallers, TheCopies
   DEF Working, Background, RelaysStay, Told, Asks, WorkerInv, ControlOK, Doing, command, drawn

LEMMA JobErrand ==
  ASSUME GuiInv, Working, Only(worker), Told(worker)' = Told(worker)
  PROVE  ErrandStep
BY WorkingParts, Parts, IsErrand DEF Working

\* The thread goes on.
LEMMA WorksStep ==
  ASSUME GuiInv, Working, NEW p \in JobPlaces, Works(p), Pending(at[Thread]),
         at[Thread] # "asking", done' = done \/ (~Pending(p) /\ done'[worker] = "ok")
  PROVE  GuiInv' /\ ErrandStep
<1>1. Move(Thread, p) /\ sent' = sent
  BY DEF Works
<1>2. Acting(p) /\ p # "asking" /\ p \notin CliPlaces
  BY DEF JobPlaces, Acting, CliPlaces
<1>3. Only(worker) /\ CallerInv(worker)' /\ Told(worker)' = Told(worker)
  <2>1. /\ p # "authorize"
        /\ p \notin {"power", "choose", "brokerSet", "brokerCall", "escalate", "switch"}
    BY DEF JobPlaces
  <2>2. /\ done'[worker] = done[worker] \/ ~Pending(p)
        /\ done'[worker] # "failed"
    BY WorkingParts, Parts DEF CallerInv, DutyInv
  <2> QED  BY <1>1, <1>2, <2>1, <2>2, WorkingParts, Parts, MoveKeeps DEF Working
<1>4. ProcsOK'
  BY <1>1, WorkingParts, Parts, MoveTypes
<1>5. ThreadKept
  <2>1. Moved(worker, 0, p)
    BY <1>1, WorkingParts, Parts, MoveEffect
  <2>2. at'[<<worker, 0>>] = p /\ at'[<<worker, 1>>] = at[<<worker, 1>>]
        /\ elevated'[<<worker, 1>>] = elevated[<<worker, 1>>] /\ prompts' = prompts
    BY <2>1, TheCallers, TheCopies DEF Moved
  <2> QED  BY <2>2, Parts, TheCopies DEF ThreadKept, WorkerInv, Working
<1>6. GuiInv'
  BY <1>1, <1>3, <1>4, <1>5, WorkingParts, StepInvariant DEF StepKeeps, Working
<1> QED
  BY <1>3, <1>6, JobErrand

\* The thread sends its answer and ends.
LEMMA SendsStep ==
  ASSUME GuiInv, Working, NEW answer, Sends(answer),
         answer.kind \in {"list", "error", "gone"},
         done' = done \/ Acting(at[Thread]), answer.kind = "list" => done'[worker] = "ok"
  PROVE  GuiInv' /\ ErrandStep
<1>1. Leave(Thread, "none") /\ sent' = answer /\ "none" \in Words
  BY NeverAbsent DEF Sends
<1>2. Only(worker) /\ CallerInv(worker)' /\ Told(worker)' = Told(worker)
  <2>1. \A w \in Words : w = "none" /\ Leave(Thread, w) =>
          Only(worker) /\ CallerInv(worker)' /\ Told(worker)' = Told(worker)
    BY WorkingParts, Parts, LeaveKeeps DEF Working
  <2> QED  BY <1>1, <2>1
<1>3. ProcsOK'
  BY <1>1, WorkingParts, Parts, LeaveTypes
<1>4. /\ done' \in [Callers -> {"no"} \cup Fates]
      /\ done[worker] = "ok" => done'[worker] = "ok"
  BY WorkingParts, Parts DEF Working, Doing
<1>5. /\ at'[Thread] = "idle" /\ prompts'[worker] = 0
      /\ at'[Child(Thread)] = at[Child(Thread)]
      /\ elevated'[Child(Thread)] = elevated[Child(Thread)]
  <2>1. Left(worker, 0, "none")
    <3>1. \A w : Leave(Thread, w) => Left(worker, 0, w)
      BY WorkingParts, Parts, LeaveEffect
    <3> QED  BY <1>1, <3>1
  <2>2. 1 # 0 /\ 1 + 1 # 0
    OBVIOUS
  <2> QED  BY <2>1, <2>2, TheCallers, TheCopies DEF Left
<1>6. ControlOK'
  BY <1>1, <1>3, <1>4, WorkingParts
     DEF Working, GuiInv, ControlOK, ProcsOK, RelayFiles, constants, drawn, command
<1>7. WorkerInv'
  BY <1>1, <1>4, <1>5, Parts DEF Working, WorkerInv, drawn, command
<1>8. \A b \in Callers : CallerInv(b)'
  BY <1>2, Parts, Kept DEF Only
<1> QED
  BY <1>2, <1>6, <1>7, <1>8, JobErrand DEF GuiInv

LEMMA PerformStep ==
  ASSUME GuiInv, Perform
  PROVE  GuiInv' /\ ErrandStep
<1>1. /\ at[Thread] = "perform" /\ Working /\ Pending(at[Thread])
      /\ done' = done /\ world' = world
  BY DEF Perform, WorkerAt, Working, Pending, Acting, world
<1>2. CASE \E p \in JobPlaces : Works(p)
  BY <1>1, <1>2, WorksStep
<1>3. CASE Elevate(Thread, ~Windows /\ Installed) /\ UNCHANGED sent
  <2>1. CASE \E e \in BOOLEAN : Start(Thread, e)
    <3>1. PICK e \in BOOLEAN : Start(Thread, e)
      BY <2>1
    <3>2. Only(worker) /\ CallerInv(worker)' /\ Told(worker)' = Told(worker)
      BY <1>1, <3>1, WorkingParts, Parts, StartKeeps
    <3>3. ProcsOK'
      BY <1>1, <3>1, WorkingParts, Parts, StartTypes
    <3>4. ThreadKept
      <4>1. Started(worker, 0, e)
        BY <1>1, <3>1, WorkingParts, Parts, StartEffect
      <4>2. at'[<<worker, 0>>] = "waiting" /\ at'[<<worker, 1>>] = "dispatch" /\ prompts' = prompts
        BY <4>1, TheCallers, TheCopies DEF Started
      <4>3. prompts[worker] <= 0 /\ prompts[worker] \in Nat
        BY <1>1, TheCallers, TheCopies, Parts DEF CallerInv, PromptInv, ControlOK
      <4> QED  BY <1>1, <4>2, <4>3, TheCopies DEF ThreadKept
    <3>5. GuiInv'
      BY <1>1, <1>3, <3>2, <3>3, <3>4, WorkingParts, StepInvariant DEF StepKeeps, Working
    <3> QED  BY <1>1, <3>2, <3>5, JobErrand
  <2>2. CASE Prompt(Thread)
    <3>2. Only(worker) /\ CallerInv(worker)' /\ Told(worker)' = Told(worker)
      BY <1>1, <2>2, WorkingParts, Parts, PromptKeeps
    <3>3. ProcsOK'
      BY <1>1, <2>2, WorkingParts, Parts, PromptTypes
    <3>4. ThreadKept
      <4>1. Prompted(worker, 0)
        BY <1>1, <2>2, WorkingParts, Parts, PromptEffect
      <4>2. /\ at'[<<worker, 0>>] = "asking" /\ at'[<<worker, 1>>] = at[<<worker, 1>>]
            /\ prompts'[worker] = prompts[worker] + 1
        BY <4>1, TheCallers, TheCopies DEF Prompted
      <4>3. prompts[worker] <= 0 /\ prompts[worker] \in Nat
        BY <1>1, TheCallers, TheCopies, Parts DEF CallerInv, PromptInv, ControlOK
      <4>4. at[<<worker, 1>>] = "idle"
        <5>1. \A d, e \in Depths : d < e /\ Acting(at[<<worker, d>>]) => at[<<worker, e>>] = "idle"
          BY TheCallers, Parts DEF CallerInv, ChainInv
        <5>2. Acting(at[<<worker, 0>>]) /\ 0 < 1
          BY <1>1, TheCopies DEF Pending
        <5> QED  BY <5>1, <5>2, TheCopies
      <4> QED  BY <1>1, <4>2, <4>3, <4>4, TheCopies DEF ThreadKept
    <3>5. GuiInv'
      BY <1>1, <1>3, <3>2, <3>3, <3>4, WorkingParts, StepInvariant DEF StepKeeps, Working
    <3> QED  BY <1>1, <3>2, <3>5, JobErrand
  <2> QED  BY <1>3, <2>1, <2>2 DEF Elevate
<1> QED
  BY <1>2, <1>3 DEF Perform, JobPlaces

\* After a change, the thread goes on to read or sends the error.
LEMMA ContinuesStep ==
  ASSUME GuiInv, Working, NEW w, NEW p \in {"read", "brokerRead"}, Continues(w, p),
         Pending(at[Thread]), at[Thread] # "asking", w = "ok" => done'[worker] = "ok"
  PROVE  GuiInv' /\ ErrandStep
<1>1. p \in JobPlaces /\ ~Pending(p) /\ Acting(at[Thread])
  BY DEF JobPlaces, Pending
<1>2. CASE w = "ok"
  BY <1>1, <1>2, WorksStep DEF Continues
<1>3. CASE w # "ok"
  <2>1. PICK answer \in {Said("gone"), Said("error")} : Sends(answer)
    BY <1>3 DEF Continues
  <2>2. answer.kind \in {"error", "gone"}
    BY DEF Said
  <2> QED  BY <1>1, <2>1, <2>2, SendsStep
<1> QED
  BY <1>2, <1>3

LEMMA ApplyStep ==
  ASSUME GuiInv, Apply
  PROVE  GuiInv' /\ ErrandStep
<1>1. PICK o \in Commands(machine, verb[worker], sel[worker], elevated[Thread]) :
        machine' = o.machine /\ Continues(o.word, "read") /\ Did(worker, o.word)
  BY DEF Apply
<1>2. verb[worker] \notin {"default", "next", "clear"} => o.machine = machine
  BY CommandsEnd
<1>3. /\ at[Thread] = "apply" /\ Pending(at[Thread]) /\ Acting(at[Thread])
      /\ Doing(worker) /\ (o.word = "ok" => done'[worker] = "ok")
  BY <1>1, TheCallers, DidIsDoing DEF Apply, WorkerAt, Pending, Acting
<1>4. done[worker] = "no"
  BY <1>3, TheCallers, TheCopies, Parts DEF CallerInv, DutyInv
<1>5. Working
  BY <1>1, <1>2, <1>3, <1>4, ReadingKeeps, TheCallers DEF Apply, WorkerAt, Working, world
<1> QED
  BY <1>1, <1>3, <1>5, ContinuesStep

LEMMA BrokerApplyStep ==
  ASSUME GuiInv, BrokerApply
  PROVE  GuiInv' /\ ErrandStep
<1>1. PICK r \in Replies(Thread, sel[worker]) : Request(Thread, r) /\ Continues(r.word, "brokerRead")
  BY DEF BrokerApply
<1>2. Who(Thread) = worker /\ Thread \in Copies
  BY TheCallers, TheCopies DEF Who
<1>3. /\ r.done \in Fates \/ (r.done = done[worker] /\ r.machine = machine)
      /\ r.word = "ok" => r.done = "ok"
      /\ verb[worker] \notin {"default", "next", "clear"} => r.machine = machine
  BY <1>2, RepliesEnd
<1>4. machine' = r.machine /\ done' = [done EXCEPT ![worker] = r.done]
  BY <1>1, <1>2 DEF Request
<1>5. /\ at[Thread] = "brokerApply" /\ Pending(at[Thread]) /\ Acting(at[Thread])
  BY DEF BrokerApply, WorkerAt, Pending, Acting
<1>6. done[worker] = "no"
  BY <1>5, TheCallers, TheCopies, Parts DEF CallerInv, DutyInv
<1>7. Working
  <2>1. UNCHANGED <<constants, authorized, command, relay, drawn, last, disturbed>>
    BY DEF BrokerApply, WorkerAt
  <2>2. CASE r.done \in Fates
    BY <1>3, <1>4, <1>5, <1>6, <2>1, <2>2, ReadingKeeps, TheCallers DEF Working, world, Doing
  <2>3. CASE r.done = done[worker] /\ r.machine = machine
    BY <1>4, <1>5, <2>1, <2>3, Parts DEF Working, world
  <2> QED  BY <1>3, <2>2, <2>3
<1>8. r.word = "ok" => done'[worker] = "ok"
  BY <1>3, <1>4, TheCallers, Parts
<1> QED
  BY <1>1, <1>5, <1>7, <1>8, ContinuesStep

\* Reading carries out the command to list, or follows a change that succeeded.
LEMMA ReadingIsDone ==
  ASSUME GuiInv, at[Thread] \in {"read", "brokerRead"}, Did(worker, "ok")
  PROVE  /\ done' = done \/ (Doing(worker) /\ done[worker] = "no")
         /\ done'[worker] = "ok"
<1>1. done[worker] # "failed"
  BY TheCallers, TheCopies, Parts DEF CallerInv, DutyInv
<1>2. Doing(worker) /\ done'[worker] = "ok" /\ done' = [done EXCEPT ![worker] = "ok"]
  BY TheCallers, DidIsDoing DEF Did, Fate
<1> QED
  BY <1>1, <1>2, TheCallers, Parts DEF Fates

LEMMA ReadStep ==
  ASSUME GuiInv, Read
  PROVE  GuiInv' /\ ErrandStep
<1>1. /\ at[Thread] = "read" /\ Acting(at[Thread]) /\ Working /\ done'[worker] = "ok"
  BY ReadingIsDone DEF Read, WorkerAt, Working, Acting, world
<1>2. PICK l : Sends(Fresh(l))
  BY DEF Read
<1>3. Fresh(l).kind = "list"
  BY DEF Fresh
<1> QED
  BY <1>1, <1>2, <1>3, SendsStep

LEMMA BrokerReadStep ==
  ASSUME GuiInv, BrokerRead
  PROVE  GuiInv' /\ ErrandStep
<1>1. /\ at[Thread] = "brokerRead" /\ Acting(at[Thread]) /\ Working
  BY ReadingIsDone DEF BrokerRead, WorkerAt, Working, Acting, world
<1>2. \/ \E l : Sends(Fresh(l)) /\ Did(worker, "ok")
      \/ Sends(Said("error")) /\ done' = done
  BY DEF BrokerRead
<1>3. CASE \E l : Sends(Fresh(l)) /\ Did(worker, "ok")
  <2>1. PICK l : Sends(Fresh(l)) /\ done'[worker] = "ok"
    BY <1>1, <1>3, ReadingIsDone
  <2>2. Fresh(l).kind = "list"
    BY DEF Fresh
  <2> QED  BY <1>1, <2>1, <2>2, SendsStep
<1>4. CASE Sends(Said("error")) /\ done' = done
  <2>1. PICK answer : Sends(answer) /\ answer.kind = "error"
    BY <1>4 DEF Said
  <2> QED  BY <1>1, <1>4, <2>1, SendsStep
<1> QED
  BY <1>2, <1>3, <1>4

\* The elevated half did what was asked: the thread reads the configuration itself.
LEMMA AppliedElsewhereStep ==
  ASSUME GuiInv, AppliedElsewhere
  PROVE  GuiInv' /\ ErrandStep
<1>1. /\ at[Thread] = "collect" /\ Working /\ done' = done /\ world' = world
  BY DEF AppliedElsewhere, WorkerAt, Working, world
<1>2. CASE Sends(Said("error"))
  <2>1. PICK answer : Sends(answer) /\ answer.kind = "error"
    BY <1>2 DEF Said
  <2> QED  BY <1>1, <2>1, SendsStep
<1>3. CASE /\ result[Child(Thread)] = "ok" /\ at' = [at EXCEPT ![Thread] = "read"]
           /\ result' = [result EXCEPT ![Child(Thread)] = "none"]
           /\ UNCHANGED <<elevated, prompts, sent>>
  <2>1. \A b \in Callers, e \in Depths :
          /\ at'[<<b, e>>] = IF b = worker /\ e = 0 THEN "read" ELSE at[<<b, e>>]
          /\ b # worker => result'[<<b, e>>] = result[<<b, e>>]
    <3>1. /\ at' = [at EXCEPT ![<<worker, 0>>] = "read"]
          /\ result' = [result EXCEPT ![<<worker, 1>>] = "none"]
      BY <1>3, TheCopies
    <3> QED  BY <3>1, Parts DEF ControlOK, Copies
  <2>2. Good(worker, 0)
    BY <1>1, <1>3, TheCopies DEF Good
  <2>3. \A e \in Depths : at'[<<worker, e>>] = IF e = 0 THEN "read" ELSE "idle"
    <3>1. \A e \in Depths : 0 < e => at[<<worker, e>>] = "idle"
      BY <2>2, TheCallers, TheCopies, Parts DEF CallerInv, ChainInv
    <3>2. \A e \in Depths : e = 0 \/ 0 < e
      BY DEF Depths
    <3> QED  BY <2>1, <3>1, <3>2, TheCallers
  <2>4. Only(worker)
    BY <1>1, <1>3, <2>1, WorkingParts, TheCallers, TheCopies
       DEF Only, Untouched, Working, Background
  <2>5. Told(worker)' = Told(worker)
    BY WorkingParts, <1>1 DEF Told, Background
  <2>6. CallerInv(worker)'
    <3>0. done[worker] = "ok"
      BY <2>2, TheCallers, TheCopies, Parts DEF CallerInv, DutyInv
    <3>1. ChainInv(worker)' /\ DutyInv(worker)'
      BY <1>1, <2>3, <3>0 DEF ChainInv, DutyInv, Good, Acting, Pending, Depths
    <3>2. RouteInv(worker)'
      BY <2>3 DEF RouteInv, Depths, JobPlaces, Thread
    <3>3. PromptInv(worker)'
      <4>1. prompts'[worker] <= 2 
        BY <1>3, TheCallers, Parts DEF CallerInv, PromptInv
      <4> QED  BY <2>3, <4>1 DEF PromptInv, Pending, Acting, Depths
    <3> QED  BY <3>1, <3>2, <3>3 DEF CallerInv
  <2>7. ProcsOK'
    BY <1>3, Parts, TheCallers, TheCopies DEF ProcsOK, JobPlaces, Words
  <2>8. ThreadKept
    BY <1>1, <1>3, <2>3, TheCopies, Parts DEF ThreadKept, WorkerInv, JobPlaces
  <2>9. GuiInv'
    BY <1>1, <1>3, <2>4, <2>6, <2>7, <2>8, WorkingParts, StepInvariant DEF StepKeeps, Working
  <2> QED  BY <1>1, <2>4, <2>5, <2>9, JobErrand
<1> QED
  BY <1>2, <1>3 DEF AppliedElsewhere

-----------------------------------------------------------------------------
(* The steps of the drawing thread *)

JobVerbs == {"list", "default", "next", "clear"}

\* A new job: the worker is given a command.
LEMMA StartsJobStep ==
  ASSUME GuiInv, NEW v \in JobVerbs, NEW s, NEW e \in BOOLEAN, StartsJob(v, s, e),
         window' \in {"closed", "open"}, banner' \in BOOLEAN
  PROVE  GuiInv' /\ ErrandStep
<1>1. /\ ~job /\ ~Busy(worker)
      /\ verb' = [verb EXCEPT ![worker] = v]
      /\ at' = [at EXCEPT ![<<worker, 0>>] = "perform"]
      /\ elevated' = [elevated EXCEPT ![<<worker, 0>>] = e, ![<<ui, 0>>] = e]
      /\ done' = [done EXCEPT ![worker] = "no"]
      /\ job' = TRUE /\ last' = "none" /\ disturbed' = FALSE
      /\ prompts' = [prompts EXCEPT ![worker] = 0]
      /\ UNCHANGED <<constants, world, result, relay, chosen, sent>>
  BY TheCopies DEF StartsJob
<1>2. \A b \in Callers, d \in Depths : d > 0 => elevated'[<<b, d>>] = elevated[<<b, d>>]
  BY <1>1, Parts DEF ControlOK, Copies
<1>3. Only(worker) /\ CallerInv(worker)' /\ Told(worker)' = "waits"
  <2>1. \A p \in {"perform"} : at' = [at EXCEPT ![<<worker, 0>>] = p] =>
          Only(worker) /\ CallerInv(worker)' /\ Told(worker)' = "waits"
    BY <1>1, <1>2, TheCallers, Parts, AskKeeps
  <2> QED  BY <1>1, <2>1
<1>4. Told(worker) # "waits"
  BY <1>1, Parts DEF Told, ControlOK
<1>5. ErrandStep
  BY <1>1, <1>3, <1>4, TheCallers, Parts, IsAsk
<1>6. v \in AllVerbs /\ v \notin Authorizing \cup {"power"}
  BY DEF JobVerbs, AllVerbs, Authorizing
<1>7. ControlOK'
  <2>1. /\ verb' \in [Callers -> AllVerbs] /\ elevated' \in [Copies -> BOOLEAN]
        /\ at' \in [Copies -> CliPlaces \cup JobPlaces]
        /\ prompts' \in [Callers -> Nat] /\ done' \in [Callers -> {"no"} \cup Fates]
    BY <1>1, <1>6, Parts DEF ControlOK, JobPlaces
  <2> QED  BY <1>1, <2>1, Parts DEF ControlOK, constants, world
<1>8. WorkerInv'
  <2>1. /\ verb'[worker] = v /\ at'[<<worker, 0>>] = "perform" /\ prompts'[worker] = 0
        /\ at'[<<worker, 1>>] = at[<<worker, 1>>] /\ at[<<worker, 1>>] = "idle"
    <3>1. <<worker, 0>> \in Copies /\ <<worker, 1>> \in Copies /\ <<worker, 0>> # <<worker, 1>>
      BY TheCallers, TheCopies
    <3>2. at[<<worker, 1>>] = "idle"
      BY <1>1, TheCopies DEF Busy
    <3>3. at'[<<worker, 0>>] = "perform" /\ at'[<<worker, 1>>] = at[<<worker, 1>>]
      BY <1>1, <3>1, Parts DEF ControlOK
    <3> QED  BY <1>1, <3>2, <3>3, TheCallers, Parts DEF ControlOK
  <2>2. sent.kind = "none" /\ sent = Nothing
    BY <1>1, Parts DEF WorkerInv
  <2> QED  BY <1>1, <1>6, <2>1, <2>2, TheCopies DEF WorkerInv, JobPlaces
<1> QED
  BY <1>3, <1>5, <1>7, <1>8, Parts, Kept DEF GuiInv, Only

\* Steps that only draw.
LEMMA DrawStep ==
  ASSUME GuiInv, UNCHANGED <<cliVars, job, sent, last>>, window' \in {"closed", "open"},
         banner' \in BOOLEAN, disturbed' \in BOOLEAN
  PROVE  GuiInv' /\ ErrandStep
<1>1. \A b \in Callers : Untouched(b)
  BY DEF Untouched, cliVars, command
<1>2. ControlOK' /\ WorkerInv'
  BY Parts DEF ControlOK, WorkerInv, cliVars, constants, world, command
<1>3. \A b \in Callers : CallerInv(b)' /\ Told(b)' = Told(b) /\ Asks(b)' = Asks(b)
  BY <1>1, Parts, Kept
<1>4. ErrandStep
  <2>1. <<machine, Lasting>>' = <<machine, Lasting>> /\ done' = done
    BY WorldLasts DEF cliVars
  <2> QED  BY <1>3, <2>1 DEF ErrandStep, E!vars
<1> QED
  BY <1>2, <1>3, <1>4 DEF GuiInv

LEMMA PollStep ==
  ASSUME GuiInv, Poll
  PROVE  GuiInv' /\ ErrandStep
<1>1. /\ job /\ sent # Nothing /\ job' = FALSE /\ sent' = Nothing /\ last' = sent.kind
      /\ UNCHANGED <<cliVars, window, banner, disturbed>>
  BY DEF Poll
<1>2. Only(worker)
  BY <1>1 DEF Only, Untouched, cliVars, command
<1>3. /\ sent.kind \in {"list", "error", "gone"} /\ at[Thread] = "idle"
      /\ sent.kind = "list" => done[worker] = "ok"
  BY <1>1, Parts DEF WorkerInv, ControlOK
<1>4. /\ Told(worker) = "waits"
      /\ Told(worker)' = CASE sent.kind = "list" -> "ok" [] sent.kind = "gone" -> "left"
                           [] OTHER -> sent.kind
  BY <1>1 DEF Told
<1>5. Asks(worker)' = Asks(worker) /\ done' = done /\ world' = world
  BY <1>1 DEF Asks, cliVars, command
<1>6. CallerInv(worker)'
  <2>1. /\ at' = at /\ result' = result /\ relay' = relay /\ verb' = verb
        /\ done' = done /\ prompts' = prompts
    BY <1>1 DEF cliVars, command
  <2>2. ChainInv(worker)' /\ RouteInv(worker)' /\ PromptInv(worker)'
    BY <2>1, TheCallers, Parts DEF CallerInv, ChainInv, RouteInv, PromptInv, Good
  <2>3. DutyInv(worker)'
    <3>1. \A d \in Depths : Pending(at'[<<worker, d>>]) => done'[worker] = "no"
      BY <2>1, TheCallers, Parts DEF CallerInv, DutyInv
    <3>2. done'[worker] = "no" => Told(worker)' \in {"waits", "left", "error"}
      BY <1>3, <1>4, <2>1
    <3>3. \A d \in Depths : Good(worker, d)' => done'[worker] = "ok"
      BY <2>1, TheCallers, Parts DEF CallerInv, DutyInv, Good
    <3>4. \A d \in Depths : at'[<<worker, d>>] \in {"read", "brokerRead"} => done'[worker] # "failed"
      BY <2>1, TheCallers, Parts DEF CallerInv, DutyInv
    <3> QED  BY <3>1, <3>2, <3>3, <3>4 DEF DutyInv
  <2> QED  BY <2>2, <2>3 DEF CallerInv
<1>7. ControlOK' /\ WorkerInv'
  BY <1>1, <1>3, Parts DEF ControlOK, WorkerInv, cliVars, constants, world, command, Nothing
<1>8. GuiInv'
  BY <1>2, <1>6, <1>7, Parts, Kept DEF GuiInv, Only
<1>9. CASE sent.kind = "gone"
  BY <1>2, <1>4, <1>5, <1>8, <1>9, TheCallers, IsLeave
<1>10. CASE sent.kind # "gone"
  <2>1. Told(worker)' = "error" \/ (Told(worker)' = "ok" /\ done'[worker] = "ok")
    BY <1>3, <1>4, <1>5, <1>10
  <2> QED  BY <1>2, <1>4, <1>5, <1>8, <2>1, TheCallers, Parts, IsErrand
<1> QED
  BY <1>9, <1>10

LEMMA ClickBannerStep ==
  ASSUME GuiInv, ClickBanner
  PROVE  GuiInv' /\ ErrandStep
<1>1. /\ ~Busy(ui) /\ banner' = TRUE
      /\ at' = [at EXCEPT ![<<ui, 0>>] = "authorize"]
      /\ result' = [result EXCEPT ![<<ui, 0>>] = "none"]
      /\ done' = [done EXCEPT ![ui] = "no"]
      /\ prompts' = [prompts EXCEPT ![ui] = 0]
      /\ UNCHANGED <<constants, world, elevated, relay, sent, last, disturbed, window, job>>
  BY TheCopies DEF ClickBanner
<1>2. PICK v \in Authorizing : verb' = [verb EXCEPT ![ui] = v]
  BY DEF ClickBanner, Authorizing
<1>3. /\ verb'[ui] \in Authorizing /\ \A b \in Callers \ {ui} : verb'[b] = verb[b]
      /\ verb' \in [Callers -> AllVerbs]
  BY <1>2, TheCallers, Parts DEF Authorizing, AllVerbs
<1>4. Only(ui) /\ CallerInv(ui)' /\ Told(ui)' = "waits"
  <2>1. \A p \in {"authorize"} : at' = [at EXCEPT ![<<ui, 0>>] = p] =>
          Only(ui) /\ CallerInv(ui)' /\ Told(ui)' = "waits"
    BY <1>1, <1>3, TheCallers, Parts, AskKeeps
  <2> QED  BY <1>1, <2>1
<1>5. Told(ui) # "waits"
  BY <1>1, TheCallers, TheCopies, Parts DEF Busy, Told, First, ToldOf, ControlOK, Words, Errors
<1>6. ErrandStep
  BY <1>1, <1>4, <1>5, TheCallers, Parts, IsAsk
<1>7. ControlOK'
  <2>1. /\ at' \in [Copies -> CliPlaces \cup JobPlaces] /\ result' \in [Copies -> Words]
        /\ prompts' \in [Callers -> Nat] /\ done' \in [Callers -> {"no"} \cup Fates]
    BY <1>1, Parts DEF ControlOK, CliPlaces, Words
  <2> QED  BY <1>1, <1>3, <2>1, Parts DEF ControlOK, constants, world
<1>8. WorkerInv'
  <2>1. /\ verb'[worker] = verb[worker] /\ at'[Thread] = at[Thread] /\ done'[worker] = done[worker]
        /\ at'[Child(Thread)] = at[Child(Thread)] /\ prompts'[worker] = prompts[worker]
        /\ elevated'[Child(Thread)] = elevated[Child(Thread)]
    BY <1>4, TheCallers, TheCopies DEF Only, Untouched
  <2> QED  BY <1>1, <2>1, Parts DEF WorkerInv
<1> QED
  BY <1>4, <1>6, <1>7, <1>8, Parts, Kept DEF GuiInv, Only

\* The window's process ends: both threads leave what they asked for.
LEMMA CloseStep ==
  ASSUME GuiInv, Close
  PROVE  GuiInv' /\ ErrandStep
<1>1. /\ window' = "closed" /\ job' = FALSE /\ sent' = Nothing /\ banner' = FALSE
      /\ disturbed' = FALSE /\ last' = IF job THEN "left" ELSE last
      /\ at' = [at EXCEPT ![<<worker, 0>>] = "idle", ![<<ui, 0>>] = "idle"]
      /\ elevated' = [elevated EXCEPT ![<<worker, 0>>] = FALSE, ![<<ui, 0>>] = FALSE]
      /\ prompts' = [prompts EXCEPT ![worker] = 0, ![ui] = 0]
      /\ result' = [k \in Copies |-> IF k = <<ui, 0>> /\ at[k] # "idle" THEN "left"
                                    ELSE IF k \in {<<worker, 1>>, <<ui, 1>>} THEN "none"
                                    ELSE result[k]]
      /\ UNCHANGED <<constants, world, command, relay, chosen, done>>
  BY TheCopies DEF Close
<1>2. \A b \in Callers, e \in Depths :
        /\ at'[<<b, e>>] = IF b \in {worker, ui} /\ e = 0 THEN "idle" ELSE at[<<b, e>>]
        /\ result'[<<b, e>>] = IF b = ui /\ e = 0 /\ at[<<ui, 0>>] # "idle" THEN "left"
                               ELSE IF b \in {worker, ui} /\ e = 1 THEN "none" ELSE result[<<b, e>>]
        /\ e = 1 => elevated'[<<b, e>>] = elevated[<<b, e>>]
        /\ prompts'[b] = IF b \in {worker, ui} THEN 0 ELSE prompts[b]
        /\ relay'[<<b, e>>] = relay[<<b, e>>]
  <2> SUFFICES ASSUME NEW b \in Callers, NEW e \in Depths
               PROVE  /\ at'[<<b, e>>] = IF b \in {worker, ui} /\ e = 0 THEN "idle"
                                         ELSE at[<<b, e>>]
                      /\ result'[<<b, e>>] =
                           IF b = ui /\ e = 0 /\ at[<<ui, 0>>] # "idle" THEN "left"
                           ELSE IF b \in {worker, ui} /\ e = 1 THEN "none" ELSE result[<<b, e>>]
                      /\ e = 1 => elevated'[<<b, e>>] = elevated[<<b, e>>]
                      /\ prompts'[b] = IF b \in {worker, ui} THEN 0 ELSE prompts[b]
                      /\ relay'[<<b, e>>] = relay[<<b, e>>]
    OBVIOUS
  <2>1. /\ <<b, e>> \in Copies
        /\ \A c, d : <<b, e>> = <<c, d>> <=> b = c /\ e = d
    BY TheCopies
  <2>2. at'[<<b, e>>] = IF b \in {worker, ui} /\ e = 0 THEN "idle" ELSE at[<<b, e>>]
    BY <1>1, <2>1, Parts DEF ControlOK
  <2>3. result'[<<b, e>>] =
          IF b = ui /\ e = 0 /\ at[<<ui, 0>>] # "idle" THEN "left"
          ELSE IF b \in {worker, ui} /\ e = 1 THEN "none" ELSE result[<<b, e>>]
    BY <1>1, <2>1
  <2>4. e = 1 => elevated'[<<b, e>>] = elevated[<<b, e>>]
    BY <1>1, <2>1, Parts DEF ControlOK
  <2>5. prompts'[b] = IF b \in {worker, ui} THEN 0 ELSE prompts[b]
    BY <1>1, Parts DEF ControlOK
  <2>6. relay'[<<b, e>>] = relay[<<b, e>>]
    BY <1>1
  <2> QED  BY <2>2, <2>3, <2>4, <2>5, <2>6
<1>3. /\ verb' = verb /\ done' = done /\ world' = world
      /\ \A b \in Callers : Asks(b)' = Asks(b)
  BY <1>1 DEF Asks, command
<1>4. ASSUME NEW b \in Callers \ {worker, ui}
      PROVE  Untouched(b)
  BY <1>2, <1>3, <1>4, TheCopies DEF Untouched
<1>5. Told(worker)' = IF job THEN "left" ELSE Told(worker)
  BY <1>1, Parts DEF Told, ControlOK
<1>6. /\ at[<<ui, 0>>] # "idle" => Told(ui) = "waits"
      /\ Told(ui)' = IF at[<<ui, 0>>] # "idle" THEN "left" ELSE Told(ui)
  <2>1. /\ at'[<<ui, 0>>] = "idle"
        /\ result'[<<ui, 0>>] = IF at[<<ui, 0>>] # "idle" THEN "left" ELSE result[<<ui, 0>>]
    BY <1>2, TheCallers, TheCopies
  <2> QED  BY <2>1, TheCallers DEF Told, First, ToldOf, Errors
<1>7. ASSUME NEW b \in {worker, ui}
      PROVE  CallerInv(b)'
  <2>0. CallerInv(b) /\ b \in Callers
    BY Parts, TheCallers
  <2>1. \A e \in Depths :
          /\ at'[<<b, e>>] = IF e = 0 THEN "idle" ELSE at[<<b, e>>]
          /\ relay'[<<b, e>>] = relay[<<b, e>>]
          /\ e # 0 => result'[<<b, e>>] = IF e = 1 THEN "none" ELSE result[<<b, e>>]
    BY <1>2, <2>0
  <2>2. ChainInv(b)'
    BY <2>0, <2>1 DEF CallerInv, ChainInv, Good, Acting, Depths
  <2>3. DutyInv(b)'
    <3>1. Told(b)' = Told(b) \/ Told(b)' = "left"
      BY <1>5, <1>6
    <3>2. \A e \in Depths : Pending(at'[<<b, e>>]) => Pending(at[<<b, e>>])
      BY <2>1 DEF Pending, Acting
    <3>3. \A e \in Depths : Good(b, e)' => Good(b, e)
      BY <2>1 DEF Good, Depths
    <3>4. \A e \in Depths : at'[<<b, e>>] \in {"read", "brokerRead"} => done'[b] # "failed"
      BY <1>3, <2>0, <2>1 DEF CallerInv, DutyInv
    <3>5. \A e \in Depths : Pending(at'[<<b, e>>]) => done'[b] = "no"
                                                     /\ Told(b)' \in {"waits", "left", "error"}
      BY <1>3, <2>0, <3>1, <3>2 DEF CallerInv, DutyInv
    <3>6. \A e \in Depths : Good(b, e)' => done'[b] = "ok"
      BY <1>3, <2>0, <3>3 DEF CallerInv, DutyInv
    <3> QED  BY <3>4, <3>5, <3>6 DEF DutyInv
  <2>4. RouteInv(b)'
    BY <1>3, <2>0, <2>1 DEF CallerInv, RouteInv, Depths, JobPlaces
  <2>5. PromptInv(b)'
    <3>1. prompts'[b] = 0
      BY <1>2, <2>0, TheCopies
    <3> QED  BY <3>1 DEF PromptInv, Depths
  <2> QED  BY <2>2, <2>3, <2>4, <2>5 DEF CallerInv
<1>8. ControlOK'
  <2>1. /\ at' \in [Copies -> CliPlaces \cup JobPlaces] /\ result' \in [Copies -> Words]
        /\ elevated' \in [Copies -> BOOLEAN] /\ prompts' \in [Callers -> Nat]
    BY <1>1, Parts DEF ControlOK, CliPlaces, Words
  <2> QED  BY <1>1, <2>1, Parts DEF ControlOK, constants, world, command, Nothing
<1>9. WorkerInv'
  <2>1. /\ at'[<<worker, 0>>] = "idle" /\ at'[<<worker, 1>>] = at[<<worker, 1>>]
        /\ elevated'[<<worker, 1>>] = elevated[<<worker, 1>>] /\ prompts'[worker] = 0
    BY <1>2, TheCallers, TheCopies
  <2>2. ~job /\ last = "list" => done'[worker] = "ok"
    BY <1>3, Parts DEF WorkerInv
  <2>3. verb'[worker] \notin Authorizing \cup {"power"}
    BY <1>3, Parts DEF WorkerInv
  <2>4. at'[<<worker, 1>>] = "escalate" => ~elevated'[<<worker, 1>>]
    BY <2>1, TheCopies, Parts DEF WorkerInv
  <2> QED  BY <1>1, <2>1, <2>2, <2>3, <2>4, TheCopies DEF WorkerInv, Nothing
<1>10. GuiInv'
  BY <1>4, <1>7, <1>8, <1>9, Parts, Kept DEF GuiInv
<1>11. ErrandStep
  <2> DEFINE told == [b \in Callers |-> Told(b)]
             gone == {b \in Callers : (b = worker /\ job) \/ (b = ui /\ at[<<ui, 0>>] # "idle")}
  <2>1. \A b \in gone : told[b] = "waits"
    BY <1>6 DEF Told
  <2>2. told' = [b \in Callers |-> IF b \in gone THEN "left" ELSE told[b]]
    <3>1. \A b \in Callers : Told(b)' = IF b \in gone THEN "left" ELSE Told(b)
      BY <1>4, <1>5, <1>6, TheCallers, Kept
    <3> QED  BY <3>1
  <2>3. [b \in Callers |-> Asks(b)]' = [b \in Callers |-> Asks(b)]
    BY <1>3
  <2>4. E!Leave(gone)
    BY <1>3, <2>1, <2>2, <2>3, WorldLasts DEF E!Leave
  <2> QED  BY <2>4 DEF ErrandStep, E!Next
<1> QED  BY <1>10, <1>11

-----------------------------------------------------------------------------
(* The theorems *)

LEMMA Initially == Init => GuiInv /\ E!Init
<1> SUFFICES ASSUME Init
             PROVE  GuiInv /\ E!Init
  OBVIOUS
<1>1. /\ scene \in Scenes /\ authorized \subseteq {"binary", "grant"}
      /\ verb = [c \in Callers |-> "list"] /\ at = [k \in Copies |-> "idle"]
      /\ elevated = [k \in Copies |-> FALSE] /\ result = [k \in Copies |-> "none"]
      /\ relay = [k \in Copies |-> "absent"] /\ prompts = [c \in Callers |-> 0]
      /\ done = [c \in Callers |-> "no"]
      /\ window = "closed" /\ job = FALSE /\ sent = Nothing /\ banner = FALSE
      /\ last = "none" /\ disturbed = FALSE
  BY DEF Init, CliInit
<1>2. \A c \in Callers, d \in Depths : at[<<c, d>>] = "idle"
  BY <1>1 DEF Copies
<1>3. \A c \in Callers : Told(c) = "none" /\ Asks(c) = "reading"
  BY <1>1, <1>2, TheCopies DEF Told, Asks, ToldOf, First, Errors
<1>4. ControlOK
  BY <1>1 DEF ControlOK, AllVerbs, CliPlaces, Words, Nothing
<1>5. WorkerInv
  BY <1>1, <1>2, TheCallers, TheCopies DEF WorkerInv, Nothing, Authorizing
<1>6. ASSUME NEW c \in Callers
      PROVE  CallerInv(c)
  <2>1. ChainInv(c) /\ DutyInv(c)
    BY <1>2 DEF ChainInv, DutyInv, Good, Acting, Pending, Depths
  <2>2. RouteInv(c) /\ PromptInv(c)
    BY <1>1, <1>2 DEF RouteInv, PromptInv, Acting, Pending, Depths, JobPlaces
  <2> QED  BY <2>1, <2>2 DEF CallerInv
<1>7. E!Init
  BY <1>1, <1>3 DEF E!Init
<1> QED
  BY <1>4, <1>5, <1>6, <1>7 DEF GuiInv

LEMMA CommandStep ==
  ASSUME GuiInv, NEW k \in Copies, Command(k)
  PROVE  GuiInv' /\ ErrandStep
<1>1. PICK c \in Callers, d \in Depths : k = <<c, d>>
  BY DEF Copies
<1>2. <<c, d>> # Thread /\ CopyStep(<<c, d>>) /\ Elsewhere(<<c, d>>)
  BY <1>1 DEF Command
<1> QED
  BY <1>2, DispatchStep, PowerStep, SwitchStep, EscalateStep, AuthorizeStep, CollectStep,
     ChooseStep, BrokerStep DEF CopyStep

LEMMA WindowSteps ==
  ASSUME GuiInv, WindowStep
  PROVE  GuiInv' /\ ErrandStep
<1>1. CASE Launch
  <2>1. PICK e \in BOOLEAN : StartsJob("list", NoSelector, e)
    BY <1>1 DEF Launch
  <2>2. \E v \in JobVerbs : \E s : StartsJob(v, s, e)
    BY <2>1 DEF JobVerbs
  <2>3. window' = "open" /\ banner' = banner /\ banner \in BOOLEAN
    BY <1>1, Parts DEF Launch, ControlOK
  <2> QED  BY <2>2, <2>3, StartsJobStep
<1>2. CASE \E i \in DOMAIN shown : Click(i)
  <2>1. \E v \in JobVerbs : \E s : StartsJob(v, s, elevated[Drawing])
    BY <1>2 DEF Click, JobVerbs
  <2>2. /\ window' = window /\ banner' = banner /\ banner \in BOOLEAN
        /\ window \in {"closed", "open"} /\ elevated[Drawing] \in BOOLEAN
    BY <1>2, TheCallers, TheCopies, Parts DEF Click, ControlOK
  <2> QED  BY <2>1, <2>2, StartsJobStep
<1>3. CASE AskRestart \/ Confirm \/ BannerReturns
  <2>1. /\ UNCHANGED <<cliVars, job, sent, last>> /\ window' = window /\ disturbed' = disturbed
        /\ banner' \in {FALSE, banner}
    BY <1>3 DEF AskRestart, Confirm, BannerReturns
  <2> QED  BY <2>1, Parts, DrawStep DEF ControlOK
<1> QED
  BY <1>1, <1>2, <1>3, PollStep, ClickBannerStep, CloseStep DEF WindowStep

\* Nobody uses the doomed record any more.
LEMMA ReapStep ==
  ASSUME GuiInv, Reap, Elsewhere(Drawing)
  PROVE  GuiInv' /\ ErrandStep
<1>1. /\ UNCHANGED <<constants, machine, command, at, elevated, result, relay, prompts, done>>
      /\ UNCHANGED <<drawn, sent, last>> /\ authorized' = authorized \ {"grant", "doomed"}
      /\ Lasting = authorized \ {"grant", "doomed"}
  BY DEF Reap, Lasting, Elsewhere
<1>2. \A b \in Callers : Untouched(b)
  BY <1>1 DEF Untouched, command, drawn
<1>3. disturbed' \in BOOLEAN
  BY Parts DEF Elsewhere, Disturbs, ControlOK
<1>4. ControlOK' /\ WorkerInv'
  BY <1>1, <1>3, Parts DEF ControlOK, WorkerInv, constants, command, drawn
<1>5. \A b \in Callers : CallerInv(b)' /\ Told(b)' = Told(b) /\ Asks(b)' = Asks(b)
  BY <1>2, Parts, Kept
<1>6. Lasting' = Lasting
  BY <1>1 DEF Lasting, Doomed
<1>7. ErrandStep
  BY <1>1, <1>5, <1>6 DEF ErrandStep, E!vars
<1> QED
  BY <1>4, <1>5, <1>7 DEF GuiInv

LEMMA NextStep ==
  ASSUME GuiInv, [Next]_vars
  PROVE  GuiInv' /\ ErrandStep
<1>1. CASE UNCHANGED vars
  <2>1. /\ UNCHANGED <<cliVars, job, sent, last>> /\ window' = window /\ banner' = banner
        /\ disturbed' = disturbed
    BY <1>1 DEF vars, drawn
  <2> QED  BY <2>1, Parts, DrawStep DEF ControlOK
<1>2. CASE JobStep
  BY <1>2, PerformStep, ApplyStep, AppliedElsewhereStep, ReadStep, BrokerApplyStep, BrokerReadStep
     DEF JobStep
<1>3. CASE \E k \in Copies : (Answer(k) \/ Kill(k)) /\ Elsewhere(k)
  <2>1. PICK c \in Callers, d \in Depths :
          (Answer(<<c, d>>) \/ Kill(<<c, d>>)) /\ Elsewhere(<<c, d>>)
    BY <1>3 DEF Copies
  <2> QED  BY <2>1, AnswerStep, KillStep
<1> QED
  BY <1>1, <1>2, <1>3, WindowSteps, AskStep, CommandStep, ReapStep DEF Next

\* The control of all processes keeps its shape: of the copies of a command only the
\* last one acts, it acts for a command that nobody has carried out, and an Ok that
\* waits to be collected is of one that was, and succeeded.
THEOREM Invariance == Spec => []GuiInv
<1>1. Init => GuiInv
  BY Initially
<1>2. GuiInv /\ [Next]_vars => GuiInv'
  BY NextStep
<1> QED  BY <1>1, <1>2, PTL DEF Spec

\* Every behaviour of the command line and the window is one of Errand: whoever
\* asks, by whichever chain of elevated copies and broker calls, and whatever fails
\* or is killed, the command is carried out at most once, nothing else changes the
\* world, and success is reported only of what was carried out and succeeded.
THEOREM ErrandsKept == Spec => KeepsErrands
<1>1. Init => E!Init
  BY Initially
<1>2. GuiInv /\ [Next]_vars => [E!Next]_(E!vars)
  BY NextStep DEF ErrandStep
<1> QED  BY <1>1, <1>2, Invariance, PTL DEF Spec, KeepsErrands, E!Spec

\* One command shows its user one prompt, but for the authorization's installation,
\* which cannot tell its elevated half from itself, and for the window's half whose
\* first prompt gave no privileges.
THEOREM AskedOnce == Spec => []OneQuestion
<1>1. GuiInv => OneQuestion
  <2> SUFFICES ASSUME GuiInv
               PROVE  OneQuestion
    OBVIOUS
  <2>1. ASSUME NEW u \in Users, prompts[u] > 1, verb[u] \notin {"install", "uninstall"}
        PROVE  FALSE
    <3>1. prompts[u] <= 1 /\ prompts[u] \in Nat
      BY <2>1, TheCallers, Parts DEF CallerInv, PromptInv, ControlOK, Authorizing
    <3> QED  BY <2>1, <3>1
  <2>2. prompts[worker] > 1 => ~elevated[Child(Thread)]
    BY Parts DEF WorkerInv
  <2> QED  BY <2>1, <2>2 DEF OneQuestion
<1> QED  BY <1>1, Invariance, PTL
=============================================================================
