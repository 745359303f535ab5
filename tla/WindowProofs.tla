---------------------------- MODULE WindowProofs ----------------------------
(***************************************************************************)
(* Theorems about what the window shows (Gui), for any users, entries,     *)
(* objects, selectors, scenes and faults.                                  *)
(***************************************************************************)
EXTENDS GuiProofs

-----------------------------------------------------------------------------
(* What the window may see *)

LEMMA ViewStays ==
  ASSUME UNCHANGED <<constants, machine>>, Rights' <=> Rights
  PROVE  View(machine, Rights)' = View(machine, Rights)
<1>1. /\ machine' = machine /\ scene' = scene /\ espOpen' = espOpen
      /\ Windows' = Windows
  BY DEF constants, Windows
<1>2. Rights' = Rights
  BY DEF Rights
<1>3. SeesHive(Rights)' = SeesHive(Rights) /\ SeesVariables(Rights)' = SeesVariables(Rights)
  BY <1>1, <1>2 DEF SeesHive, SeesVariables
<1> QED
  BY <1>1, <1>2, <1>3 DEF View, Listing, SlotOf

-----------------------------------------------------------------------------
(* What a step of a process means to the window *)

\* A step of copy d of caller c leaves the others where they are and the rights of
\* the two threads alone; the worker's thread moves at most from waiting to collect.
Stirs(c, d) ==
  /\ \A b \in Callers \ {c}, e \in Depths : at'[<<b, e>>] = at[<<b, e>>]
  /\ \A b \in Callers \ Users : elevated'[<<b, 0>>] = elevated[<<b, 0>>]
  /\ d > 0 => \/ at'[<<c, 0>>] = at[<<c, 0>>]
              \/ at[<<c, 0>>] = "waiting" /\ at'[<<c, 0>>] = "collect"

LEMMA MoveStirs ==
  ASSUME ControlOK, NEW c \in Callers, NEW d \in Depths, NEW p, Move(<<c, d>>, p)
  PROVE  Stirs(c, d)
<1>1. Moved(c, d, p)
  BY MoveEffect
<1>2. 0 \in Depths /\ (d > 0 => d # 0)
  BY DEF Depths
<1> QED  BY ONLY <1>1, <1>2, c \in Callers, TheCallers DEF Moved, Stirs

LEMMA LeaveStirs ==
  ASSUME ControlOK, NEW c \in Callers, NEW d \in Depths, NEW w, Leave(<<c, d>>, w)
  PROVE  Stirs(c, d)
<1>1. Left(c, d, w)
  BY LeaveEffect
<1>2. 0 \in Depths /\ (d > 0 => d # 0)
  BY DEF Depths
<1> QED  BY ONLY <1>1, <1>2, c \in Callers, TheCallers DEF Left, Stirs

LEMMA ElevateStirs ==
  ASSUME ControlOK, NEW c \in Callers, NEW d \in Depths,
         Prompt(<<c, d>>) \/ \E e0 : Start(<<c, d>>, e0)
  PROVE  Stirs(c, d)
<1>0. 0 \in Depths /\ 0 # d + 1 /\ (d > 0 => d # 0)
  BY DEF Depths
<1>1. CASE Prompt(<<c, d>>)
  <2>1. Prompted(c, d)
    BY <1>1, PromptEffect
  <2> QED  BY ONLY <1>0, <2>1, c \in Callers, TheCallers DEF Prompted, Stirs
<1>2. CASE \E e0 : Start(<<c, d>>, e0)
  <2>1. PICK e0 : Start(<<c, d>>, e0)
    BY <1>2
  <2>2. Started(c, d, e0)
    BY <2>1, StartEffect
  <2> QED  BY ONLY <1>0, <2>2, c \in Callers, TheCallers DEF Started, Stirs
<1> QED  BY <1>1, <1>2

\* The steps of a copy, and what they leave alone.
LEMMA CopyStirs ==
  ASSUME ControlOK, NEW c \in Callers, NEW d \in Depths,
         CopyStep(<<c, d>>) \/ Answer(<<c, d>>) \/ Kill(<<c, d>>)
  PROVE  /\ Stirs(c, d) /\ at[<<c, d>>] # "idle" /\ UNCHANGED constants
         /\ authorized' = authorized \/ at[<<c, d>>] = "authorize"
<1> DEFINE k == <<c, d>>
           Rest == at[k] # "idle" /\ UNCHANGED constants
                     /\ (authorized' = authorized \/ at[k] = "authorize")
<1>l. (\E w : Leave(k, w)) => Stirs(c, d)
  BY LeaveStirs
<1>e. (\E w : Exit(k, w)) => Stirs(c, d)
  BY <1>l DEF Exit
<1>m. (\E p : Move(k, p)) => Stirs(c, d)
  BY MoveStirs
<1>s. Prompt(k) \/ (\E e0 : Start(k, e0)) => Stirs(c, d)
  BY ElevateStirs
<1>f. \A free : Elevate(k, free) => Stirs(c, d)
  BY <1>s DEF Elevate
<1>1. CASE Dispatch(k)
  <2>1. Rest /\ \E p : Move(k, p)
    BY <1>1 DEF Dispatch, world
  <2> QED  BY <1>m, <2>1
<1>2. CASE Power(k) \/ Switch(k) \/ BrokerSet(k) \/ BrokerCall(k)
  <2>1. Rest /\ \E w : Exit(k, w)
    BY <1>2 DEF Power, Switch, BrokerSet, BrokerCall, world
  <2> QED  BY <1>e, <2>1
<1>3. CASE Escalate(k)
  <2>1. Rest /\ ((\E w : Exit(k, w)) \/ \E free : Elevate(k, free))
    BY <1>3 DEF Escalate, world
  <2> QED  BY <1>e, <1>f, <2>1
<1>4. CASE Authorize(k)
  <2>1. Rest /\ ((\E w : Exit(k, w)) \/ \E free : Elevate(k, free))
    BY <1>4 DEF Authorize
  <2> QED  BY <1>e, <1>f, <2>1
<1>5. CASE Collect(k)
  <2>1. Rest /\ \E w : Leave(k, w)
    BY <1>5 DEF Collect, world
  <2> QED  BY <1>l, <2>1
<1>6. CASE Choose(k)
  <2>1. Rest /\ ((\E p : Move(k, p)) \/ \E w : Exit(k, w))
    BY <1>6 DEF Choose, world
  <2> QED  BY <1>m, <1>e, <2>1
<1>7. CASE Kill(k)
  <2>1. Rest /\ \E w : Leave(k, w)
    BY <1>7 DEF Kill, world
  <2> QED  BY <1>l, <2>1
<1>8. CASE Answer(k)
  <2>1. Rest /\ ((\E e0 : Start(k, e0)) \/ (at' = [at EXCEPT ![k] = "collect"] /\ elevated' = elevated))
    BY <1>8 DEF Answer, world
  <2>2. at' = [at EXCEPT ![k] = "collect"] /\ elevated' = elevated => Stirs(c, d)
    BY DEF ControlOK, Copies, Stirs, Depths
  <2> QED  BY <1>s, <2>1, <2>2
<1> QED
  BY <1>1, <1>2, <1>3, <1>4, <1>5, <1>6, <1>7, <1>8 DEF CopyStep

\* An answer to the prompt of the worker's thread.
LEMMA ThreadAnswers ==
  ASSUME ControlOK, Answer(Thread)
  PROVE  at[Thread] = "asking" /\ at'[Thread] \in {"waiting", "collect"}
<1>1. Thread \in Copies /\ Thread # Child(Thread)
  BY TheCallers, TheCopies
<1> QED
  BY <1>1 DEF Answer, Start, ControlOK

\* A step of a copy that is not part of the running job, or leaves the world alone.
LEMMA CopyShown ==
  ASSUME GuiInv, ShownInv, NEW c \in Callers, NEW d \in Depths, Elsewhere(<<c, d>>),
         \/ <<c, d>> # Thread /\ (CopyStep(<<c, d>>) \/ Kill(<<c, d>>))
         \/ Answer(<<c, d>>)
  PROVE  ShownInv'
<1>1. /\ Stirs(c, d) /\ at[<<c, d>>] # "idle" /\ UNCHANGED constants
      /\ authorized' = authorized \/ at[<<c, d>>] = "authorize"
  BY Parts, CopyStirs
<1>2. /\ UNCHANGED <<window, shown, job, sent, last>>
      /\ disturbed' = (disturbed \/ (window = "open" /\ world' # world /\ ~(job /\ c = worker)))
  BY DEF Elsewhere, drawn, Disturbs, Who
<1> SUFFICES ASSUME window = "open"
             PROVE  ShownInv'
  BY <1>2 DEF ShownInv
<1>3. /\ at[Thread] # "idle" => elevated[Thread] = elevated[Drawing]
      /\ at[Thread] \in {"brokerApply", "brokerRead"} => Windows
      /\ sent.kind = "list" => ~Busy(worker)
      /\ ~disturbed =>
           /\ at[Thread] \in {"apply", "read", "asking", "waiting", "collect"} => ~(Windows /\ Installed)
           /\ sent.kind = "list" => sent.list = View(machine, Rights)
           /\ ~job /\ last = "list" => shown = View(machine, Rights)
  BY DEF ShownInv
<1>4. elevated'[Thread] = elevated[Thread] /\ elevated'[Drawing] = elevated[Drawing]
  BY <1>1, TheCallers, TheCopies DEF Stirs
<1>5. \/ at'[Thread] = at[Thread]
      \/ at[Thread] \in {"asking", "waiting"} /\ at'[Thread] \in {"waiting", "collect"}
  <2>1. CASE c # worker
    BY <1>1, <2>1, TheCallers, TheCopies DEF Stirs
  <2>2. CASE c = worker /\ d > 0
    BY <1>1, <2>2, TheCopies DEF Stirs
  <2>3. CASE c = worker /\ d = 0
    BY <2>3, Parts, ThreadAnswers, TheCopies
  <2> QED  BY <2>1, <2>2, <2>3 DEF Depths
<1>6. sent.kind = "list" => c # worker /\ ~Busy(worker)'
  <2>1. sent.kind = "list" => \A e \in Depths : at[<<worker, e>>] = "idle"
    BY <1>3 DEF Busy
  <2>2. sent.kind = "list" => c # worker
    BY <1>1, <2>1
  <2> QED  BY <1>1, <2>1, <2>2, TheCallers DEF Busy, Stirs
<1>7. Windows' = Windows
  BY <1>1 DEF constants, Windows
<1>8. CASE world' = world
  <2>1. Rights' <=> Rights
    BY <1>4, <1>7, <1>8 DEF Rights, Installed, world
  <2>2. View(machine, Rights)' = View(machine, Rights)
    BY <1>1, <1>8, <2>1, ViewStays DEF world
  <2>3. Installed' <=> Installed
    BY <1>8 DEF Installed, world
  <2>4. disturbed' = disturbed
    BY <1>2, <1>8, Parts DEF ControlOK
  <2> QED  BY <1>2, <1>3, <1>4, <1>5, <1>6, <1>7, <2>2, <2>3, <2>4 DEF ShownInv
<1>9. CASE world' # world /\ job /\ c = worker
  <2>1. authorized' = authorized
    BY <1>1, <1>9, Parts, TheCallers DEF CallerInv, RouteInv, WorkerInv
  <2>2. Installed' <=> Installed
    BY <2>1 DEF Installed
  <2>3. disturbed' = disturbed
    BY <1>2, <1>9, Parts DEF ControlOK
  <2> QED  BY <1>2, <1>3, <1>4, <1>5, <1>6, <1>7, <1>9, <2>2, <2>3 DEF ShownInv
<1>10. CASE world' # world /\ ~(job /\ c = worker)
  BY <1>2, <1>3, <1>4, <1>5, <1>6, <1>7, <1>10 DEF ShownInv
<1> QED
  BY <1>8, <1>9, <1>10

-----------------------------------------------------------------------------
(* The steps of a job *)

\* What all of them leave alone.
LEMMA JobParts ==
  ASSUME GuiInv, ShownInv, JobStep
  PROVE  /\ at[Thread] \in JobPlaces \cup {"collect"} /\ job /\ sent.kind = "none" /\ disturbed' = disturbed
         /\ UNCHANGED <<constants, authorized, window, shown, job, last>>
         /\ Windows' = Windows /\ (Installed' <=> Installed)
         /\ window = "open" =>
              /\ elevated[Thread] = elevated[Drawing]
              /\ at[Thread] \in {"brokerApply", "brokerRead"} => Windows
              /\ ~disturbed /\ at[Thread] \in {"apply", "read", "collect"} => ~(Windows /\ Installed)
<1>1. \E p \in JobPlaces \cup {"collect"} : WorkerAt(p) /\ disturbed' = disturbed
  BY DEF JobStep, Perform, Apply, AppliedElsewhere, Read, BrokerApply, BrokerRead, JobPlaces
<1>2. /\ at[Thread] \in JobPlaces \cup {"collect"} /\ disturbed' = disturbed
      /\ UNCHANGED <<constants, authorized, window, shown, job, last>>
  BY <1>1 DEF WorkerAt, drawn
<1>3. Windows' = Windows /\ (Installed' <=> Installed)
  BY <1>2 DEF constants, Windows, Installed
<1>4. at[Thread] # "idle"
  BY <1>2 DEF JobPlaces
<1>5. job /\ sent.kind = "none"
  BY <1>4, Parts DEF WorkerInv
<1> QED
  BY <1>2, <1>3, <1>4, <1>5 DEF ShownInv

\* The thread goes on, or ends without a list.
LEMMA JobGoesOn ==
  ASSUME GuiInv, ShownInv, JobStep, sent'.kind # "list",
         at'[Thread] = "idle" \/ (/\ elevated'[Thread] = elevated[Thread]
                                  /\ elevated'[Drawing] = elevated[Drawing]),
         at'[Thread] \in {"brokerApply", "brokerRead"} => Windows \/ window # "open",
         at'[Thread] \in {"apply", "read", "asking", "waiting", "collect"} =>
           ~(Windows /\ Installed) \/ window # "open" \/ disturbed
  PROVE  ShownInv'
BY JobParts DEF ShownInv

\* A job's thread leaves.
LEMMA SendsEnds ==
  ASSUME GuiInv, NEW answer, Sends(answer)
  PROVE  /\ sent' = answer /\ at'[Thread] = "idle" /\ elevated'[Drawing] = elevated[Drawing]
         /\ \A e \in Depths : at'[<<worker, e>>] = IF e = 0 THEN "idle" ELSE at[<<worker, e>>]
<1>1. Leave(<<worker, 0>>, "none") /\ sent' = answer
  BY TheCopies DEF Sends
<1>2. \A w : Leave(<<worker, 0>>, w) => Left(worker, 0, w)
  BY Parts, LeaveEffect, TheCallers, TheCopies
<1>3. Left(worker, 0, "none")
  BY <1>1, <1>2
<1>4. \A e \in Depths : ~(e + 1 = 0)
  BY DEF Depths
<1> QED
  BY <1>1, <1>3, <1>4, TheCallers, TheCopies DEF Left

LEMMA WorksAt ==
  ASSUME GuiInv, NEW p, Works(p)
  PROVE  /\ sent' = sent /\ at'[Thread] = p
         /\ elevated'[Thread] = elevated[Thread] /\ elevated'[Drawing] = elevated[Drawing]
BY Parts, TheCallers, TheCopies DEF Works, Move, ControlOK

\* The list sent is what the window may see.
LEMMA JobReads ==
  ASSUME GuiInv, ShownInv, JobStep, Read \/ (BrokerRead /\ sent'.kind = "list")
  PROVE  ShownInv'
<1>1. at[Thread] \in {"read", "brokerRead"} /\ machine' = machine
  BY DEF Read, BrokerRead, WorkerAt
<1>2. PICK e \in BOOLEAN :
        /\ Sends(Fresh(View(machine, e)))
        /\ window = "open" /\ ~disturbed => e = Rights
  <2>1. CASE Read
    <3>1. elevated[Thread] \in BOOLEAN /\ elevated[Drawing] \in BOOLEAN
      BY Parts, TheCallers, TheCopies DEF ControlOK
    <3>2. window = "open" /\ ~disturbed => elevated[Thread] = Rights
      <4>1. window = "open" /\ ~disturbed =>
              elevated[Thread] = elevated[Drawing] /\ ~(Windows /\ Installed)
        BY <2>1, JobParts DEF Read, WorkerAt
      <4> QED  BY <3>1, <4>1, Zenon DEF Rights
    <3> QED  BY <2>1, <3>1, <3>2 DEF Read
  <2>2. CASE BrokerRead /\ sent'.kind = "list"
    <3>1. Installed /\ Sends(Fresh(View(machine, TRUE)))
      <4>1. Sends(Said("error")) => sent'.kind = "error"
        BY SendsEnds DEF Said
      <4> QED  BY <2>2, <4>1 DEF BrokerRead
    <3>2. window = "open" => Windows
      BY <2>2, JobParts DEF BrokerRead, WorkerAt
    <3>3. window = "open" => TRUE = Rights
      BY <3>1, <3>2, Zenon DEF Rights
    <3> QED  BY <3>1, <3>3
  <2> QED  BY <2>1, <2>2
<1>3. /\ sent' = Fresh(View(machine, e)) /\ at'[Thread] = "idle"
      /\ elevated'[Drawing] = elevated[Drawing]
      /\ \A f \in Depths : at'[<<worker, f>>] = IF f = 0 THEN "idle" ELSE at[<<worker, f>>]
  <2>1. \A l : Sends(l) => /\ sent' = l /\ at'[Thread] = "idle"
                           /\ elevated'[Drawing] = elevated[Drawing]
                           /\ \A f \in Depths : at'[<<worker, f>>] = IF f = 0 THEN "idle" ELSE at[<<worker, f>>]
    BY SendsEnds
  <2> QED  BY <1>2, <2>1
<1>4. ~Busy(worker)'
  <2>1. \A d, f \in Depths : d < f /\ Acting(at[<<worker, d>>]) => at[<<worker, f>>] = "idle"
    BY TheCallers, Parts DEF CallerInv, ChainInv
  <2>2. Acting(at[<<worker, 0>>]) /\ \A f \in Depths : f # 0 => 0 < f
    BY <1>1, TheCopies DEF Acting, Depths
  <2>3. \A f \in Depths : f # 0 => at[<<worker, f>>] = "idle"
    BY <2>1, <2>2, TheCopies
  <2> QED  BY <1>3, <2>3 DEF Busy
<1>5. window = "open" /\ ~disturbed => sent'.list = View(machine, Rights)'
  <2>1. Rights' <=> Rights
    BY <1>3, JobParts DEF Rights
  <2>2. View(machine, Rights)' = View(machine, Rights)
    BY <1>1, <2>1, JobParts, ViewStays
  <2> QED  BY <1>2, <1>3, <2>2 DEF Fresh
<1> QED
  BY <1>3, <1>4, <1>5, JobParts DEF ShownInv

LEMMA JobShown ==
  ASSUME GuiInv, ShownInv, JobStep
  PROVE  ShownInv'
<1>p. /\ sent.kind = "none" /\ Said("error").kind = "error" /\ Said("gone").kind = "gone"
      /\ "ok" # "panic"
  BY JobParts DEF Said
<1>s. \A a : Sends(a) /\ a.kind # "list" => ShownInv'
  BY SendsEnds, JobGoesOn
<1>w. \A p : /\ Works(p)
             /\ p \in {"brokerApply", "brokerRead"} => Windows \/ window # "open"
             /\ p \in {"apply", "read"} => ~(Windows /\ Installed) \/ window # "open" \/ disturbed
             /\ p \in JobPlaces
             => ShownInv'
  BY <1>p, WorksAt, JobGoesOn DEF JobPlaces
<1>c. \A w : /\ Continues(w, "read") /\ at[Thread] = "apply" => ShownInv'
             /\ Continues(w, "brokerRead") /\ at[Thread] = "brokerApply" => ShownInv'
  BY <1>p, <1>s, <1>w, JobParts DEF Continues, JobPlaces
<1>1. CASE Perform
  <2> DEFINE broker == Windows /\ Installed
  <2>1. CASE broker /\ \E p \in {"brokerRead", "brokerApply"} : Works(p)
    BY <2>1, <1>w DEF JobPlaces
  <2>2. CASE ~broker /\ \E p \in {"read", "apply"} : Works(p)
    BY <2>2, <1>w DEF JobPlaces
  <2>3. CASE ~broker /\ Elevate(Thread, ~Windows /\ Installed) /\ sent' = sent
    <3>1. Prompt(Thread) \/ \E e0 : Start(Thread, e0)
      BY <2>3 DEF Elevate
    <3>2. Stirs(worker, 0)
      BY <3>1, Parts, ElevateStirs, TheCallers, TheCopies
    <3>3. elevated'[Thread] = elevated[Thread] /\ elevated'[Drawing] = elevated[Drawing]
      BY <3>2, TheCallers, TheCopies DEF Stirs
    <3>4. at'[Thread] \in {"waiting", "asking"}
      BY <3>1, Parts, TheCallers, TheCopies DEF Prompt, Start, ControlOK
    <3> QED  BY <1>p, <2>3, <3>3, <3>4, JobGoesOn
  <2> QED  BY <1>1, <2>1, <2>2, <2>3 DEF Perform
<1>2. CASE Apply \/ BrokerApply
  BY <1>2, <1>c DEF Apply, BrokerApply, WorkerAt
<1>3. CASE AppliedElsewhere
  <2>1. CASE Sends(Said("error"))
    BY <1>p, <1>s, <2>1
  <2>2. CASE at' = [at EXCEPT ![Thread] = "read"] /\ UNCHANGED <<elevated, sent>>
    <3>1. at'[Thread] = "read" /\ at[Thread] = "collect"
      BY <1>3, <2>2, Parts, TheCallers, TheCopies DEF ControlOK, AppliedElsewhere, WorkerAt
    <3> QED  BY <1>p, <2>2, <3>1, JobParts, JobGoesOn
  <2> QED  BY <1>3, <2>1, <2>2 DEF AppliedElsewhere
<1>4. CASE Read \/ (BrokerRead /\ sent'.kind = "list")
  BY <1>4, JobReads
<1>5. CASE BrokerRead /\ sent'.kind # "list"
  <2>1. \A l : Sends(Fresh(l)) => sent'.kind = "list"
    BY SendsEnds DEF Fresh
  <2> QED  BY <1>5, <1>p, <1>s, <2>1 DEF BrokerRead
<1> QED
  BY <1>1, <1>2, <1>3, <1>4, <1>5 DEF JobStep

-----------------------------------------------------------------------------
(* The steps of the window *)

\* A new job begins with nothing sent, nothing shown of it and the window's rights.
LEMMA StartShown ==
  ASSUME GuiInv, ShownInv, NEW v, NEW s, NEW e, StartsJob(v, s, e)
  PROVE  ShownInv'
<1>1. /\ at' = [at EXCEPT ![Thread] = "perform"]
      /\ elevated' = [elevated EXCEPT ![Thread] = e, ![Drawing] = e]
      /\ ~job /\ job' = TRUE /\ sent' = sent
  BY DEF StartsJob
<1>2. /\ at'[Thread] = "perform" /\ elevated'[Thread] = elevated'[Drawing]
      /\ sent.kind # "list"
  BY <1>1, Parts, TheCallers, TheCopies DEF ControlOK, WorkerInv
<1> QED
  BY <1>1, <1>2 DEF ShownInv

\* A step that leaves the world, the threads' places and the rights alone.
LEMMA DrawShown ==
  ASSUME GuiInv, ShownInv, UNCHANGED <<constants, world>>,
         UNCHANGED <<window, shown, job, sent, last, disturbed>>,
         elevated'[Thread] = elevated[Thread], elevated'[Drawing] = elevated[Drawing],
         \A e \in Depths : at'[<<worker, e>>] = at[<<worker, e>>]
  PROVE  ShownInv'
<1>1. Windows' = Windows /\ (Installed' <=> Installed) /\ machine' = machine
  BY DEF constants, Windows, Installed, world
<1>2. View(machine, Rights)' = View(machine, Rights)
  BY <1>1, ViewStays DEF Rights
<1>3. at'[Thread] = at[Thread] /\ (Busy(worker)' <=> Busy(worker))
  BY TheCopies DEF Busy
<1> QED
  BY <1>1, <1>2, <1>3 DEF ShownInv

LEMMA WindowShown ==
  ASSUME GuiInv, ShownInv, WindowStep
  PROVE  ShownInv'
<1>1. CASE Launch \/ \E i \in DOMAIN shown : Click(i)
  <2>1. \E v, s, e : StartsJob(v, s, e)
    BY <1>1 DEF Launch, Click
  <2> QED  BY <2>1, StartShown
<1>2. CASE Poll
  <2>1. /\ UNCHANGED <<cliVars, window, disturbed>> /\ job /\ job' = FALSE
        /\ sent' = Nothing /\ last' = sent.kind
        /\ shown' = IF sent.kind = "list" THEN sent.list ELSE shown
    BY <1>2 DEF Poll
  <2>2. /\ UNCHANGED <<constants, machine>> /\ at' = at /\ elevated' = elevated
        /\ authorized' = authorized
    BY <2>1 DEF cliVars, world
  <2>3. Windows' = Windows /\ (Installed' <=> Installed)
    BY <2>2 DEF constants, Windows, Installed
  <2>4. View(machine, Rights)' = View(machine, Rights)
    BY <2>2, <2>3, ViewStays DEF Rights
  <2>5. sent'.kind # "list"
    BY <2>1 DEF Nothing
  <2> QED  BY <2>1, <2>2, <2>3, <2>4, <2>5 DEF ShownInv
<1>3. CASE AskRestart \/ Confirm \/ BannerReturns
  <2>1. UNCHANGED <<cliVars, window, shown, job, sent, last, disturbed>>
    BY <1>3 DEF AskRestart, Confirm, BannerReturns
  <2>2. UNCHANGED <<constants, world>> /\ at' = at /\ elevated' = elevated
    BY <2>1 DEF cliVars
  <2> QED  BY <2>1, <2>2, DrawShown
<1>4. CASE ClickBanner
  <2>1. /\ UNCHANGED <<constants, world>> /\ elevated' = elevated
        /\ UNCHANGED <<window, shown, job, sent, last, disturbed>>
        /\ at' = [at EXCEPT ![<<ui, 0>>] = "authorize"]
    BY <1>4, TheCopies DEF ClickBanner
  <2>2. \A e \in Depths : at'[<<worker, e>>] = at[<<worker, e>>]
    BY <2>1, Parts, TheCallers, TheCopies DEF ControlOK
  <2> QED  BY <2>1, <2>2, DrawShown
<1>5. CASE Close
  BY <1>5 DEF Close, ShownInv
<1> QED
  BY <1>1, <1>2, <1>3, <1>4, <1>5 DEF WindowStep

\* Windows deletes a doomed record: nobody's job.
LEMMA ReapShown ==
  ASSUME GuiInv, ShownInv, Reap, Elsewhere(Drawing)
  PROVE  ShownInv'
<1>1. /\ UNCHANGED <<constants, at, elevated, window, job, sent, last>>
      /\ disturbed' = (disturbed \/ (window = "open" /\ world' # world /\ ~(job /\ ui = worker)))
  BY DEF Reap, Elsewhere, Disturbs, Drawing, Who, drawn
<1>2. world' # world
  <2>1. "doomed" \in authorized /\ "doomed" \notin authorized'
    BY DEF Reap, Doomed, Lasting
  <2> QED  BY <2>1 DEF world
<1>3. disturbed' \/ window' = "closed"
  BY <1>1, <1>2, TheCallers, Parts DEF ControlOK
<1> QED
  BY <1>1, <1>3 DEF ShownInv, Busy, constants, Windows

LEMMA ShownNext ==
  ASSUME GuiInv, ShownInv, [Next]_vars
  PROVE  ShownInv'
<1>1. CASE UNCHANGED vars
  <2>1. /\ UNCHANGED <<constants, world>> /\ at' = at /\ elevated' = elevated
        /\ UNCHANGED <<window, shown, job, sent, last, disturbed>>
    BY <1>1 DEF vars, cliVars, drawn
  <2> QED  BY <2>1, DrawShown
<1>2. CASE \E u \in Users : Ask(u) /\ Elsewhere(First(u))
  <2>1. PICK u \in Users : Ask(u) /\ Elsewhere(<<u, 0>>)
    BY <1>2 DEF First
  <2>2. u \in Callers /\ u # worker /\ u # ui
    BY TheCallers
  <2>3. /\ UNCHANGED <<constants, world>>
        /\ at' = [at EXCEPT ![<<u, 0>>] = "dispatch"]
        /\ \E e \in BOOLEAN : elevated' = [elevated EXCEPT ![<<u, 0>>] = e]
    BY <2>1 DEF Ask, First
  <2>4. /\ elevated'[Thread] = elevated[Thread] /\ elevated'[Drawing] = elevated[Drawing]
        /\ \A e \in Depths : at'[<<worker, e>>] = at[<<worker, e>>]
    BY <2>2, <2>3, Parts, TheCallers, TheCopies DEF ControlOK
  <2>5. /\ UNCHANGED <<window, shown, job, sent, last>> /\ disturbed' = disturbed
    BY <2>1, <2>3, Parts DEF Elsewhere, drawn, Disturbs, ControlOK
  <2> QED  BY <2>3, <2>4, <2>5, DrawShown
<1>3. CASE \E k \in Copies : Command(k) \/ ((Answer(k) \/ Kill(k)) /\ Elsewhere(k))
  <2>1. PICK c \in Callers, d \in Depths :
          Command(<<c, d>>) \/ ((Answer(<<c, d>>) \/ Kill(<<c, d>>)) /\ Elsewhere(<<c, d>>))
    BY <1>3 DEF Copies
  <2>2. Kill(<<c, d>>) => <<c, d>> # Thread
    BY TheCallers, TheCopies DEF Kill, Who
  <2> QED  BY <2>1, <2>2, CopyShown DEF Command
<1> QED
  BY <1>1, <1>2, <1>3, WindowShown, JobShown, ReapShown DEF Next

\* After a job that ended well the window shows what the machine has, as far as the
\* window may see it, until something else changes it (poll, perform).
THEOREM ShownIsTrue == Spec => []ShownIsTruth
<1>1. Init => ShownInv
  <2>1. Init => window = "closed"
    BY DEF Init
  <2> QED  BY <2>1 DEF ShownInv
<1>2. GuiInv /\ ShownInv /\ [Next]_vars => ShownInv'
  BY ShownNext
<1>3. ShownInv => ShownIsTruth
  BY DEF ShownInv, ShownIsTruth, AtRest
<1> QED
  BY <1>1, <1>2, <1>3, Invariance, PTL DEF Spec

=============================================================================
