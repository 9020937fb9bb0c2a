----------------------------- MODULE HilResetProofs -----------------------------
(***************************************************************************)
(* A reset of the test site deletes no object of its baseline and, when it *)
(* reports success, has removed whatever was extra: for every site, every  *)
(* set of baselines and any number of faults and outside changes.          *)
(***************************************************************************)
EXTENDS HilReset, TLAPS

Pending == todo \cup refused
Captured(e) == e.label = "hil_reset"
Held(o) == {e \in state : e.label = "baseline" /\ e.object = o}

DataOK ==
    /\ live \cup drifted \subseteq Object /\ appeared \cup hidden \subseteq Client
    /\ id \in [Object -> Id]
    /\ refs \subseteq Refs
    /\ state \cup capture \subseteq Entry /\ baseline \in Baselines
    /\ todo \cup refused \subseteq Change
CountsOK == faults \in 0..MaxFaults /\ outside \in 0..MaxOutside

\* Only an apply has changes to make, and the file exists only where it is imported.
ControlOK ==
    /\ pc \in {"idle", "plan", "apply", "list", "done", "failed"}
    /\ phase \in {"baseline", "capture", "delete", "verify"}
    /\ capture # {} => phase = "capture" \/ pc = "failed"
    /\ pc # "apply" => Pending = {}
    /\ pc = "list" => phase = "baseline"
    /\ pc = "apply" => phase # "verify"

\* The state has one entry for each object of a baseline, and none from the future.
StateOK ==
    /\ \A e, f \in state : ~Captured(e) /\ ~Captured(f) /\ e.object = f.object => e = f
    /\ \A e \in state : e.id <= id[e.object]
    /\ \A e \in capture : Captured(e)

\* What every commit has in its baseline is never captured; but for clients, whose
\* records come and go, it stays as it was made.
AlwaysOK ==
    /\ \A e \in state \cup capture : Captured(e) => e.object \notin Always
    /\ \A o \in Always \ Client : o \in live /\ id[o] = 1
    /\ \A e \in state : ~Captured(e) /\ e.object \in Always \ Client => e.id = 1

\* What validateResetPlan lets through.
ChangeOK(c) ==
    /\ ~Captured(c.entry) => c.entry.object \in baseline /\ c.action # "delete"
    /\ Captured(c.entry) /\ c.action # "delete" => c.action = "no-op" /\ c.entry \in capture
    /\ c.action = "no-op" => c.importing
    /\ c.action = "delete" =>
          /\ phase \in {"baseline", "delete"} /\ ~c.importing
          /\ c.entry.object \notin Always
          /\ phase = "delete" => c.entry.object \notin baseline
    /\ c.action \notin {"delete", "no-op"} => phase = "baseline"
    /\ phase = "delete" => c.action = "delete"
PendingOK ==
    /\ \A c \in Pending : ChangeOK(c)
    /\ \A c, d \in Pending : ~Captured(c.entry) /\ ~Captured(d.entry)
          /\ c.entry.object = d.entry.object => c = d
    /\ \A c \in todo : ~Captured(c.entry) /\ c.importing => Held(c.entry.object) = {}

\* The baseline is restored: nothing else is tracked, and all of it is.
OnlyBaseline == \A e \in Refreshed : ~Captured(e) /\ e.object \in baseline
AllBaseline == \A o \in baseline \ Client : \E e \in Held(o) : e.id = id[o]
Restoring ==
    /\ \A e \in Refreshed : \/ ~Captured(e) /\ e.object \in baseline
                            \/ \E c \in Pending : c.action = "delete" /\ c.entry = e
    /\ \A o \in baseline \ Client :
          \/ \E e \in Held(o) : e.id = id[o]
          \/ \E c \in Pending : ~Captured(c.entry) /\ c.entry.object = o
BaselineOK ==
    /\ pc = "apply" /\ phase = "baseline" => Restoring
    /\ pc = "list" => OnlyBaseline /\ AllBaseline

\* What the reset still has to remove.
Remains == ((live \cap Extra) \ (baseline \cup Lasting)) \ (appeared \cup hidden)

CaptureOK ==
    ~Resting /\ phase = "capture" =>
        /\ \A e \in capture : e.object \notin baseline
        /\ \A e \in Refreshed : Captured(e) => e.object \notin baseline
        /\ \A o \in Remains : \E e \in capture : e.object = o /\ Known(e)
        /\ pc = "apply" => \A e \in capture : e \in state \/ \E c \in Pending : c.entry = e
DeleteOK ==
    ~Resting /\ phase = "delete" =>
        /\ \A e \in Refreshed : Captured(e) => e.object \notin baseline
        /\ \A o \in Remains :
              IF pc = "apply" THEN \E c \in Pending : c.entry.object = o
              ELSE \E e \in Refreshed : Captured(e) /\ e.object = o
VerifyOK == ~Resting /\ phase = "verify" => Remains = {}

IInv ==
    /\ DataOK /\ CountsOK /\ ControlOK
    /\ StateOK /\ AlwaysOK /\ PendingOK
    /\ BaselineOK /\ CaptureOK /\ DeleteOK /\ VerifyOK

(***************************************************************************)
(* The plan.                                                               *)
(***************************************************************************)

\* What every commit has in its baseline, the checked-out one has.
LEMMA AlwaysInBaseline == baseline \in Baselines => Always \subseteq baseline
<1>1. QED
  BY DEF Always

LEMMA BaselineType ==
  ASSUME baseline \in Baselines
  PROVE  /\ baseline \subseteq Object /\ baseline # {}
         /\ baseline \cap (BuiltIn \cup Lasting) = {}
<1>1. QED
  BY InputAssumption DEF InputAssumption

\* The change planned for a baseline object is of that object.
LEMMA BaselineChangeFacts ==
  ASSUME DataOK, NEW o \in baseline
  PROVE  /\ BaselineChange(o) \in Change
         /\ ~Captured(BaselineChange(o).entry) /\ BaselineChange(o).entry.object = o
         /\ BaselineChange(o).action # "delete"
         /\ BaselineChange(o).importing => Held(o) = {}
         /\ ~Counts(BaselineChange(o)) =>
              o \notin drifted /\ \E e \in Held(o) : e \in Refreshed
<1> DEFINE first == [label |-> "baseline", object |-> o, id |-> 1]
           e == CHOOSE f \in Held(o) : TRUE
           c == BaselineChange(o)
<1>1. o \in Object /\ first \in Entry /\ first.label = "baseline" /\ first.object = o
  BY BaselineType DEF DataOK, Entry, Id
<1>2. Restore(o) \in {"update", "no-op"} /\ (Restore(o) = "no-op" => o \notin drifted)
  BY DEF Restore
<1>3. /\ Held(o) = {f \in state : f.label = "baseline" /\ f.object = o}
      /\ Held(o) \subseteq Entry
  BY DEF Held, DataOK
<1>4. \/ /\ Held(o) \cap Refreshed # {}
         /\ c = [entry |-> e, action |-> Restore(o), importing |-> FALSE]
      \/ Held(o) = {} /\ c = [entry |-> first, action |-> Restore(o), importing |-> TRUE]
      \/ c = [entry |-> first, action |-> "create", importing |-> FALSE]
  BY <1>3 DEF BaselineChange
<1>5. Held(o) # {} => e \in Entry /\ e.label = "baseline" /\ e.object = o
  BY <1>3
<1> HIDE DEF first, e, c
<1>6. CASE /\ Held(o) \cap Refreshed # {}
           /\ c = [entry |-> e, action |-> Restore(o), importing |-> FALSE]
  BY <1>2, <1>5, <1>6 DEF c, Change, Captured, Counts
<1>7. CASE Held(o) = {} /\ c = [entry |-> first, action |-> Restore(o), importing |-> TRUE]
  BY <1>1, <1>2, <1>7 DEF c, Change, Captured, Counts
<1>8. CASE c = [entry |-> first, action |-> "create", importing |-> FALSE]
  BY <1>1, <1>8 DEF c, Change, Captured, Counts
<1>9. QED
  BY <1>4, <1>6, <1>7, <1>8

LEMMA CaptureChangeFacts ==
  ASSUME DataOK, StateOK, NEW e \in capture
  PROVE  /\ CaptureChange(e) \in Change /\ CaptureChange(e).entry = e /\ Captured(e)
         /\ CaptureChange(e).action = "no-op"
         /\ CaptureChange(e).importing = (e \notin Refreshed)
<1>1. QED
  BY DEF DataOK, StateOK, CaptureChange, Change

\* The deletion of a tracked object that has no configuration.
Deletion(e) == [entry |-> e, action |-> "delete", importing |-> FALSE]

LEMMA PlanParts ==
  ASSUME DataOK, NEW c \in Plan
  PROVE  \/ \E o \in baseline : c = BaselineChange(o)
         \/ \E e \in capture : c = CaptureChange(e)
         \/ \E e \in Refreshed \ capture :
              c = Deletion(e) /\ (~Captured(e) => e.object \notin baseline)
<1>1. QED
  BY DEF Plan, Captured, Deletion, DataOK, Entry, Refreshed

LEMMA PlanHas ==
  ASSUME DataOK
  PROVE  /\ \A o \in baseline : BaselineChange(o) \in Plan
         /\ \A e \in capture : CaptureChange(e) \in Plan
         /\ \A e \in Refreshed \ capture :
              Captured(e) \/ e.object \notin baseline => Deletion(e) \in Plan
<1>1. QED
  BY DEF Plan, Captured, Deletion, DataOK, Entry, Refreshed

\* What a plan that validateResetPlan accepts says of the state and of the site.
LEMMA PlanFacts ==
  ASSUME IInv, pc = "plan", BaselineAccepted, \A c \in Plan : Allowed(c)
  PROVE  /\ Plan \subseteq Change
         /\ \A c \in Plan : Counts(c) => ChangeOK(c)
         /\ \A c, d \in Plan : ~Captured(c.entry) /\ ~Captured(d.entry)
              /\ c.entry.object = d.entry.object => c = d
         /\ \A c \in Plan : ~Captured(c.entry) /\ c.importing => Held(c.entry.object) = {}
         /\ \A e \in Refreshed \ capture :
              \/ ~Captured(e) /\ e.object \in baseline
              \/ Deletion(e) \in Plan /\ Counts(Deletion(e))
<1>1. DataOK /\ StateOK
  BY DEF IInv
<1>2. ASSUME NEW o \in baseline
      PROVE  LET c == BaselineChange(o) IN
             /\ c \in Change /\ ~Captured(c.entry) /\ c.entry.object = o
             /\ c.importing => Held(o) = {}
             /\ Counts(c) => ChangeOK(c)
  <2> DEFINE c == BaselineChange(o)
  <2>1. /\ c \in Change /\ ~Captured(c.entry) /\ c.entry.object = o /\ c.action # "delete"
        /\ c.importing => Held(o) = {}
    BY <1>1, BaselineChangeFacts
  <2>2. Allowed(c)
    BY <1>1, PlanHas
  <2> HIDE DEF c
  <2>3. Counts(c) => ChangeOK(c)
    BY <2>1, <2>2 DEF Allowed, Counts, ChangeOK, Captured, Cleanup
  <2>4. QED
    BY <2>1, <2>3 DEF c
<1>3. ASSUME NEW e \in capture
      PROVE  LET c == CaptureChange(e) IN
             /\ c \in Change /\ Captured(c.entry) /\ (Counts(c) => ChangeOK(c))
  <2> DEFINE c == CaptureChange(e)
  <2>1. c \in Change /\ c.entry = e /\ Captured(e) /\ c.action = "no-op"
    BY <1>1, CaptureChangeFacts
  <2>2. Allowed(c)
    BY <1>1, PlanHas
  <2> HIDE DEF c
  <2>3. Counts(c) => ChangeOK(c)
    BY <2>1, <2>2 DEF Allowed, Counts, ChangeOK
  <2>4. QED
    BY <2>1, <2>3 DEF c
<1>4. ASSUME NEW e \in Refreshed \ capture, Deletion(e) \in Plan
      PROVE  LET c == Deletion(e) IN
             /\ c \in Change /\ Captured(c.entry) /\ c.importing = FALSE
             /\ Counts(c) /\ ChangeOK(c)
  <2> DEFINE c == Deletion(e)
  <2>1. /\ c \in Change /\ c.entry = e /\ c.action = "delete" /\ c.importing = FALSE
        /\ e \in state
    BY <1>1 DEF Deletion, DataOK, Change, Refreshed
  <2>2. Allowed(c)
    BY <1>4
  <2> HIDE DEF c
  <2>3. Captured(e) /\ phase \in {"baseline", "delete"}
    BY <2>1, <2>2 DEF Allowed, Cleanup, Captured
  <2>4. e.object \notin Always
    BY <2>1, <2>3 DEF IInv, AlwaysOK
  <2>5. phase = "delete" => e.object \notin baseline
    BY <2>3, <1>4 DEF IInv, DeleteOK, Resting
  <2>6. Counts(c) /\ ChangeOK(c)
    BY <2>1, <2>3, <2>4, <2>5 DEF Counts, ChangeOK
  <2>7. QED
    BY <2>1, <2>3, <2>6 DEF c
<1>5. \A c \in Plan : c \in Change /\ (Counts(c) => ChangeOK(c))
  BY <1>1, <1>2, <1>3, <1>4, PlanParts
<1>6. \A c \in Plan : ~Captured(c.entry) =>
         c.entry.object \in baseline /\ c = BaselineChange(c.entry.object)
  BY <1>1, <1>2, <1>3, <1>4, PlanParts
<1>7. ASSUME NEW e \in Refreshed \ capture
      PROVE  \/ ~Captured(e) /\ e.object \in baseline
             \/ Deletion(e) \in Plan /\ Counts(Deletion(e))
  BY <1>1, <1>4, PlanHas
<1>8. QED
  BY <1>2, <1>5, <1>6, <1>7

(***************************************************************************)
(* Steps that change little.                                               *)
(***************************************************************************)

\* Where a reset does not run there is nothing it still has to do.
LEMMA AtRest ==
  ASSUME Resting', Pending' = {}, DataOK', CountsOK', ControlOK', StateOK', AlwaysOK'
  PROVE  IInv'
<1>1. PendingOK'
  BY DEF PendingOK, Pending
<1>2. BaselineOK' /\ CaptureOK' /\ DeleteOK' /\ VerifyOK'
  BY DEF BaselineOK, CaptureOK, DeleteOK, VerifyOK, Resting
<1>3. QED
  BY <1>1, <1>2 DEF IInv

\* Stopping a run leaves the controller and the state as they are.
LEMMA Stopped ==
  ASSUME IInv, pc' = "failed", Pending' = {}, capture' \subseteq capture, CountsOK',
         UNCHANGED <<controller, state, baseline, phase, seen>>
  PROVE  IInv'
<1>1. Resting'
  BY DEF Resting
<1>2. todo' = {} /\ refused' = {}
  BY DEF Pending
<1>3. DataOK'
  BY <1>2 DEF IInv, DataOK, controller, seen
<1>4. ControlOK'
  BY DEF IInv, ControlOK
<1>5. StateOK'
  BY DEF IInv, StateOK, controller
<1>6. AlwaysOK'
  BY DEF IInv, AlwaysOK, controller
<1>7. QED
  BY <1>1, <1>3, <1>4, <1>5, <1>6, AtRest

LEMMA FailIInv ==
  ASSUME IInv, Fail, UNCHANGED <<controller, state, baseline, seen, faults, outside>>
  PROVE  IInv'
<1>1. pc' = "failed" /\ Pending' = {} /\ capture' \subseteq capture /\ UNCHANGED phase
  BY DEF Fail, Pending
<1>2. CountsOK'
  BY DEF IInv, CountsOK
<1>3. QED
  BY <1>1, <1>2, Stopped

\* A change that was refused stays among those the apply could not make.
LEMMA RefusedIInv ==
  ASSUME IInv, NEW c \in todo, todo' = todo \ {c}, refused' = refused \cup {c}, CountsOK',
         UNCHANGED <<controller, state, baseline, pc, phase, capture, seen>>
  PROVE  IInv'
<1>1. Pending' = Pending
  BY DEF Pending
<1>2. DataOK' /\ ControlOK' /\ StateOK' /\ AlwaysOK'
  BY <1>1 DEF IInv, DataOK, ControlOK, StateOK, AlwaysOK, controller, seen
<1>3. PendingOK'
  BY <1>1 DEF IInv, PendingOK, ChangeOK, Held
<1>4. Refreshed' = Refreshed /\ Remains' = Remains /\ \A o : Held(o)' = Held(o)
  BY DEF Refreshed, Known, Remains, Held, controller, seen
<1>5. BaselineOK' /\ CaptureOK' /\ DeleteOK' /\ VerifyOK'
  BY <1>1, <1>4 DEF IInv, BaselineOK, CaptureOK, DeleteOK, VerifyOK, Restoring, OnlyBaseline,
     AllBaseline, Known, Resting, controller
<1>6. QED
  BY <1>2, <1>3, <1>5 DEF IInv

LEMMA InitIInv == Init => IInv
<1> SUFFICES ASSUME Init PROVE IInv
  OBVIOUS
<1>1. Always \cup Device \cup BuiltIn \subseteq Object
  BY InputAssumption DEF Always, InputAssumption
<1>2. \A o \in Object : id[o] \in {0, 1} /\ (o \in live => id[o] = 1)
  BY DEF Init
<1>3. \A e \in state : e \in Entry /\ e.label = "baseline" /\ e.object \in Always /\ e.id = 1
  BY <1>1 DEF Init, Entry, Id
<1>4. DataOK
  BY <1>1, <1>3 DEF Init, DataOK, Id
<1>5. CountsOK
  BY InputAssumption DEF Init, CountsOK, InputAssumption
<1>6. ControlOK
  BY DEF Init, ControlOK, Pending
<1>7. StateOK
  <2>1. \A e, f \in state : e.object = f.object => e = f
    BY <1>3 DEF Entry
  <2>2. \A e \in state : e.id <= id[e.object]
    BY <1>1, <1>2, <1>3 DEF Init
  <2>3. QED
    BY <2>1, <2>2 DEF Init, StateOK
<1>8. AlwaysOK
  BY <1>1, <1>2, <1>3 DEF Init, AlwaysOK, Captured
<1>9. PendingOK
  BY DEF Init, PendingOK, Pending
<1>10. QED
  BY <1>4, <1>5, <1>6, <1>7, <1>8, <1>9 DEF Init, IInv, BaselineOK, CaptureOK, DeleteOK,
     VerifyOK, Resting

(***************************************************************************)
(* The steps of a reset.                                                   *)
(***************************************************************************)

LEMMA StartIInv == IInv /\ Start => IInv'
<1> SUFFICES ASSUME IInv, Start PROVE IInv'
  OBVIOUS
<1>1. /\ pc' = "plan" /\ phase' = "baseline" /\ capture' = {} /\ Resting
      /\ UNCHANGED <<controller, state, baseline, todo, refused, seen, faults, outside>>
  BY DEF Start, RemoveStale
<1>2. Pending = {}
  BY <1>1 DEF IInv, ControlOK, Resting
<1>3. todo' = {} /\ refused' = {}
  BY <1>1, <1>2 DEF Pending
<1>4. DataOK' /\ CountsOK' /\ ControlOK' /\ StateOK' /\ AlwaysOK'
  BY <1>1, <1>3 DEF IInv, DataOK, CountsOK, ControlOK, StateOK, AlwaysOK, Pending, controller, seen
<1>5. PendingOK'
  BY <1>3 DEF PendingOK, Pending
<1>6. QED
  BY <1>1, <1>4, <1>5 DEF IInv, BaselineOK, CaptureOK, DeleteOK, VerifyOK

\* The next phase begins with the site that the last one left.
LEMMA ProceedIInv ==
  ASSUME IInv, pc \in {"plan", "apply"}, Proceed,
         UNCHANGED <<controller, state, baseline, seen, faults, outside>>,
         phase = "baseline" => OnlyBaseline /\ AllBaseline,
         phase = "capture" => \A e \in capture : Known(e) => e \in Refreshed,
         phase = "delete" => Remains = {}
  PROVE  IInv'
<1>1. todo' = {} /\ refused' = {} /\ Pending' = {}
  BY DEF Proceed, Pending
<1>2. capture' \subseteq capture
  BY DEF Proceed, IInv, ControlOK
<1>3. DataOK' /\ CountsOK' /\ StateOK' /\ AlwaysOK'
  BY <1>1, <1>2 DEF IInv, DataOK, CountsOK, StateOK, AlwaysOK, controller, seen
<1>4. PendingOK'
  BY <1>1 DEF PendingOK
<1>5. Refreshed' = Refreshed /\ Remains' = Remains /\ \A o : Held(o)' = Held(o)
  BY DEF Refreshed, Known, Remains, Held, controller, seen
<1>6. CASE phase = "baseline"
  <2>1. pc' = "list" /\ phase' = phase /\ capture' = capture
    BY <1>6 DEF Proceed
  <2>2. ControlOK'
    BY <1>1, <1>6, <2>1 DEF IInv, ControlOK
  <2>3. OnlyBaseline' /\ AllBaseline'
    BY <1>5, <1>6 DEF OnlyBaseline, AllBaseline, controller
  <2>4. QED
    BY <1>3, <1>4, <1>6, <2>1, <2>2, <2>3 DEF IInv, BaselineOK, CaptureOK, DeleteOK, VerifyOK
<1>7. CASE phase = "capture"
  <2>1. pc' = "plan" /\ phase' = "delete" /\ capture' = {}
    BY <1>7 DEF Proceed
  <2>2. ControlOK'
    BY <1>1, <2>1 DEF ControlOK
  <2>3. /\ \A e \in Refreshed : Captured(e) => e.object \notin baseline
        /\ \A o \in Remains : \E e \in capture : e.object = o /\ Known(e)
        /\ \A e \in capture : Captured(e)
    BY <1>7 DEF IInv, CaptureOK, StateOK, Resting
  <2>4. \A o \in Remains : \E e \in Refreshed : Captured(e) /\ e.object = o
    BY <1>7, <2>3
  <2>5. DeleteOK'
    BY <1>5, <2>1, <2>3, <2>4 DEF DeleteOK
  <2>6. QED
    BY <1>3, <1>4, <2>1, <2>2, <2>5 DEF IInv, BaselineOK, CaptureOK, VerifyOK
<1>8. CASE phase = "delete"
  <2>1. pc' = "plan" /\ phase' = "verify" /\ capture' = capture
    BY <1>8 DEF Proceed
  <2>2. ControlOK'
    BY <1>1, <1>8, <2>1 DEF IInv, ControlOK
  <2>3. QED
    BY <1>3, <1>4, <1>5, <1>8, <2>1, <2>2 DEF IInv, BaselineOK, CaptureOK, DeleteOK, VerifyOK
<1>9. CASE phase = "verify"
  <2>1. pc' = "done" /\ phase' = phase /\ capture' = capture
    BY <1>9 DEF Proceed
  <2>2. Resting' /\ ControlOK'
    BY <1>1, <1>9, <2>1 DEF IInv, ControlOK, Resting
  <2>3. QED
    BY <1>1, <1>3, <2>2, AtRest
<1>10. QED
  BY <1>6, <1>7, <1>8, <1>9 DEF IInv, ControlOK

LEMMA EndApplyIInv == IInv /\ EndApply => IInv'
<1> SUFFICES ASSUME IInv, EndApply PROVE IInv'
  OBVIOUS
<1>1. pc = "apply" /\ UNCHANGED <<controller, state, baseline, seen, faults, outside>>
  BY DEF EndApply
<1>2. CASE Fail
  BY <1>1, <1>2, FailIInv
<1>3. CASE Pending = {} /\ Proceed
  <2>1. phase = "baseline" => OnlyBaseline /\ AllBaseline
    BY <1>1, <1>3 DEF IInv, BaselineOK, Restoring, OnlyBaseline, AllBaseline
  <2>2. phase = "capture" => capture \subseteq state
    BY <1>1, <1>3 DEF IInv, CaptureOK, Resting
  <2>3. phase = "capture" => \A e \in capture : Known(e) => e \in Refreshed
    BY <2>2 DEF Refreshed
  <2>4. phase = "delete" => Remains = {}
    BY <1>1, <1>3 DEF IInv, DeleteOK, Resting
  <2>5. QED
    BY <1>1, <1>3, <2>1, <2>3, <2>4, ProceedIInv
<1>4. QED
  BY <1>2, <1>3 DEF EndApply, Pending

LEMMA MakePlanIInv == IInv /\ MakePlan => IInv'
<1> SUFFICES ASSUME IInv, MakePlan PROVE IInv'
  OBVIOUS
<1>1. pc = "plan" /\ UNCHANGED <<controller, baseline, seen, faults, outside>>
  BY DEF MakePlan
<1>2. CASE Fail /\ UNCHANGED state
  BY <1>1, <1>2, FailIInv
<1>3. ASSUME BaselineAccepted, \A c \in Plan : Allowed(c),
             \/ (\A c \in Plan : ~Counts(c)) /\ Proceed /\ UNCHANGED state
             \/ /\ ~\A c \in Plan : ~Counts(c)
                /\ pc' = "apply" /\ todo' = {c \in Plan : Counts(c)} /\ state' = Refreshed
                /\ UNCHANGED <<phase, capture, refused>>
      PROVE  IInv'
  <2>1. /\ Plan \subseteq Change
        /\ \A c \in Plan : Counts(c) => ChangeOK(c)
        /\ \A c, d \in Plan : ~Captured(c.entry) /\ ~Captured(d.entry)
             /\ c.entry.object = d.entry.object => c = d
        /\ \A c \in Plan : ~Captured(c.entry) /\ c.importing => Held(c.entry.object) = {}
        /\ \A e \in Refreshed \ capture :
             \/ ~Captured(e) /\ e.object \in baseline
             \/ Deletion(e) \in Plan /\ Counts(Deletion(e))
    BY <1>1, <1>3, PlanFacts
  <2>2. \A o \in baseline : \/ \E e \in Held(o) : e \in Refreshed
                            \/ /\ BaselineChange(o) \in Plan /\ Counts(BaselineChange(o))
                               /\ ~Captured(BaselineChange(o).entry)
                               /\ BaselineChange(o).entry.object = o
    BY PlanHas, BaselineChangeFacts DEF IInv
  <2>3. \A e \in capture : \/ e \in Refreshed
                           \/ /\ CaptureChange(e) \in Plan /\ Counts(CaptureChange(e))
                              /\ CaptureChange(e).entry = e
    BY PlanHas, CaptureChangeFacts DEF IInv, Counts
  <2>4. phase \in {"baseline", "delete"} => capture = {}
    BY <1>1 DEF IInv, ControlOK
  <2>5. phase = "delete" => \A o \in Remains : \E e \in Refreshed : Captured(e) /\ e.object = o
    BY <1>1 DEF IInv, DeleteOK, Resting
  <2>6. CASE (\A c \in Plan : ~Counts(c)) /\ Proceed /\ UNCHANGED state
    <3>1. phase = "baseline" => OnlyBaseline /\ AllBaseline
      BY <2>1, <2>2, <2>4, <2>6 DEF OnlyBaseline, AllBaseline, Refreshed, Known, Held
    <3>2. phase = "capture" => \A e \in capture : Known(e) => e \in Refreshed
      BY <2>3, <2>6
    <3>3. phase = "delete" => Remains = {}
      BY <2>1, <2>4, <2>5, <2>6
    <3>4. QED
      BY <1>1, <2>6, <3>1, <3>2, <3>3, ProceedIInv
  <2>7. CASE /\ ~\A c \in Plan : ~Counts(c)
             /\ pc' = "apply" /\ todo' = {c \in Plan : Counts(c)} /\ state' = Refreshed
             /\ UNCHANGED <<phase, capture, refused>>
    <3>1. refused = {} /\ refused' = {} /\ Pending' = todo'
      BY <1>1, <2>7 DEF IInv, ControlOK, Pending
    <3>2. state' \subseteq state /\ Refreshed' = Refreshed
      BY <1>1, <2>7 DEF Refreshed, Known, controller
    <3>3. phase # "verify"
      BY <1>3, <2>7 DEF Allowed, Counts
    <3>4. DataOK'
      BY <1>1, <2>1, <2>7, <3>1, <3>2 DEF IInv, DataOK, controller, seen
    <3>5. CountsOK' /\ ControlOK'
      BY <1>1, <2>7, <3>3 DEF IInv, CountsOK, ControlOK
    <3>6. StateOK' /\ AlwaysOK'
      BY <1>1, <2>7, <3>2 DEF IInv, StateOK, AlwaysOK, controller
    <3>7. PendingOK'
      <4>1. \A c \in Pending' : ChangeOK(c)'
        BY <1>1, <2>1, <2>7, <3>1 DEF ChangeOK
      <4>2. \A o : Held(o)' \subseteq Held(o)
        BY <3>2 DEF Held
      <4>3. QED
        BY <2>1, <2>7, <3>1, <4>1, <4>2 DEF PendingOK
    <3>8. BaselineOK'
      <4>1. SUFFICES ASSUME phase = "baseline" PROVE Restoring'
        BY <2>7 DEF BaselineOK
      <4>2. \A e \in Refreshed : \/ ~Captured(e) /\ e.object \in baseline
                                 \/ \E c \in Pending' : c.action = "delete" /\ c.entry = e
        <5>1. ASSUME NEW e \in Refreshed, Deletion(e) \in Plan, Counts(Deletion(e))
              PROVE  \E c \in Pending' : c.action = "delete" /\ c.entry = e
          <6>1. Deletion(e) \in Pending'
            BY <2>7, <3>1, <5>1
          <6>2. Deletion(e).action = "delete" /\ Deletion(e).entry = e
            BY DEF Deletion
          <6>3. QED
            BY <6>1, <6>2
        <5>2. QED
          BY <2>1, <2>4, <4>1, <5>1
      <4>3. ASSUME NEW o \in baseline
            PROVE  \/ \E e \in Held(o)' : e.id = id[o]
                   \/ \E c \in Pending' : ~Captured(c.entry) /\ c.entry.object = o
        BY <2>2, <2>7, <3>1, <4>3 DEF Held, Refreshed, Known
      <4>4. QED
        BY <1>1, <3>2, <4>2, <4>3 DEF Restoring, controller
    <3>9. Remains' = Remains
      BY <1>1 DEF Remains, controller, seen
    <3>10. CaptureOK'
      <4>1. \A e \in capture : e \in state' \/ \E c \in Pending' : c.entry = e
        BY <2>3, <2>7, <3>1
      <4>2. QED
        BY <1>1, <2>7, <3>2, <3>9, <4>1 DEF IInv, CaptureOK, Known, Resting, controller
    <3>11. DeleteOK'
      <4>1. SUFFICES ASSUME phase = "delete"
                     PROVE  /\ \A e \in Refreshed : Captured(e) => e.object \notin baseline
                            /\ \A o \in Remains : \E c \in Pending' : c.entry.object = o
        BY <1>1, <2>7, <3>2, <3>9 DEF DeleteOK
      <4>2. \A e \in Refreshed : Captured(e) => e.object \notin baseline
        BY <1>1, <4>1 DEF IInv, DeleteOK, Resting
      <4>3. ASSUME NEW o \in Remains PROVE \E c \in Pending' : c.entry.object = o
        <5>1. PICK e \in Refreshed : Captured(e) /\ e.object = o
          BY <2>5, <4>1
        <5>2. Deletion(e) \in todo'
          BY <2>1, <2>4, <2>7, <4>1, <4>2, <5>1
        <5>3. QED
          BY <3>1, <5>1, <5>2 DEF Deletion
      <4>4. QED
        BY <4>2, <4>3
    <3>12. QED
      BY <2>7, <3>3, <3>4, <3>5, <3>6, <3>7, <3>8, <3>10, <3>11 DEF IInv, VerifyOK
  <2>8. QED
    BY <1>3, <2>6, <2>7
<1>4. QED
  BY <1>2, <1>3 DEF MakePlan

LEMMA ListIInv == IInv /\ List => IInv'
<1> SUFFICES ASSUME IInv, List PROVE IInv'
  OBVIOUS
<1> DEFINE found == G!CaptureConfig(G!Generated(live, id, state))
           entries == {[label |-> "hil_reset", object |-> o, id |-> id[o]] : o \in found}
<1>1. /\ pc = "list" /\ appeared' = {}
      /\ hidden' = {e.object : e \in state \ Refreshed} \cap live \cap Client
      /\ UNCHANGED <<controller, state, baseline, faults, outside>>
  BY DEF List
<1>2. /\ phase = "baseline" /\ Pending = {} /\ todo = {} /\ refused = {} /\ capture = {}
      /\ OnlyBaseline /\ AllBaseline
  BY <1>1 DEF IInv, ControlOK, BaselineOK, Pending
<1>3. hidden' \subseteq Client /\ seen' = <<{}, hidden'>>
  BY <1>1 DEF seen
<1>4. CASE Fail
  <2>1. Resting' /\ Pending' = {} /\ todo' = {} /\ refused' = {} /\ capture' = {} /\ phase' = phase
    BY <1>4 DEF Fail, Resting, Pending
  <2>2. DataOK' /\ CountsOK' /\ ControlOK' /\ StateOK' /\ AlwaysOK'
    BY <1>1, <1>3, <1>4, <2>1 DEF Fail, IInv, DataOK, CountsOK, ControlOK, StateOK, AlwaysOK,
       controller
  <2>3. QED
    BY <2>1, <2>2, AtRest
<1>5. ASSUME baseline \subseteq {e.object : e \in {f \in state : f.label = "baseline"}},
             capture' = entries, pc' = "plan",
             phase' = IF found = {} THEN "verify" ELSE "capture",
             UNCHANGED <<todo, refused>>
      PROVE  IInv'
  <2>1. found = {o \in live \ (BuiltIn \cup Device) :
                   ~\E e \in state : e.object = o /\ (e.id = id[o] \/ o \in Client)}
    BY DEF G!CaptureConfig, G!Generated, G!ExcludeManaged, G!Managed
  <2> HIDE DEF found
  <2>2. \A o \in found : o \in Object /\ o \in live /\ id[o] \in Id
    BY <2>1 DEF IInv, DataOK
  <2>3. \A e \in entries : /\ e \in Entry /\ Captured(e) /\ e.object \in found
                           /\ e.id = id[e.object]
    BY <2>2 DEF Entry, Captured
  <2>4. \A o \in found : o \notin baseline
    <3>1. \A o \in baseline \cap Client : o \notin found
      BY <1>5, <2>1
    <3>2. \A o \in baseline \ Client : o \notin found
      BY <1>2, <2>1 DEF AllBaseline, Held
    <3>3. QED
      BY <3>1, <3>2
  <2>5. Pending' = {} /\ Refreshed' = Refreshed
    BY <1>1, <1>2, <1>5 DEF Pending, Refreshed, Known, controller
  <2>6. \A o \in Remains' : o \in found
    <3>1. SUFFICES ASSUME NEW o \in Remains', o \notin found PROVE FALSE
      OBVIOUS
    <3>2. /\ o \in live \ (BuiltIn \cup Device) /\ o \notin baseline
          /\ o \notin hidden'
      BY <1>1, <3>1 DEF Remains, Extra, controller
    <3>3. PICK e \in state : e.object = o /\ (e.id = id[o] \/ o \in Client)
      BY <2>1, <3>1, <3>2
    <3>4. e \notin Refreshed
      BY <1>2, <3>2, <3>3 DEF OnlyBaseline
    <3>5. o \in Client
      BY <3>2, <3>3, <3>4 DEF Refreshed, Known
    <3>6. QED
      BY <1>1, <3>2, <3>3, <3>4, <3>5
  <2>7. \A o \in found : [label |-> "hil_reset", object |-> o, id |-> id[o]] \in entries
    OBVIOUS
  <2> HIDE DEF entries
  <2>8. DataOK'
    BY <1>1, <1>2, <1>3, <1>5, <2>3 DEF IInv, DataOK, controller
  <2>9. CountsOK'
    BY <1>1 DEF IInv, CountsOK
  <2>10. ControlOK'
    <3>1. found = {} => capture' = {}
      BY <1>5, <2>3
    <3>2. QED
      BY <1>5, <2>5, <3>1 DEF ControlOK
  <2>11. StateOK'
    BY <1>1, <1>5, <2>3 DEF IInv, StateOK, controller
  <2>12. AlwaysOK'
    <3>1. \A e \in capture' : e.object \notin Always
      BY <1>5, <2>3, <2>4, AlwaysInBaseline DEF IInv, DataOK
    <3>2. QED
      BY <1>1, <3>1 DEF IInv, AlwaysOK, controller
  <2>13. PendingOK' /\ BaselineOK'
    BY <1>5, <2>5 DEF PendingOK, BaselineOK, Pending
  <2>14. CaptureOK'
    <3>1. \A e \in capture' : e.object \notin baseline'
      BY <1>1, <1>5, <2>3, <2>4
    <3>2. \A e \in Refreshed' : ~Captured(e)
      BY <1>2, <2>5 DEF OnlyBaseline
    <3>3. ASSUME NEW o \in Remains' PROVE \E e \in capture' : e.object = o /\ Known(e)'
      <4>1. PICK e \in capture' : e.object = o /\ e.id = id[o]
        BY <1>5, <2>6, <2>7
      <4>2. Known(e)'
        BY <1>1, <2>2, <2>6, <4>1 DEF Known, controller
      <4>3. QED
        BY <4>1, <4>2
    <3>4. QED
      BY <1>5, <3>1, <3>2, <3>3 DEF CaptureOK
  <2>15. VerifyOK'
    BY <1>5, <2>6 DEF VerifyOK
  <2>16. QED
    BY <1>5, <2>8, <2>9, <2>10, <2>11, <2>12, <2>13, <2>14, <2>15 DEF IInv, DeleteOK
<1>6. QED
  BY <1>4, <1>5 DEF List, Unmanaged

\* Changes of an apply.
LEMMA PendingType ==
  ASSUME IInv, NEW c \in Pending
  PROVE  /\ c \in Change /\ c.entry \in Entry /\ ChangeOK(c)
         /\ c.entry.object \in Object /\ c.entry.id \in Id
<1>1. QED
  BY DEF IInv, DataOK, PendingOK, Pending, Change, Entry

\* What was planned and is not the change that is made is still pending.
LEMMA OthersPending ==
  ASSUME IInv, NEW c \in todo, todo' = todo \ {c}, refused' = refused
  PROVE  /\ Pending' \subseteq Pending /\ \A d \in Pending : d # c => d \in Pending'
         /\ \A d \in todo' : d \in todo /\ d # c
<1>1. QED
  BY DEF Pending

\* A change that is not made keeps its place in the plan.
LEMMA OthersOK ==
  ASSUME IInv, NEW c \in todo, todo' = todo \ {c}, refused' = refused,
         UNCHANGED <<baseline, phase, capture>>,
         \A d \in todo' : ~Captured(d.entry) /\ d.importing =>
             Held(d.entry.object)' \subseteq Held(d.entry.object)
  PROVE  PendingOK'
<1>1. Pending' \subseteq Pending /\ todo' \subseteq todo
  BY OthersPending
<1>2. \A d \in Pending' : ChangeOK(d)'
  BY <1>1 DEF IInv, PendingOK, ChangeOK
<1>3. \A d \in todo' : ~Captured(d.entry) /\ d.importing => Held(d.entry.object)' = {}
  BY <1>1 DEF IInv, PendingOK
<1>4. QED
  BY <1>1, <1>2, <1>3 DEF IInv, PendingOK

\* A deletion takes away an extra object and its entry.
LEMMA RemoveIInv ==
  ASSUME IInv, NEW c \in todo, pc = "apply", c.action = "delete", Remove(c),
         todo' = todo \ {c}, refused' = refused,
         UNCHANGED <<baseline, pc, phase, capture, seen, faults, outside>>
  PROVE  IInv'
<1> DEFINE o == c.entry.object
<1>1. /\ live' = IF o \in Lasting THEN live ELSE live \ {o}
      /\ refs' \subseteq refs /\ state' = state \ {c.entry}
      /\ UNCHANGED <<id, drifted>>
  BY DEF Remove
<1>2. /\ c \in Change /\ ChangeOK(c) /\ c \in Pending
  BY PendingType DEF Pending
<1>3. Captured(c.entry) /\ o \notin Always /\ phase \in {"baseline", "delete"}
  BY <1>2 DEF ChangeOK
<1>4. /\ Pending' \subseteq Pending /\ \A d \in Pending : d # c => d \in Pending'
      /\ todo' \subseteq todo
  BY OthersPending
<1> HIDE DEF o
<1>5. Refreshed' \subseteq Refreshed \ {c.entry}
  BY <1>1 DEF Refreshed, Known
<1>6. \A x : Held(x)' = Held(x)
  BY <1>1, <1>3 DEF Held, Captured
<1>7. DataOK' /\ CountsOK'
  BY <1>1 DEF IInv, DataOK, CountsOK, seen
<1>8. ControlOK'
  BY DEF IInv, ControlOK
<1>9. StateOK'
  BY <1>1 DEF IInv, StateOK
<1>10. AlwaysOK'
  BY <1>1, <1>3 DEF IInv, AlwaysOK
<1>11. PendingOK'
  BY <1>6, OthersOK
<1>12. BaselineOK'
  <2>1. SUFFICES ASSUME Restoring PROVE Restoring'
    BY DEF IInv, BaselineOK
  <2>2. \A e \in Refreshed' : \/ ~Captured(e) /\ e.object \in baseline
                              \/ \E d \in Pending' : d.action = "delete" /\ d.entry = e
    BY <1>4, <1>5, <2>1 DEF Restoring
  <2>3. \A x \in baseline \ Client :
           \/ \E e \in Held(x) : e.id = id[x]
           \/ \E d \in Pending' : ~Captured(d.entry) /\ d.entry.object = x
    BY <1>3, <1>4, <2>1 DEF Restoring
  <2>4. QED
    BY <1>1, <1>6, <2>2, <2>3 DEF Restoring
<1>13. Remains' \subseteq Remains /\ o \notin Remains'
  BY <1>1 DEF Remains, seen
<1>14. DeleteOK'
  <2>1. SUFFICES ASSUME phase = "delete"
                 PROVE  /\ \A e \in Refreshed' : Captured(e) => e.object \notin baseline
                        /\ \A x \in Remains' : \E d \in Pending' : d.entry.object = x
    BY DEF DeleteOK
  <2>2. /\ \A e \in Refreshed : Captured(e) => e.object \notin baseline
        /\ \A x \in Remains : \E d \in Pending : d.entry.object = x
    BY <2>1 DEF IInv, DeleteOK, Resting
  <2>3. QED
    BY <1>4, <1>5, <1>13, <2>2 DEF o
<1>15. QED
  BY <1>3, <1>7, <1>8, <1>9, <1>10, <1>11, <1>12, <1>14 DEF IInv, CaptureOK, VerifyOK

\* A baseline object is written back, in the record it has now.
LEMMA WriteIInv ==
  ASSUME IInv, NEW c \in todo, pc = "apply", c.action \in {"create", "update"}, Write(c),
         todo' = todo \ {c}, refused' = refused,
         UNCHANGED <<baseline, pc, phase, capture, seen, faults, outside>>
  PROVE  IInv'
<1> DEFINE o == c.entry.object
           now == IF o \in live THEN id[o] ELSE id[o] + 1
           new == [c.entry EXCEPT !.id = now]
<1>1. /\ live' = live \cup {o} /\ id' = [id EXCEPT ![o] = now]
      /\ drifted' = drifted \ {o} /\ refs' = refs
      /\ state' = {e \in state : e.label # "baseline" \/ e.object # o} \cup {new}
  BY DEF Write
<1>2. /\ c \in Change /\ ChangeOK(c) /\ c \in Pending /\ c.entry \in Entry /\ o \in Object
  BY PendingType DEF Pending
<1>3. ~Captured(c.entry) /\ o \in baseline /\ phase = "baseline"
  BY <1>2 DEF ChangeOK
<1>4. id \in [Object -> Nat] /\ now \in Nat /\ now >= id[o]
  BY <1>2 DEF IInv, DataOK, Id
<1>5. o \in live => now = id[o]
  OBVIOUS
<1>6. o \notin live => now = id[o] + 1
  OBVIOUS
<1> HIDE DEF now
<1>7. new \in Entry /\ new.object = o /\ new.id = now /\ ~Captured(new)
  BY <1>2, <1>3, <1>4 DEF Entry, Id, Captured, o
<1> HIDE DEF new, o
<1>8. id' \in [Object -> Nat] /\ id'[o] = now /\ \A x \in Object : x # o => id'[x] = id[x]
  BY <1>1, <1>2, <1>4
<1>9. /\ Pending' \subseteq Pending /\ \A d \in Pending : d # c => d \in Pending'
      /\ \A d \in todo' : d \in todo /\ d # c
  BY OthersPending
<1>10. \A e \in state' : \/ e = new
                         \/ e \in state /\ e \in Entry /\ (~Captured(e) => e.object # o)
  <2>1. \A e \in state : e \in Entry /\ (e.label # "baseline" => Captured(e))
    BY DEF IInv, DataOK, Captured, Entry
  <2>2. QED
    BY <1>1, <2>1
<1>11. DataOK' /\ CountsOK'
  BY <1>1, <1>2, <1>7, <1>8, <1>9 DEF IInv, DataOK, CountsOK, Id, seen
<1>12. ControlOK'
  BY DEF IInv, ControlOK
<1>13. StateOK'
  <2>1. \A e, f \in state' : ~Captured(e) /\ ~Captured(f) /\ e.object = f.object => e = f
    BY <1>7, <1>10 DEF IInv, StateOK
  <2>2. ASSUME NEW e \in state' PROVE e.id <= id'[e.object]
    <3>1. CASE e = new
      BY <1>4, <1>7, <1>8, <3>1
    <3>2. CASE e \in state /\ e \in Entry
      <4>1. e.id <= id[e.object] /\ e.object \in Object /\ e.id \in Nat
        BY <3>2 DEF IInv, StateOK, Entry, Id
      <4>2. QED
        BY <1>4, <1>8, <4>1
    <3>3. QED
      BY <1>10, <3>1, <3>2
  <2>3. QED
    BY <2>1, <2>2 DEF IInv, StateOK
<1>14. AlwaysOK'
  <2>1. \A x \in Always \ Client : x \in live /\ id[x] = 1 /\ x \in Object
    BY DEF IInv, AlwaysOK, Always
  <2>2. \A x \in Always \ Client : x \in live' /\ id'[x] = 1
    BY <1>1, <1>5, <1>8, <2>1
  <2>3. \A e \in state' \cup capture' : Captured(e) => e.object \notin Always
    BY <1>7, <1>10 DEF IInv, AlwaysOK
  <2>4. \A e \in state' : ~Captured(e) /\ e.object \in Always \ Client => e.id = 1
    BY <1>5, <1>7, <1>10, <2>1 DEF IInv, AlwaysOK
  <2>5. QED
    BY <2>2, <2>3, <2>4 DEF AlwaysOK
<1>15. \A x : x # o => Held(x)' = Held(x)
  BY <1>1, <1>7 DEF Held
<1>16. PendingOK'
  <2>1. \A d \in todo' : ~Captured(d.entry) => d.entry.object # o
    BY <1>2, <1>3, <1>9 DEF IInv, PendingOK, Pending, o
  <2>2. QED
    BY <1>15, <2>1, OthersOK
<1>17. Restoring'
  <2>1. Restoring
    BY <1>3 DEF IInv, BaselineOK
  <2>2. ASSUME NEW e \in Refreshed'
        PROVE  \/ ~Captured(e) /\ e.object \in baseline
               \/ \E d \in Pending' : d.action = "delete" /\ d.entry = e
    <3>1. CASE e = new
      BY <1>3, <1>7, <3>1
    <3>2. CASE e \in state /\ e \in Entry
      <4>1. e.object \in live' /\ id'[e.object] = e.id
        BY DEF Refreshed, Known
      <4>2. e.id <= id[e.object] /\ e.object \in Object /\ id[o] \in Nat
        BY <1>2, <1>4, <3>2 DEF IInv, StateOK, Entry
      <4>3. e.object = o => o \in live /\ now = id[o]
        BY <1>5, <1>6, <1>8, <4>1, <4>2
      <4>4. e \in Refreshed
        BY <1>1, <1>8, <3>2, <4>1, <4>2, <4>3 DEF Refreshed, Known
      <4>5. QED
        BY <1>9, <2>1, <4>4 DEF Restoring
    <3>3. QED
      BY <1>10, <3>1, <3>2 DEF Refreshed
  <2>3. ASSUME NEW x \in baseline \ Client
        PROVE  \/ \E e \in Held(x)' : e.id = id'[x]
               \/ \E d \in Pending' : ~Captured(d.entry) /\ d.entry.object = x
    <3>1. CASE x = o
      <4>1. new \in Held(o)'
        BY <1>1, <1>7 DEF Held, Captured, Entry
      <4>2. QED
        BY <1>7, <1>8, <3>1, <4>1
    <3>2. CASE x # o
      <4>1. x \in Object
        BY BaselineType DEF IInv, DataOK
      <4>2. id'[x] = id[x] /\ Held(x)' = Held(x)
        BY <1>8, <1>15, <3>2, <4>1
      <4>3. QED
        BY <1>9, <2>1, <3>2, <4>2 DEF Restoring, o
    <3>3. QED
      BY <3>1, <3>2
  <2>4. QED
    BY <2>2, <2>3 DEF Restoring
<1>18. QED
  BY <1>3, <1>11, <1>12, <1>13, <1>14, <1>16, <1>17 DEF IInv, BaselineOK, CaptureOK, DeleteOK,
     VerifyOK

\* An object is imported: it is where the import block says it is.
LEMMA ImportIInv ==
  ASSUME IInv, NEW c \in todo, pc = "apply", c.action = "no-op", Known(c.entry),
         state' = state \cup {c.entry}, todo' = todo \ {c}, refused' = refused,
         UNCHANGED <<controller, baseline, pc, phase, capture, seen, faults, outside>>
  PROVE  IInv'
<1> DEFINE n == c.entry
           o == n.object
<1>1. /\ c \in Change /\ ChangeOK(c) /\ c \in Pending /\ n \in Entry /\ o \in Object
  BY PendingType DEF Pending
<1>2. /\ ~Captured(n) => o \in baseline
      /\ Captured(n) => n \in capture
      /\ c.importing /\ phase # "delete"
  BY <1>1 DEF ChangeOK
<1>3. ~Captured(n) => Held(o) = {}
  BY <1>2 DEF IInv, PendingOK
<1>4. /\ Pending' \subseteq Pending /\ \A d \in Pending : d # c => d \in Pending'
      /\ \A d \in todo' : d \in todo /\ d # c
  BY OthersPending
<1>5. \A d \in Pending : ~Captured(n) /\ ~Captured(d.entry) /\ d # c => d.entry.object # o
  BY <1>1 DEF IInv, PendingOK
<1>6. n.id = id[o] /\ o \in live /\ id[o] \in Nat
  BY <1>1 DEF Known, IInv, DataOK, Id
<1> HIDE DEF n, o
<1>7. state' = state \cup {n} /\ n.object = o
  BY DEF n, o
<1>8. Refreshed' = Refreshed \cup {n} /\ Remains' = Remains
  BY <1>6, <1>7 DEF Refreshed, Known, Remains, controller, seen
<1>9. \A x : /\ Held(x) \subseteq Held(x)'
             /\ x # o \/ Captured(n) => Held(x)' = Held(x)
  BY <1>7 DEF Held, Captured
<1>10. ~Captured(n) => n \in Held(o)'
  BY <1>1, <1>7 DEF Held, Captured, Entry
<1>11. DataOK' /\ CountsOK'
  BY <1>1, <1>4, <1>7 DEF IInv, DataOK, CountsOK, controller, seen
<1>12. ControlOK'
  BY DEF IInv, ControlOK
<1>13. StateOK'
  <2>1. \A e \in state : ~Captured(e) => e.label = "baseline"
    BY DEF IInv, DataOK, Captured, Entry
  <2>2. \A e \in state : ~Captured(n) /\ ~Captured(e) => e.object # o
    BY <1>3, <2>1 DEF Held
  <2>3. \A e, f \in state' : ~Captured(e) /\ ~Captured(f) /\ e.object = f.object => e = f
    BY <1>7, <2>2 DEF IInv, StateOK
  <2>4. \A e \in state' : e.id <= id'[e.object]
    BY <1>6, <1>7 DEF IInv, StateOK, controller
  <2>5. QED
    BY <2>3, <2>4 DEF IInv, StateOK
<1>14. AlwaysOK'
  BY <1>2, <1>6, <1>7 DEF IInv, AlwaysOK, controller
<1>15. PendingOK'
  <2>1. \A d \in todo' : ~Captured(d.entry) => d.entry.object # o \/ Captured(n)
    BY <1>4, <1>5 DEF Pending
  <2>2. QED
    BY <1>9, <2>1, OthersOK
<1>16. BaselineOK'
  <2>1. SUFFICES ASSUME phase = "baseline", Restoring PROVE Restoring'
    BY DEF IInv, BaselineOK, ControlOK
  <2>2. ~Captured(n) /\ o \in baseline
    BY <1>2, <2>1 DEF IInv, ControlOK
  <2>3. \A e \in Refreshed' : \/ ~Captured(e) /\ e.object \in baseline
                              \/ \E d \in Pending' : d.action = "delete" /\ d.entry = e
    BY <1>4, <1>7, <1>8, <2>1, <2>2 DEF Restoring
  <2>4. ASSUME NEW x \in baseline \ Client
        PROVE  \/ \E e \in Held(x)' : e.id = id[x]
               \/ \E d \in Pending' : ~Captured(d.entry) /\ d.entry.object = x
    <3>1. CASE x = o
      BY <1>6, <1>10, <2>2, <3>1
    <3>2. CASE x # o
      BY <1>4, <1>9, <2>1, <3>2 DEF Restoring, n, o
    <3>3. QED
      BY <3>1, <3>2
  <2>5. QED
    BY <2>3, <2>4 DEF Restoring, controller
<1>17. CaptureOK'
  <2>1. SUFFICES ASSUME phase = "capture"
                 PROVE  /\ \A e \in capture : e.object \notin baseline
                        /\ \A e \in Refreshed' : Captured(e) => e.object \notin baseline
                        /\ \A x \in Remains : \E e \in capture : e.object = x /\ Known(e)
                        /\ \A e \in capture : e \in state' \/ \E d \in Pending' : d.entry = e
    BY <1>8 DEF CaptureOK, Known, controller
  <2>2. /\ \A e \in capture : e.object \notin baseline
        /\ \A e \in Refreshed : Captured(e) => e.object \notin baseline
        /\ \A x \in Remains : \E e \in capture : e.object = x /\ Known(e)
        /\ \A e \in capture : e \in state \/ \E d \in Pending : d.entry = e
    BY <2>1 DEF IInv, CaptureOK, Resting
  <2>3. \A e \in Refreshed' : Captured(e) => e.object \notin baseline
    BY <1>2, <1>8, <2>2
  <2>4. \A e \in capture : e \in state' \/ \E d \in Pending' : d.entry = e
    BY <1>4, <1>7, <2>2 DEF n
  <2>5. QED
    BY <2>2, <2>3, <2>4
<1>18. phase # "verify"
  BY DEF IInv, ControlOK
<1>19. QED
  BY <1>2, <1>11, <1>12, <1>13, <1>14, <1>15, <1>16, <1>17, <1>18 DEF IInv, DeleteOK, VerifyOK

LEMMA PerformIInv == ASSUME IInv, NEW c \in todo, Perform(c) PROVE IInv'
<1>1. /\ pc = "apply" /\ todo' = todo \ {c}
      /\ UNCHANGED <<baseline, pc, phase, capture, seen, faults, outside>>
  BY DEF Perform
<1>2. c \in Change /\ ChangeOK(c)
  BY PendingType DEF Pending
<1>3. CASE refused' = refused \cup {c} /\ UNCHANGED <<controller, state>>
  <2>1. CountsOK'
    BY <1>1 DEF IInv, CountsOK
  <2>2. QED
    BY <1>1, <1>3, <2>1, RefusedIInv
<1>4. ASSUME refused' = refused, ~(c.importing /\ ~Known(c.entry)),
             CASE c.action = "delete" -> Remove(c)
               [] c.action \in {"create", "update"} -> Write(c)
               [] c.action = "no-op" -> state' = state \cup {c.entry} /\ UNCHANGED controller
      PROVE  IInv'
  <2>1. CASE c.action = "delete"
    <3>1. Remove(c)
      BY <1>4, <2>1
    <3>2. QED
      BY <1>1, <1>4, <2>1, <3>1, RemoveIInv
  <2>2. CASE c.action \in {"create", "update"}
    <3>1. Write(c)
      BY <1>4, <2>2
    <3>2. QED
      BY <1>1, <1>4, <2>2, <3>1, WriteIInv
  <2>3. CASE c.action = "no-op"
    <3>1. state' = state \cup {c.entry} /\ UNCHANGED controller
      BY <1>4, <2>3
    <3>2. Known(c.entry)
      BY <1>2, <1>4, <2>3 DEF ChangeOK
    <3>3. QED
      BY <1>1, <1>4, <2>3, <3>1, <3>2, ImportIInv
  <2>4. QED
    BY <1>2, <2>1, <2>2, <2>3 DEF Change
<1>5. QED
  BY <1>3, <1>4 DEF Perform

(***************************************************************************)
(* Faults, and what happens outside.                                       *)
(***************************************************************************)

LEMMA InterruptIInv == IInv /\ Interrupt => IInv'
<1> SUFFICES ASSUME IInv, Interrupt PROVE IInv'
  OBVIOUS
<1>1. pc' = "failed" /\ Pending' = {} /\ capture' = capture
  BY DEF Interrupt, Pending
<1>2. CountsOK'
  BY InputAssumption DEF IInv, CountsOK, Interrupt, InputAssumption
<1>3. QED
  BY <1>1, <1>2, Stopped DEF Interrupt

LEMMA RequestFailsIInv == ASSUME IInv, NEW c \in todo, RequestFails(c) PROVE IInv'
<1>1. CountsOK'
  BY InputAssumption DEF IInv, CountsOK, RequestFails, InputAssumption
<1>2. QED
  BY <1>1, RefusedIInv DEF RequestFails

LEMMA OutsideCounts ==
  ASSUME IInv, Outside, UNCHANGED faults
  PROVE  CountsOK'
<1>1. QED
  BY InputAssumption DEF IInv, CountsOK, Outside, InputAssumption

\* What happens between two resets: records come and go, but not those of the baseline
\* that are no clients; another commit brings another baseline.
LEMMA BetweenResets ==
  ASSUME IInv, Resting, CountsOK', UNCHANGED <<state, run, seen>>,
         live' \cup drifted' \subseteq Object, id' \in [Object -> Nat], refs' \subseteq Refs,
         baseline' \in Baselines,
         \A o \in Object : id[o] <= id'[o],
         \A o \in Always \ Client : o \in live' /\ id'[o] = id[o]
  PROVE  IInv'
<1>1. Pending' = {} /\ Resting' /\ UNCHANGED <<pc, phase, todo, refused, capture>>
  BY DEF IInv, ControlOK, Pending, Resting, run
<1>2. DataOK'
  BY <1>1 DEF IInv, DataOK, Id, seen
<1>3. ControlOK'
  BY <1>1 DEF IInv, ControlOK
<1>4. ASSUME NEW e \in state PROVE e.id <= id'[e.object]
  <2>1. e.object \in Object /\ e.id \in Nat /\ e.id <= id[e.object]
    BY DEF IInv, DataOK, StateOK, Entry, Id
  <2>2. id[e.object] \in Nat /\ id'[e.object] \in Nat
    BY <2>1 DEF IInv, DataOK, Id
  <2>3. QED
    BY <2>1, <2>2
<1>5. StateOK'
  BY <1>1, <1>4 DEF IInv, StateOK
<1>6. AlwaysOK'
  BY <1>1 DEF IInv, AlwaysOK
<1>7. QED
  BY <1>1, <1>2, <1>3, <1>5, <1>6, AtRest

LEMMA BetweenIInv ==
  ASSUME IInv,
         \/ CleanupClients
         \/ \E o \in Object : Leftover(o) \/ Drift(o)
         \/ \E B \in Baselines : Checkout(B)
  PROVE  IInv'
<1>1. /\ live \cup drifted \subseteq Object /\ id \in [Object -> Nat] /\ refs \subseteq Refs
      /\ baseline \in Baselines /\ \A o \in Object : id[o] <= id[o]
  BY DEF IInv, DataOK, Id
<1>2. \A o \in Always \ Client : o \in live
  BY DEF IInv, AlwaysOK
<1>3. CASE CleanupClients
  <2>1. Resting /\ Outside /\ UNCHANGED <<id, refs, drifted, state, baseline, run, seen, faults>>
    BY <1>3 DEF CleanupClients
  <2>2. live' \subseteq live /\ \A o \in live : o \notin Client => o \in live'
    BY <1>3, InputAssumption DEF CleanupClients, InputAssumption
  <2>3. QED
    BY <1>1, <1>2, <2>1, <2>2, OutsideCounts, BetweenResets
<1>4. ASSUME NEW o \in Object, Leftover(o) PROVE IInv'
  <2>1. /\ Resting /\ Outside /\ UNCHANGED <<drifted, state, baseline, run, seen, faults>>
        /\ o \notin Always /\ live' = live \cup {o} /\ id' = [id EXCEPT ![o] = id[o] + 1]
        /\ refs' \subseteq Refs
    BY <1>1, <1>4 DEF Leftover, Extra
  <2>2. /\ id' \in [Object -> Nat] /\ \A x \in Object : id[x] <= id'[x]
        /\ \A x \in Object : x # o => id'[x] = id[x]
    BY <1>1, <2>1
  <2>3. \A x \in Always \ Client : x \in live' /\ id'[x] = id[x]
    BY <1>2, <2>1, <2>2 DEF Always
  <2>4. QED
    BY <1>1, <2>1, <2>2, <2>3, OutsideCounts, BetweenResets
<1>5. ASSUME NEW o \in Object, Drift(o) PROVE IInv'
  BY <1>1, <1>2, <1>5, OutsideCounts, BetweenResets DEF Drift
<1>6. ASSUME NEW B \in Baselines, Checkout(B) PROVE IInv'
  BY <1>1, <1>2, <1>6, OutsideCounts, BetweenResets DEF Checkout, controller
<1>7. QED
  BY <1>3, <1>4, <1>5, <1>6

\* A client record that goes or comes takes away what a reset sees and adds nothing to it.
LEMMA ClientsIInv ==
  ASSUME IInv, NEW o \in Object, DropRecord(o) \/ Connect(o)
  PROVE  IInv'
<1>1. /\ Outside /\ o \in Client
      /\ UNCHANGED <<refs, drifted, state, baseline, run, hidden, faults>>
  BY DEF DropRecord, Connect, seen
<1>2. \/ live' = live \ {o} /\ UNCHANGED <<id, appeared>>
      \/ /\ o \notin live /\ live' = live \cup {o} /\ id' = [id EXCEPT ![o] = id[o] + 1]
         /\ appeared' = appeared \cup {o}
  BY DEF DropRecord, Connect, seen
<1>3. UNCHANGED <<pc, phase, todo, refused, capture>> /\ Pending' = Pending
  BY <1>1 DEF run, Pending
<1>4. id \in [Object -> Nat]
  BY DEF IInv, DataOK, Id
<1>5. /\ id' \in [Object -> Nat] /\ \A x \in Object : id[x] <= id'[x]
      /\ \A x \in Object : x # o => id'[x] = id[x]
  BY <1>2, <1>4
<1>6. \A x : x # o => (x \in live' <=> x \in live)
  BY <1>2
<1>7. ASSUME NEW e \in state, Known(e)' PROVE Known(e)
  <2>1. e.object \in Object /\ e.id \in Nat /\ e.id <= id[e.object]
    BY DEF IInv, DataOK, StateOK, Entry, Id
  <2>2. e.object \in live' /\ id'[e.object] = e.id
    BY <1>7 DEF Known
  <2>3. CASE e.object # o
    BY <1>5, <1>6, <2>1, <2>2, <2>3 DEF Known
  <2>4. CASE e.object = o
    <3>1. o \in live' /\ id'[o] <= id[o] /\ id[o] \in Nat
      BY <1>4, <2>1, <2>2, <2>4
    <3>2. o \in live /\ UNCHANGED id
      BY <1>2, <1>4, <3>1
    <3>3. QED
      BY <2>2, <2>4, <3>2 DEF Known
  <2>5. QED
    BY <2>3, <2>4
<1>8. Refreshed' \subseteq Refreshed /\ \A x : Held(x)' = Held(x)
  BY <1>1, <1>7 DEF Refreshed, Held
<1>9. Remains' \subseteq Remains /\ o \notin Remains'
  BY <1>1, <1>2 DEF Remains
<1>10. \A e : e.object \in Remains' /\ Known(e) => Known(e)'
  BY <1>5, <1>6, <1>9 DEF Known, IInv, DataOK, Remains
<1>11. DataOK'
  BY <1>1, <1>2, <1>3, <1>5 DEF IInv, DataOK, Id
<1>12. CountsOK'
  BY <1>1, OutsideCounts
<1>13. ControlOK'
  BY <1>3 DEF IInv, ControlOK
<1>14. StateOK'
  <2>1. ASSUME NEW e \in state PROVE e.id <= id'[e.object]
    <3>1. e.object \in Object /\ e.id \in Nat /\ e.id <= id[e.object]
      BY DEF IInv, DataOK, StateOK, Entry, Id
    <3>2. QED
      BY <1>4, <1>5, <3>1
  <2>2. QED
    BY <1>1, <1>3, <2>1 DEF IInv, StateOK
<1>15. AlwaysOK'
  <2>1. \A x \in Always \ Client : x # o /\ x \in Object
    BY <1>1 DEF Always
  <2>2. QED
    BY <1>1, <1>3, <1>5, <1>6, <2>1 DEF IInv, AlwaysOK
<1>16. PendingOK'
  BY <1>1, <1>3, <1>8 DEF IInv, PendingOK, ChangeOK
<1>17. baseline' = baseline /\ \A x \in baseline \ Client : id'[x] = id[x]
  BY <1>1, <1>5, BaselineType DEF IInv, DataOK
<1>18. BaselineOK'
  BY <1>3, <1>8, <1>17 DEF IInv, BaselineOK, Restoring, OnlyBaseline, AllBaseline
<1>19. CaptureOK'
  <2>1. SUFFICES ASSUME ~Resting, phase = "capture"
                 PROVE  /\ \A e \in capture : e.object \notin baseline
                        /\ \A e \in Refreshed' : Captured(e) => e.object \notin baseline
                        /\ \A x \in Remains' : \E e \in capture : e.object = x /\ Known(e)'
                        /\ pc = "apply" => \A e \in capture : e \in state \/
                                               \E d \in Pending : d.entry = e
    BY <1>1, <1>3 DEF CaptureOK, Resting
  <2>2. \A x \in Remains' : \E e \in capture : e.object = x /\ Known(e)
    BY <1>9, <2>1 DEF IInv, CaptureOK
  <2>3. QED
    BY <1>8, <1>10, <2>1, <2>2 DEF IInv, CaptureOK
<1>20. DeleteOK'
  <2>1. SUFFICES ASSUME ~Resting, phase = "delete"
                 PROVE  /\ \A e \in Refreshed' : Captured(e) => e.object \notin baseline
                        /\ \A x \in Remains' :
                              IF pc = "apply" THEN \E c \in Pending : c.entry.object = x
                              ELSE \E e \in Refreshed' : Captured(e) /\ e.object = x
    BY <1>1, <1>3 DEF DeleteOK, Resting
  <2>2. /\ \A e \in Refreshed : Captured(e) => e.object \notin baseline
        /\ \A x \in Remains' :
              IF pc = "apply" THEN \E c \in Pending : c.entry.object = x
              ELSE \E e \in Refreshed : Captured(e) /\ e.object = x
    BY <1>9, <2>1 DEF IInv, DeleteOK
  <2>3. \A e \in Refreshed : e.object \in Remains' => e \in Refreshed'
    BY <1>1, <1>10 DEF Refreshed
  <2>4. QED
    BY <1>8, <2>2, <2>3
<1>21. VerifyOK'
  BY <1>3, <1>9 DEF IInv, VerifyOK, Resting
<1>22. QED
  BY <1>11, <1>12, <1>13, <1>14, <1>15, <1>16, <1>18, <1>19, <1>20, <1>21 DEF IInv

LEMMA StepIInv == IInv /\ [Next]_vars => IInv'
<1> SUFFICES ASSUME IInv, [Next]_vars PROVE IInv'
  OBVIOUS
<1>1. CASE UNCHANGED vars
  <2>1. UNCHANGED <<live, id, refs, drifted, state, baseline, pc, phase, todo, refused, capture,
                    appeared, hidden, faults, outside>>
    BY <1>1 DEF vars, controller, run, seen
  <2>2. DataOK' /\ CountsOK' /\ ControlOK' /\ StateOK' /\ AlwaysOK'
    BY <2>1 DEF IInv, DataOK, CountsOK, ControlOK, StateOK, AlwaysOK, Pending
  <2>3. /\ Pending' = Pending /\ Refreshed' = Refreshed /\ Remains' = Remains
        /\ \A o : Held(o)' = Held(o)
    BY <2>1 DEF Pending, Refreshed, Known, Remains, Held
  <2>4. PendingOK'
    BY <2>1, <2>3 DEF IInv, PendingOK, ChangeOK
  <2>5. BaselineOK' /\ CaptureOK' /\ DeleteOK' /\ VerifyOK'
    BY <2>1, <2>3 DEF IInv, BaselineOK, CaptureOK, DeleteOK, VerifyOK, Restoring, OnlyBaseline,
       AllBaseline, Known, Resting
  <2>6. QED
    BY <2>2, <2>4, <2>5 DEF IInv
<1>2. ASSUME NEW c \in todo, Perform(c) \/ RequestFails(c) PROVE IInv'
  BY <1>2, PerformIInv, RequestFailsIInv
<1>3. ASSUME NEW o \in Object, Leftover(o) \/ Drift(o) \/ DropRecord(o) \/ Connect(o)
      PROVE  IInv'
  BY <1>3, BetweenIInv, ClientsIInv
<1>4. ASSUME NEW B \in Baselines, Checkout(B) PROVE IInv'
  BY <1>4, BetweenIInv
<1>5. CASE CleanupClients
  BY <1>5, BetweenIInv
<1>6. QED
  BY <1>1, <1>2, <1>3, <1>4, <1>5, StartIInv, MakePlanIInv, EndApplyIInv, ListIInv,
     InterruptIInv DEF Next

(***************************************************************************)
(* What the reset promises.                                                *)
(***************************************************************************)

\* The strengthened invariant holds in every reachable state.
THEOREM Invariance == Spec => []IInv
<1>1. QED
  BY InitIInv, StepIInv, PTL DEF Spec

\* Every variable keeps its type, and the state has one entry for each baseline object.
THEOREM TypeCorrect == Spec => []TypeOK
<1>1. ASSUME IInv PROVE TypeOK
  <2>1. \A e, f \in state : e.label = "baseline" /\ f.label = "baseline"
           /\ e.object = f.object => e = f
    BY <1>1 DEF IInv, StateOK, Captured
  <2>2. QED
    BY <1>1, <2>1 DEF TypeOK, IInv, DataOK, CountsOK, ControlOK
<1>2. QED
  BY <1>1, Invariance, PTL

\* Whatever baselines the commits have and however often a reset is cut short and tried
\* again, no apply deletes an object of the baseline it restores, but for one that a
\* commit without it captured.  (validateResetPlan, ExcludeManaged)
THEOREM OnlyExtrasDeleted == Spec => []DeletesOnlyExtras
<1>1. IInv => DeletesOnlyExtras
  BY DEF IInv, PendingOK, ChangeOK, Pending, DeletesOnlyExtras
<1>2. QED
  BY <1>1, Invariance, PTL

\* A reset reports success only where the baseline is restored and nothing extra is left
\* of what it listed, however many faults there were before and during it.
\* (runReset, applyPlan, captureConfig)
THEOREM SuccessIsReset == Spec => SuccessMeansReset
<1> DEFINE Restored ==
             /\ \A o \in baseline : o \notin drifted
                   /\ \E e \in Refreshed : e.label = "baseline" /\ e.object = o
             /\ (live \cap Extra) \ (baseline \cup Lasting) \subseteq appeared \cup hidden
<1>1. ASSUME IInv, [Next]_vars, pc # "done", pc' = "done" PROVE Restored
  <2>1. Proceed => phase = "verify" \/ phase \notin {"baseline", "capture", "delete", "verify"}
    BY <1>1 DEF Proceed
  <2>2. Proceed => phase = "verify"
    BY <1>1, <2>1 DEF IInv, ControlOK
  <2>3. ~EndApply
    BY <1>1, <2>2 DEF EndApply, Fail, IInv, ControlOK
  <2>4. MakePlan
    BY <1>1, <2>3 DEF Next, Start, List, Fail, Interrupt, CleanupClients, Perform, RequestFails,
       Leftover, Drift, DropRecord, Connect, Checkout, vars, run
  <2>5. pc = "plan" /\ (\A c \in Plan : ~Counts(c)) /\ Proceed
    BY <1>1, <2>4 DEF MakePlan, Fail
  <2>6. \A o \in baseline : o \notin drifted /\ \E e \in Held(o) : e \in Refreshed
    BY <1>1, <2>5, PlanHas, BaselineChangeFacts DEF IInv
  <2>7. Remains = {}
    BY <1>1, <2>2, <2>5 DEF IInv, VerifyOK, Resting
  <2>8. QED
    BY <2>6, <2>7 DEF Held, Remains
<1>2. IInv /\ [Next]_vars => [pc # "done" /\ pc' = "done" => Restored]_vars
  BY <1>1
<1>3. QED
  BY <1>2, Invariance, PTL DEF Spec, SuccessMeansReset
=============================================================================
