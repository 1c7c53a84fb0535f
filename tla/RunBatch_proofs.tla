-------------------------- MODULE RunBatch_proofs --------------------------
(***************************************************************************)
(* Proofs about run_batch(), for batches of any length, waves of any size  *)
(* and any order in which the runs end; and about the page that sweeps     *)
(* parameters through it, for any strategies, ranges, metrics and weights. *)
(* The page has variables of its own: nothing but the promise of           *)
(* run_batch() connects the two.                                           *)
(***************************************************************************)
EXTENDS RunBatch, Sweep, FiniteSetTheorems, SequenceTheorems, WellFoundedInduction, TLAPS

-----------------------------------------------------------------------------
(* The inductive invariant *)

\* The results are those of the first configurations, in order; those runs
\* ended well, and what was launched besides them is within the wave.
WavesInOrder ==
    /\ start <= Len(results)
    /\ Len(results) <= launched
    /\ launched <= WaveEnd
    /\ \A k \in 1 .. Len(results) : results[k] = k
    /\ \A i \in Index : i <= Len(results) => job[i] = "ready"
    /\ \A i \in Index : job[i] = "none" <=> i > launched

\* What the calling thread has established by the time it is where it is.
PhaseInv ==
    /\ pc \in {"validate", "warm"} => launched = 0
    /\ pc = "warm" => configs # <<>>
    /\ pc = "launch" => launched < WaveEnd
    /\ (pc \in {"warm", "launch", "collect", "unwind"} \/ launched > 0) => NamesKnown
    /\ (pc \in {"launch", "collect", "unwind"} \/ launched > 0) => warm = NeedsProto
    /\ pc = "returned" => Len(results) = Len(configs)
    /\ pc \in {"returned", "threw"} => \A i \in Index : job[i] # "running"

Inv == TypeOK /\ WavesInOrder /\ PhaseInv

\* The size of a batch is a number.
LEMMA BatchLength ==
  ASSUME NEW b \in Batches
  PROVE  Len(b) \in Nat /\ (b # <<>> => Len(b) > 0)
<1>1. b \in Seq(BacktestConfig)
  BY BatchAssumption
<1> QED
  BY <1>1

\* A wave has at least one run.
LEMMA WavesPositive == WaveSizes \subseteq Nat \ {0}
BY BatchAssumption DEF WaveSizes

\* The invariant holds when run_batch() is called.
LEMMA InitInv == Init => Inv
<1> SUFFICES ASSUME Init PROVE Inv
  OBVIOUS
<1>1. Len(configs) \in Nat /\ hw \in Nat \ {0}
  BY BatchLength, WavesPositive DEF Init
<1>2. TypeOK
  <2>1. 0 \in 0 .. Len(configs) /\ 0 \in 0 .. 0 /\ results \in Seq(1 .. 0)
    BY <1>1, EmptySeq DEF Init
  <2> QED
    BY <1>1, <2>1 DEF Init, TypeOK
<1>3. WavesInOrder
  <2>1. WaveEnd \in Nat
    BY <1>1 DEF WaveEnd, Init
  <2> QED
    BY <1>1, <2>1 DEF Init, WavesInOrder, Index
<1>4. PhaseInv
  BY DEF Init, PhaseInv
<1> QED
  BY <1>2, <1>3, <1>4 DEF Inv

\* The range of the counters, for the arithmetic.
LEMMA Counters ==
  ASSUME Inv
  PROVE  /\ Len(configs) \in Nat /\ hw \in Nat \ {0}
         /\ start \in Nat /\ launched \in Nat /\ launched <= Len(configs)
         /\ Len(results) \in Nat
         /\ start <= Len(results) /\ Len(results) <= launched
         /\ WaveEnd \in Nat /\ WaveEnd <= Len(configs) /\ WaveEnd <= start + hw
         /\ launched <= WaveEnd
<1>1. Len(configs) \in Nat
  BY BatchLength DEF Inv, TypeOK
<1>2. Len(results) \in Nat
  BY DEF Inv, TypeOK
<1> QED
  BY <1>1, <1>2 DEF Inv, TypeOK, WavesInOrder, WaveEnd

-----------------------------------------------------------------------------
(* The steps of the calling thread *)

\* Validating the names of the batch keeps the invariant.
LEMMA ValidateInv ==
  ASSUME Inv, Validate
  PROVE  Inv'
<1>1. pc = "validate" /\ UNCHANGED <<configs, hw, warm, start, launched, job, results>>
      /\ Index' = Index /\ WaveEnd' = WaveEnd /\ NamesKnown' = NamesKnown
      /\ NeedsProto' = NeedsProto
  BY DEF Validate, Index, WaveEnd, NamesKnown, NeedsProto
<1>2. TypeOK' /\ WavesInOrder'
  BY <1>1 DEF Validate, Inv, TypeOK, WavesInOrder
<1>3. launched = 0 /\ \A i \in Index : job[i] = "none"
  BY <1>1, Counters DEF Inv, PhaseInv, WavesInOrder, Index
<1>4. configs = <<>> => Len(results) = Len(configs)
  BY <1>3, Counters
<1>5. PhaseInv'
  BY <1>1, <1>3, <1>4 DEF Validate, PhaseInv
<1> QED
  BY <1>2, <1>5 DEF Inv

\* Building the descriptors keeps the invariant.
LEMMA WarmUpInv ==
  ASSUME Inv, WarmUp
  PROVE  Inv'
<1>1. pc = "warm" /\ UNCHANGED <<configs, hw, start, launched, job, results>>
      /\ Index' = Index /\ WaveEnd' = WaveEnd /\ NamesKnown' = NamesKnown
      /\ NeedsProto' = NeedsProto
  BY DEF WarmUp, Index, WaveEnd, NamesKnown, NeedsProto
<1>2. TypeOK' /\ WavesInOrder'
  BY <1>1 DEF WarmUp, Inv, TypeOK, WavesInOrder, NeedsProto
<1>3. launched < WaveEnd
  <2>1. launched = 0 /\ Len(configs) > 0
    BY <1>1, BatchLength DEF Inv, PhaseInv, TypeOK
  <2> QED
    BY <2>1, Counters DEF WaveEnd
<1>4. PhaseInv'
  BY <1>1, <1>3 DEF WarmUp, Inv, PhaseInv
<1> QED
  BY <1>2, <1>4 DEF Inv

\* Launching the next run of the wave keeps the invariant.
LEMMA LaunchInv ==
  ASSUME Inv, Launch
  PROVE  Inv'
<1>1. pc = "launch" /\ launched < WaveEnd /\ launched' = launched + 1
      /\ job' = [job EXCEPT ![launched + 1] = "running"]
      /\ pc' = (IF launched' = WaveEnd THEN "collect" ELSE "launch")
      /\ UNCHANGED <<configs, hw, warm, start, results>>
      /\ Index' = Index /\ WaveEnd' = WaveEnd /\ NamesKnown' = NamesKnown
      /\ NeedsProto' = NeedsProto
  BY DEF Launch, Index, WaveEnd, NamesKnown, NeedsProto
<1>2. /\ launched' \in 0 .. Len(configs) /\ launched' <= WaveEnd /\ start <= launched'
      /\ Len(results) <= launched' /\ launched + 1 \in Index /\ launched + 1 > Len(results)
  BY <1>1, Counters DEF Index
<1>3. job \in [Index -> {"none", "running", "ready", "failed"}]
  BY DEF Inv, TypeOK
<1>4. TypeOK'
  <2>1. results \in Seq(1 .. launched')
    <3>1. 1 .. launched \subseteq 1 .. launched'
      BY <1>1, Counters
    <3>2. results \in Seq(1 .. launched)
      BY DEF Inv, TypeOK
    <3> QED
      BY <3>1, <3>2, SeqMonotonic
  <2>2. job' \in [Index -> {"none", "running", "ready", "failed"}]
    BY <1>1, <1>3
  <2>3. start \in 0 .. launched' /\ start \in Nat
    BY <1>2, Counters
  <2> QED
    BY <1>1, <1>2, <2>1, <2>2, <2>3 DEF Inv, TypeOK
<1>5. WavesInOrder'
  <2>1. \A i \in Index : i <= Len(results) => job'[i] = "ready"
    BY <1>1, <1>2, <1>3, Counters DEF Inv, WavesInOrder, Index
  <2>2. \A i \in Index : job'[i] = "none" <=> i > launched'
    BY <1>1, <1>2, <1>3, Counters DEF Inv, WavesInOrder, Index
  <2> QED
    BY <1>1, <1>2, <2>1, <2>2 DEF Inv, WavesInOrder
<1>6. PhaseInv'
  <2>1. launched' # WaveEnd => launched' < WaveEnd
    BY <1>2, Counters
  <2> QED
    BY <1>1, <2>1 DEF Inv, PhaseInv
<1> QED
  BY <1>4, <1>5, <1>6 DEF Inv

\* So do a failed launch, and a run's exception rethrown by get().
LEMMA LeavesWaveInv ==
  ASSUME Inv, LaunchThrows \/ GetThrows
  PROVE  Inv'
<1>1. pc \in {"launch", "collect"} /\ pc' = "unwind"
      /\ UNCHANGED <<configs, hw, warm, start, launched, job, results>>
      /\ Index' = Index /\ WaveEnd' = WaveEnd /\ NamesKnown' = NamesKnown
      /\ NeedsProto' = NeedsProto
  BY DEF LaunchThrows, GetThrows, Index, WaveEnd, NamesKnown, NeedsProto
<1> QED
  BY <1>1 DEF Inv, TypeOK, WavesInOrder, PhaseInv

\* Collecting the next result keeps the invariant: it is that of the next
\* configuration.
LEMMA CollectInv ==
  ASSUME Inv, Collect
  PROVE  Inv'
<1>1. pc = "collect" /\ Len(results) < launched /\ job[Len(results) + 1] = "ready"
      /\ results' = Append(results, Len(results) + 1)
      /\ UNCHANGED <<configs, hw, pc, warm, start, launched, job>>
      /\ Index' = Index /\ WaveEnd' = WaveEnd /\ NamesKnown' = NamesKnown
      /\ NeedsProto' = NeedsProto
  BY DEF Collect, Index, WaveEnd, NamesKnown, NeedsProto
<1>2. results \in Seq(1 .. launched) /\ Len(results) + 1 \in 1 .. launched
  BY <1>1, Counters DEF Inv, TypeOK
<1>3. results' \in Seq(1 .. launched) /\ Len(results') = Len(results) + 1
      /\ \A k \in 1 .. Len(results) + 1 :
            results'[k] = IF k <= Len(results) THEN results[k] ELSE Len(results) + 1
  BY <1>1, <1>2
<1>4. TypeOK'
  BY <1>1, <1>3 DEF Inv, TypeOK
<1>5. WavesInOrder'
  <2>1. \A k \in 1 .. Len(results') : results'[k] = k
    <3>1. Len(results) \in Nat /\ \A k \in 1 .. Len(results) : results[k] = k
      BY <1>2 DEF Inv, WavesInOrder
    <3> QED
      BY <1>3, <3>1
  <2>2. \A i \in Index : i <= Len(results') => job'[i] = "ready"
    BY <1>1, <1>3, Counters DEF Inv, WavesInOrder, Index
  <2> QED
    BY <1>1, <1>3, <2>1, <2>2, Counters DEF Inv, WavesInOrder
<1>6. PhaseInv'
  BY <1>1 DEF Inv, PhaseInv
<1> QED
  BY <1>4, <1>5, <1>6 DEF Inv

\* Going on to the next wave, or back to the caller, keeps the invariant: every
\* run launched has been collected.
LEMMA NextWaveInv ==
  ASSUME Inv, NextWave
  PROVE  Inv'
<1>1. pc = "collect" /\ Len(results) = launched /\ start' = launched
      /\ pc' = (IF launched < Len(configs) THEN "launch" ELSE "returned")
      /\ UNCHANGED <<configs, hw, warm, launched, job, results>>
      /\ Index' = Index /\ NamesKnown' = NamesKnown /\ NeedsProto' = NeedsProto
  BY DEF NextWave, Index, NamesKnown, NeedsProto
<1>2. launched <= WaveEnd' /\ (launched < Len(configs) => launched < WaveEnd')
  BY <1>1, Counters DEF WaveEnd
<1>3. TypeOK'
  BY <1>1, Counters DEF Inv, TypeOK
<1>4. WavesInOrder'
  BY <1>1, <1>2, Counters DEF Inv, WavesInOrder
<1>5. \A i \in Index : job[i] # "running"
  BY <1>1, Counters DEF Inv, WavesInOrder, Index
<1>6. ~(launched < Len(configs)) => Len(results) = Len(configs)
  BY <1>1, Counters
<1>7. PhaseInv'
  BY <1>1, <1>2, <1>5, <1>6 DEF Inv, PhaseInv
<1> QED
  BY <1>3, <1>4, <1>7 DEF Inv

\* Leaving the wave with an exception keeps the invariant: its futures have
\* waited for their runs.
LEMMA UnwindInv ==
  ASSUME Inv, Unwind
  PROVE  Inv'
<1>1. pc = "unwind" /\ pc' = "threw" /\ (\A i \in Index : job[i] # "running")
      /\ UNCHANGED <<configs, hw, warm, start, launched, job, results>>
      /\ Index' = Index /\ WaveEnd' = WaveEnd /\ NamesKnown' = NamesKnown
      /\ NeedsProto' = NeedsProto
  BY DEF Unwind, Index, WaveEnd, NamesKnown, NeedsProto
<1> QED
  BY <1>1 DEF Inv, TypeOK, WavesInOrder, PhaseInv

-----------------------------------------------------------------------------
(* The steps of the workers *)

\* The end of a run keeps the invariant, whichever run it is.
LEMMA WorkerEndsInv ==
  ASSUME Inv, NEW i \in Index, WorkerEnds(i)
  PROVE  Inv'
<1>1. PICK end \in {"ready", "failed"} : job' = [job EXCEPT ![i] = end]
  BY DEF WorkerEnds
<1>2. job[i] = "running" /\ UNCHANGED <<configs, hw, pc, warm, start, launched, results>>
      /\ Index' = Index /\ WaveEnd' = WaveEnd /\ NamesKnown' = NamesKnown
      /\ NeedsProto' = NeedsProto
  BY DEF WorkerEnds, Index, WaveEnd, NamesKnown, NeedsProto
<1>3. job \in [Index -> {"none", "running", "ready", "failed"}]
  BY DEF Inv, TypeOK
<1>4. TypeOK'
  BY <1>1, <1>2, <1>3 DEF Inv, TypeOK
<1>5. \A k \in Index : /\ job'[k] = "none" <=> job[k] = "none"
                       /\ job[k] = "ready" => job'[k] = "ready"
                       /\ job[k] # "running" => job'[k] # "running"
  BY <1>1, <1>2, <1>3
<1>6. WavesInOrder'
  BY <1>2, <1>5 DEF Inv, WavesInOrder
<1>7. PhaseInv'
  BY <1>2, <1>5 DEF Inv, PhaseInv
<1> QED
  BY <1>4, <1>6, <1>7 DEF Inv

\* A step that changes nothing keeps the invariant.
LEMMA UnchangedInv ==
  ASSUME Inv, UNCHANGED vars
  PROVE  Inv'
<1>1. UNCHANGED <<configs, hw, pc, warm, start, launched, job, results>>
      /\ Index' = Index /\ WaveEnd' = WaveEnd /\ NamesKnown' = NamesKnown
      /\ NeedsProto' = NeedsProto
  BY DEF vars, Index, WaveEnd, NamesKnown, NeedsProto
<1> QED
  BY <1>1 DEF Inv, TypeOK, WavesInOrder, PhaseInv

\* Every step keeps the invariant.
LEMMA NextInv == Inv /\ [Next]_vars => Inv'
<1> SUFFICES ASSUME Inv, [Next]_vars PROVE Inv'
  OBVIOUS
<1>1. CASE Caller
  BY <1>1, ValidateInv, WarmUpInv, LaunchInv, LeavesWaveInv, CollectInv, NextWaveInv, UnwindInv
     DEF Caller
<1>2. CASE \E i \in Index : WorkerEnds(i)
  BY <1>2, WorkerEndsInv
<1>3. CASE Left \/ UNCHANGED vars
  BY <1>3, UnchangedInv DEF Left
<1> QED
  BY <1>1, <1>2, <1>3 DEF Next

\* The invariant holds throughout.
LEMMA Invariance == Spec => []Inv
BY InitInv, NextInv, PTL DEF Spec

-----------------------------------------------------------------------------
(* Invariants *)

\* The counters stay within the batch, and every index collected is that of a
\* launched configuration.
THEOREM TypeCorrect == Spec => []TypeOK
<1>1. Inv => TypeOK
  BY DEF Inv
<1> QED
  BY <1>1, Invariance, PTL

\* The runs in flight are among those launched in this wave and not collected,
\* of which there are at most hw, whatever the batch and the machine.
THEOREM WavesBoundRuns == Spec => []InFlightBounded
<1>1. Inv => InFlightBounded
  <2> SUFFICES ASSUME Inv PROVE InFlightBounded
    OBVIOUS
  <2> DEFINE inFlight == { i \in Index : job[i] = "running" }
  <2>1. inFlight \subseteq start + 1 .. launched
    BY Counters DEF Inv, WavesInOrder, Index
  <2>2. /\ IsFiniteSet(start + 1 .. launched)
        /\ Cardinality(start + 1 .. launched) <= hw
    <3>1. start + 1 \in Int /\ launched \in Int /\ launched - start <= hw
      BY Counters
    <3>2. Cardinality(start + 1 .. launched) =
            IF start + 1 > launched THEN 0 ELSE launched - (start + 1) + 1
      BY <3>1, FS_Interval
    <3>3. launched - (start + 1) + 1 <= hw /\ 0 <= hw
      BY <3>1, Counters
    <3>4. Cardinality(start + 1 .. launched) <= hw
      BY <3>2, <3>3
    <3> QED
      BY <3>1, <3>4, FS_Interval
  <2>3. Cardinality(inFlight) <= Cardinality(start + 1 .. launched) /\ IsFiniteSet(inFlight)
    BY <2>1, <2>2, FS_Subset
  <2>4. Cardinality(inFlight) <= hw
    BY <2>2, <2>3, FS_CardinalityType, Counters
  <2> QED
    BY <2>4 DEF InFlightBounded
<1> QED
  BY <1>1, Invariance, PTL

\* run_batch() leaves no run behind it, on the path of an exception either.
THEOREM NothingOutlivesTheCall == Spec => []NoOrphans
<1>1. Inv => NoOrphans
  BY DEF Inv, PhaseInv, NoOrphans
<1> QED
  BY <1>1, Invariance, PTL

\* Every run that was started belongs to a batch whose names are all known,
\* and has the descriptors it needs.
THEOREM RunsArePrepared == Spec => []NothingStartsUnprepared
<1>1. Inv => NothingStartsUnprepared
  <2> SUFFICES ASSUME Inv, NEW i \in Index, job[i] # "none"
               PROVE  /\ \A k \in Index : configs[k].name \in Known
                      /\ configs[i].use_proto => warm
    BY DEF NothingStartsUnprepared
  <2>1. launched > 0
    BY Counters DEF Inv, WavesInOrder, Index
  <2>2. NamesKnown /\ warm = NeedsProto
    BY <2>1 DEF Inv, PhaseInv
  <2> QED
    BY <2>2 DEF NamesKnown, NeedsProto
<1> QED
  BY <1>1, Invariance, PTL

-----------------------------------------------------------------------------
(* Refinement *)

\* The waves implement the sequential batch: a collected result is that of the
\* next configuration, the call returns when there is one of each, and every
\* other step is invisible to the caller.
THEOREM Refinement == Spec => ImplementsSequential
<1>1. Init => Batch!Init
  BY DEF Init, Batch!Init
<1>2. Inv /\ [Next]_vars => [Batch!Next]_Batch!vars
  <2> SUFFICES ASSUME Inv, [Next]_vars PROVE [Batch!Next]_Batch!vars
    OBVIOUS
  <2>1. CASE Validate
    <3>1. configs = <<>> => Len(results) = Len(configs)
      <4>1. pc = "validate" /\ launched = 0
        BY <2>1 DEF Validate, Inv, PhaseInv
      <4> QED
        BY <4>1, Counters
    <3> QED
      BY <2>1, <3>1 DEF Validate, Batch!Next, Batch!Return, Batch!Throw, Batch!vars
  <2>2. CASE Collect
    <3>1. Len(results) < Len(configs)
      BY <2>2, Counters DEF Collect
    <3> QED
      BY <2>2, <3>1 DEF Collect, Batch!Next, Batch!RunNext, Batch!vars
  <2>3. CASE NextWave
    <3>1. ~(launched < Len(configs)) => Len(results) = Len(configs)
      BY <2>3, Counters DEF NextWave
    <3> QED
      BY <2>3, <3>1 DEF NextWave, Batch!Next, Batch!Return, Batch!vars
  <2>4. CASE Unwind
    BY <2>4 DEF Unwind, Batch!Next, Batch!Throw, Batch!vars
  <2>5. CASE WarmUp \/ Launch \/ LaunchThrows \/ GetThrows
    BY <2>5 DEF WarmUp, Launch, LaunchThrows, GetThrows, Batch!vars
  <2>6. CASE (\E i \in Index : WorkerEnds(i)) \/ Left \/ UNCHANGED vars
    BY <2>6 DEF WorkerEnds, Left, vars, Batch!vars
  <2> QED
    BY <2>1, <2>2, <2>3, <2>4, <2>5, <2>6 DEF Next, Caller
<1> QED
  BY <1>1, <1>2, Invariance, PTL DEF Spec, ImplementsSequential, Batch!Spec


-----------------------------------------------------------------------------
(* The sweep page: what its state is made of *)

\* Every chart is of the sweep that was clicked, and every cached frame is the
\* one of each form that has its key.
PageInv ==
  /\ engine \in Engines
  /\ form \in Forms
  /\ clicked \in Forms
  /\ \A k \in DOMAIN cache : \A f \in Forms : Key(f) = k => cache[k] = Frame(f)
  /\ page = "spinner" => form.tickers # {}
  /\ page = "charts" => sweep # NoSweep
  /\ sweep # NoSweep =>
       /\ clicked.tickers # {}
       /\ sweep = [df |-> Frame(clicked), strategy |-> clicked.strategy,
                   axis_fields |-> Strats[clicked.strategy]]

\* The axes of a form and the fields they drive, each of which is another.
LEMMA FieldsOfForm ==
  ASSUME NEW f \in Forms
  PROVE  LET fields == Strats[f.strategy]
         IN  /\ Len(fields) \in {1, 2} /\ DOMAIN fields = 1 .. Len(fields)
             /\ DOMAIN f.axes = DOMAIN fields
             /\ \A a \in DOMAIN fields : fields[a] \in Fields /\ f.axes[a] \in AxisRange
             /\ \A a, b \in DOMAIN fields : fields[a] = fields[b] => a = b
             /\ fields # <<>>
<1> DEFINE fields == Strats[f.strategy]
<1>1. /\ fields \in {<<"p1">>, <<"p1", "p2">>, <<"p1", "fp">>}
      /\ f.axes \in Seq(AxisRange) /\ Len(f.axes) = Len(fields)
  BY SweepAssumption
<1> HIDE DEF fields
<1>2. /\ Len(fields) \in {1, 2} /\ DOMAIN fields = 1 .. Len(fields)
      /\ \A a \in DOMAIN fields : fields[a] \in Fields
      /\ \A a, b \in DOMAIN fields : fields[a] = fields[b] => a = b
      /\ fields # <<>>
  <2>1. CASE fields = <<"p1">>
    BY <2>1 DEF Fields
  <2>2. CASE fields = <<"p1", "p2">>
    BY <2>2 DEF Fields
  <2>3. CASE fields = <<"p1", "fp">>
    BY <2>3 DEF Fields
  <2> QED
    BY <1>1, <2>1, <2>2, <2>3
<1>3. DOMAIN f.axes = DOMAIN fields /\ \A a \in DOMAIN fields : f.axes[a] \in AxisRange
  BY <1>1, <1>2
<1> QED
  BY <1>2, <1>3 DEF fields

\* Forms with the same key ask for the same runs.
LEMMA SameKeySameFrame ==
  ASSUME NEW f \in Forms, NEW g \in Forms, Key(f) = Key(g)
  PROVE  Frame(f) = Frame(g)
<1> DEFINE D == DOMAIN Strats[f.strategy]
           U(h) == UNION { AxisValues(h.axes[a]) : a \in D }
<1>1. /\ f.strategy = g.strategy /\ f.tickers = g.tickers
      /\ [a \in DOMAIN f.axes |-> AxisValues(f.axes[a])] = [a \in DOMAIN g.axes |-> AxisValues(g.axes[a])]
  BY DEF Key
<1>2. DOMAIN f.axes = D /\ DOMAIN g.axes = D
  BY <1>1, FieldsOfForm
<1>3. \A a \in D : AxisValues(f.axes[a]) = AxisValues(g.axes[a])
  BY <1>1, <1>2
<1>4. Combos(f) = Combos(g)
  <2>1. U(f) = U(g)
    BY <1>3
  <2>2. Combos(f) = { combo \in [D -> U(f)] : \A a \in D : combo[a] \in AxisValues(f.axes[a]) }
    BY DEF Combos
  <2>3. Combos(g) = { combo \in [D -> U(g)] : \A a \in D : combo[a] \in AxisValues(g.axes[a]) }
    BY <1>1 DEF Combos
  <2> HIDE DEF U, D
  <2> QED
    BY <1>3, <2>1, <2>2, <2>3
<1>5. Grid(f) = Grid(g)
  BY <1>1, <1>4 DEF Grid
<1> QED
  BY <1>5, Zenon DEF Frame

LEMMA PageInitInv == PageInit => PageInv
BY DEF PageInit, PageInv

LEMMA PageStep == PageInv /\ [PageNext]_pageVars => PageInv'
<1> SUFFICES ASSUME PageInv, [PageNext]_pageVars PROVE PageInv'
  OBVIOUS
<1>1. engine' = engine
  BY DEF PageNext, Interact, ClickRun, BatchReturns, BatchThrows, Interrupted, pageVars
<1>2. \A f \in Forms : Frame(f)' = Frame(f)
  BY <1>1, Zenon DEF Frame
<1>3. clicked' = clicked => Frame(clicked)' = Frame(clicked)
  BY <1>1 DEF Frame, Grid, Combos, Config, AxisValues, Round
<1>4. clicked' = form => Frame(clicked)' = Frame(form)
  BY <1>1 DEF Frame, Grid, Combos, Config, AxisValues, Round
\* The cache, whether it gained a frame or not, and what was saved, if anything was.
<1> DEFINE CacheOK == \A k \in DOMAIN cache : \A f \in Forms : Key(f) = k => cache[k] = Frame(f)
           SavedOK ==
             sweep # NoSweep =>
               /\ clicked.tickers # {}
               /\ sweep = [df |-> Frame(clicked), strategy |-> clicked.strategy,
                           axis_fields |-> Strats[clicked.strategy]]
<1>5. cache' = cache => CacheOK'
  BY <1>2 DEF PageInv
<1>6. Caches => CacheOK'
  <2> SUFFICES ASSUME Caches, NEW k \in DOMAIN cache', NEW f \in Forms, Key(f) = k
               PROVE  cache'[k] = Frame(f)
    BY <1>2
  <2>1. CASE k = Key(form)
    BY <2>1, SameKeySameFrame DEF Caches, PageInv
  <2>2. CASE k # Key(form)
    BY <2>2 DEF Caches, PageInv
  <2> QED
    BY <2>1, <2>2
<1>7. sweep' = sweep /\ clicked' = clicked => SavedOK'
  BY <1>3 DEF PageInv, NoSweep
<1>8. Saves(Frame(form)) /\ form.tickers # {} => SavedOK' /\ clicked' \in Forms /\ sweep' # NoSweep
  <2> SUFFICES ASSUME Saves(Frame(form)), form.tickers # {}
               PROVE  SavedOK' /\ clicked' \in Forms /\ sweep' # NoSweep
    OBVIOUS
  <2>1. /\ sweep' = [df |-> Frame(form), strategy |-> form.strategy, axis_fields |-> Strats[form.strategy]]
        /\ clicked' = form /\ form \in Forms
    BY DEF Saves, PageInv
  <2>2. sweep' # NoSweep
    BY <2>1, FieldsOfForm DEF NoSweep
  <2> QED
    BY <1>4, <2>1, <2>2
<1>9. CASE Interact
  BY <1>1, <1>5, <1>7, <1>9 DEF Interact, PageInv, Shown
<1>10. CASE ClickRun
  <2>1. CASE form.tickers = {}
    BY <1>1, <1>5, <1>7, <1>10, <2>1 DEF ClickRun, PageInv
  <2>2. CASE form.tickers # {} /\ Key(form) \in DOMAIN cache
    <3>1. cache[Key(form)] = Frame(form)
      BY <2>2 DEF PageInv
    <3>2. Saves(Frame(form))
      BY <1>10, <2>2, <3>1 DEF ClickRun
    <3> QED
      BY <1>1, <1>5, <1>8, <1>10, <2>2, <3>2 DEF ClickRun, Saves, PageInv
  <2>3. CASE form.tickers # {} /\ Key(form) \notin DOMAIN cache
    BY <1>1, <1>5, <1>7, <1>10, <2>3 DEF ClickRun, PageInv
  <2> QED
    BY <2>1, <2>2, <2>3
<1>11. CASE BatchReturns
  BY <1>1, <1>6, <1>8, <1>11 DEF BatchReturns, Saves, PageInv
<1>12. CASE BatchThrows
  BY <1>1, <1>5, <1>7, <1>12 DEF BatchThrows, PageInv
<1>13. CASE Interrupted
  BY <1>1, <1>6, <1>7, <1>13 DEF Interrupted, PageInv, Shown
<1>14. CASE UNCHANGED pageVars
  BY <1>1, <1>5, <1>7, <1>14 DEF pageVars, PageInv
<1> QED
  BY <1>9, <1>10, <1>11, <1>12, <1>13, <1>14 DEF PageNext

LEMMA PageInvHolds == PageSpec => []PageInv
BY PageInitInv, PageStep, PTL DEF PageSpec

-----------------------------------------------------------------------------
(* The sweep page: the values of an axis *)

\* Rounding a quotient moves it by half a divisor at most.
LEMMA RoundIsNear ==
  ASSUME NEW n \in Int, NEW d \in Nat \ {0}
  PROVE  LET q == Round(n, d)
         IN  q \in Int /\ 2 * (q * d) <= 2 * n + d /\ 2 * n <= 2 * (q * d) + d
<1> DEFINE q == n \div d
           m == n % d
           p == q * d
<1>1. q \in Int /\ m \in 0 .. d - 1 /\ n = d * q + m
  OBVIOUS
<1>2. Round(n, d) = IF 2 * m > d \/ (2 * m = d /\ q % 2 = 1) THEN q + 1 ELSE q
  BY DEF Round
<1> HIDE DEF q, m
<1>3. p \in Int /\ n = p + m /\ (q + 1) * d = p + d
  BY <1>1
<1> HIDE DEF p
<1>4. CASE Round(n, d) = q + 1 /\ 2 * m >= d
  BY <1>1, <1>3, <1>4
<1>5. CASE Round(n, d) = q /\ 2 * m <= d
  BY <1>1, <1>3, <1>5 DEF p
<1> QED
  BY <1>1, <1>2, <1>4, <1>5

\* Which of two numbers is the larger, the smaller.
LEMMA OfTwo ==
  ASSUME NEW x \in Int, NEW y \in Int
  PROVE  /\ Max({x, y}) = IF x >= y THEN x ELSE y
         /\ Min({x, y}) = IF x <= y THEN x ELSE y
<1>1. Max({x, y}) = CHOOSE z \in {x, y} : \A t \in {x, y} : z >= t
  BY Zenon DEF Max
<1>2. Min({x, y}) = CHOOSE z \in {x, y} : \A t \in {x, y} : z =< t
  BY Zenon DEF Min
<1>3. \E z \in {x, y} : \A t \in {x, y} : z >= t
  OBVIOUS
<1>4. \E z \in {x, y} : \A t \in {x, y} : z =< t
  OBVIOUS
<1>5. Max({x, y}) \in {x, y} /\ \A t \in {x, y} : Max({x, y}) >= t
  BY <1>1, <1>3
<1>6. Min({x, y}) \in {x, y} /\ \A t \in {x, y} : Min({x, y}) =< t
  BY <1>2, <1>4
<1> QED
  BY <1>5, <1>6

LEMMA NoRemainder ==
  ASSUME NEW i \in Nat, NEW d \in Nat \ {0}
  PROVE  (i * d) % d = 0
<1> DEFINE q == (i * d) \div d
           m == (i * d) % d
<1>1. i * d \in Nat
  OBVIOUS
<1>2. q \in Int /\ m \in 0 .. d - 1 /\ i * d = d * q + m
  BY <1>1
<1> HIDE DEF q, m
<1>3. (i - q) * d = m
  BY <1>2
<1>4. CASE i - q <= 0
  <2>1. (i - q) * d <= 0
    BY <1>2, <1>4
  <2> QED
    BY <1>2, <1>3, <2>1 DEF m
<1>5. CASE i - q >= 1
  <2>1. (i - q) * d >= d
    BY <1>2, <1>5
  <2> QED
    BY <1>2, <1>3, <2>1
<1> QED
  BY <1>2, <1>4, <1>5

\* An axis begins at its start, steps on as far as its stop, and is finite.
LEMMA AxisValuesHold ==
  ASSUME NEW axis \in AxisRange
  PROVE  /\ IsFiniteSet(AxisValues(axis))
         /\ axis.start \in AxisValues(axis)
         /\ \A v \in AxisValues(axis) : InRange(axis, v)
         /\ Reaches(axis, AxisValues(axis))
<1> DEFINE d == axis.step
           n == axis.stop - axis.start
           r == Round(n, d)
           last == Max({0, r})
           V == AxisValues(axis)
           at == [i \in 0 .. last |-> axis.start + i * d]
<1>1. axis.start \in Int /\ axis.stop \in Int /\ d \in Nat \ {0} /\ n \in Int
  BY DEF AxisRange
<1>2. r \in Int /\ 2 * (r * d) <= 2 * n + d /\ 2 * n <= 2 * (r * d) + d
  <2> HIDE DEF n, d
  <2> QED
    BY <1>1, RoundIsNear
<1>3. last = IF r >= 0 THEN r ELSE 0
  <2> HIDE DEF r
  <2> QED
    BY <1>2, OfTwo
<1>4. V = { axis.start + i * d : i \in 0 .. last }
  BY DEF AxisValues
<1> HIDE DEF r, last, V, n, d
<1>5. last \in Nat
  BY <1>2, <1>3
<1>6. IsFiniteSet(V)
  <2>1. IsFiniteSet(0 .. last)
    BY <1>5, FS_Interval
  <2>2. at \in Surjection(0 .. last, V)
    BY <1>4 DEF Surjection
  <2> QED
    BY <2>1, <2>2, FS_Surjection
<1>7. axis.start \in V
  <2>1. 0 \in 0 .. last /\ axis.start = axis.start + 0 * d
    BY <1>1, <1>5
  <2> QED
    BY <1>4, <2>1
<1>8. ASSUME NEW v \in V PROVE InRange(axis, v)
  <2>1. PICK i \in 0 .. last : v = axis.start + i * d
    BY <1>4
  <2>2. i \in Nat /\ i * d \in Nat /\ i <= last
    BY <1>1, <1>5
  <2>3. v - axis.start = i * d /\ v >= axis.start
    BY <1>1, <2>1, <2>2
  <2>4. (v - axis.start) % d = 0
    BY <1>1, <2>2, <2>3, NoRemainder
  <2>5. v = axis.start \/ 2 * (v - axis.stop) <= d
    <3>1. CASE i = 0
      BY <1>1, <2>1, <3>1
    <3>2. CASE i > 0
      <4>1. i <= r
        BY <1>2, <1>3, <2>2, <3>2
      <4>2. i * d <= r * d
        BY <1>1, <1>2, <2>2, <4>1
      <4>3. r * d \in Int
        BY <1>1, <1>2
      <4>4. v - axis.stop = i * d - n
        <5>1. n = axis.stop - axis.start
          BY DEF n
        <5> DEFINE x == i * d
        <5>2. v = axis.start + x /\ x \in Nat
          BY <2>1, <2>2
        <5> HIDE DEF x
        <5>3. v - axis.stop = x - n
          BY <1>1, <5>1, <5>2
        <5> QED
          BY <5>3 DEF x
      <4> QED
        BY <1>1, <1>2, <2>2, <4>2, <4>3, <4>4
    <3> QED
      BY <2>2, <3>1, <3>2
  <2> QED
    BY <2>3, <2>4, <2>5 DEF InRange, d
<1>9. Reaches(axis, V)
  <2>1. CASE axis.stop <= axis.start
    BY <1>7, <2>1 DEF Reaches
  <2>2. CASE axis.stop > axis.start
    <3>1. n > 0
      BY <1>1, <2>2 DEF n
    <3>2. r >= 0
      <4>1. CASE r <= -1
        <5>1. r * d <= -d
          BY <1>1, <1>2, <4>1
        <5> QED
          BY <1>1, <1>2, <3>1, <5>1
      <4> QED
        BY <1>2, <4>1
    <3>3. axis.start + last * d \in V
      BY <1>4, <1>5
    <3>4. last * d = r * d /\ r * d \in Int
      BY <1>1, <1>2, <1>3, <3>2
    <3>5. axis.stop - (axis.start + last * d) = n - r * d
      BY <1>1, <3>4 DEF n
    <3>6. 2 * (axis.stop - (axis.start + last * d)) <= d
      BY <1>1, <1>2, <3>4, <3>5
    <3> QED
      BY <3>3, <3>6 DEF Reaches, d
  <2> QED
    BY <1>1, <2>1, <2>2
<1> QED
  BY <1>6, <1>7, <1>8, <1>9 DEF V


-----------------------------------------------------------------------------
(* The sweep page: the charts show what they are labelled with *)

\* A combination is a value of each axis.
LEMMA CombosAre ==
  ASSUME NEW f \in Forms
  PROVE  /\ \A c \in Combos(f) : /\ c = [a \in DOMAIN Strats[f.strategy] |-> c[a]]
                                 /\ \A a \in DOMAIN Strats[f.strategy] : c[a] \in AxisValues(f.axes[a])
         /\ \A c : /\ c = [a \in DOMAIN Strats[f.strategy] |-> c[a]]
                   /\ \A a \in DOMAIN Strats[f.strategy] : c[a] \in AxisValues(f.axes[a])
                   => c \in Combos(f)
<1> DEFINE D == DOMAIN Strats[f.strategy]
           U == UNION { AxisValues(f.axes[a]) : a \in D }
<1>1. Combos(f) = { c \in [D -> U] : \A a \in D : c[a] \in AxisValues(f.axes[a]) }
  BY DEF Combos
<1> HIDE DEF D
<1>2. \A c : /\ c = [a \in D |-> c[a]]
             /\ \A a \in D : c[a] \in AxisValues(f.axes[a])
             => c \in [D -> U]
  OBVIOUS
<1> HIDE DEF U
<1>3. \A c \in [D -> U] : c = [a \in D |-> c[a]]
  OBVIOUS
<1> QED
  BY <1>1, <1>2, <1>3 DEF D

\* Any value of an axis is in a combination.
LEMMA ValuesAreCombined ==
  ASSUME NEW f \in Forms, NEW a \in DOMAIN Strats[f.strategy], NEW v \in AxisValues(f.axes[a])
  PROVE  \E c \in Combos(f) : c[a] = v
<1> DEFINE D == DOMAIN Strats[f.strategy]
           c == [b \in D |-> IF b = a THEN v ELSE f.axes[b].start]
<1>1. \A b \in D : c[b] \in AxisValues(f.axes[b])
  BY FieldsOfForm, AxisValuesHold
<1>2. c = [b \in D |-> c[b]] /\ c[a] = v
  OBVIOUS
<1>3. c \in Combos(f)
  <2> HIDE DEF c
  <2> QED
    BY <1>1, <1>2, CombosAre
<1> QED
  BY <1>2, <1>3

\* The label of a run's cell is its combination.
LEMMA LabelsAreParams ==
  ASSUME NEW f \in Forms, NEW t, NEW c \in Combos(f)
  PROVE  LET fields == Strats[f.strategy]
             run == Config(t, f.strategy, fields, c)
         IN  /\ run.ticker = t
             /\ [a \in DOMAIN fields |-> run.params[fields[a]]] = c
<1> DEFINE fields == Strats[f.strategy]
           run == Config(t, f.strategy, fields, c)
<1>1. /\ \A a \in DOMAIN fields : fields[a] \in Fields
      /\ \A a, b \in DOMAIN fields : fields[a] = fields[b] => a = b
  BY FieldsOfForm
<1>2. c = [a \in DOMAIN fields |-> c[a]]
  BY CombosAre
<1> HIDE DEF fields
<1>3. ASSUME NEW a \in DOMAIN fields PROVE run.params[fields[a]] = c[a]
  <2>1. run.params = [g \in Fields |-> IF \E b \in DOMAIN fields : fields[b] = g
                                         THEN c[CHOOSE b \in DOMAIN fields : fields[b] = g]
                                         ELSE 0]
    BY DEF Config
  <2>2. (CHOOSE b \in DOMAIN fields : fields[b] = fields[a]) = a
    BY <1>1
  <2> QED
    BY <1>1, <2>1, <2>2
<1>4. run.ticker = t
  BY DEF Config
<1> HIDE DEF run
<1> QED
  BY <1>2, <1>3, <1>4 DEF run, fields

\* The run of a combination, and the row the frame has of it.
RunOf(f, t, c) == Config(t, f.strategy, Strats[f.strategy], c)
RowOf(f, t, c) == [of |-> RunOf(f, t, c), metrics |-> engine[RunOf(f, t, c)]]

\* What is on the page, ticker by ticker and cell by cell.
LEMMA FrameIs ==
  ASSUME PageInv, page = "charts"
  PROVE  /\ sweep.axis_fields = Strats[clicked.strategy]
         /\ sweep.df = { RowOf(clicked, t, c) : t \in clicked.tickers, c \in Combos(clicked) }
<1>1. /\ sweep.axis_fields = Strats[clicked.strategy]
      /\ sweep.df = Frame(clicked)
  BY DEF PageInv
<1>2. Grid(clicked) = { RunOf(clicked, t, c) : t \in clicked.tickers, c \in Combos(clicked) }
  BY DEF Grid, RunOf
<1>3. Frame(clicked) = { [of |-> x, metrics |-> engine[x]] : x \in Grid(clicked) }
  BY Zenon DEF Frame
<1> QED
  BY <1>1, <1>2, <1>3 DEF RowOf

LEMMA RowsAre ==
  ASSUME PageInv, page = "charts", NEW focus \in clicked.tickers
  PROVE  Rows(focus) = { RowOf(clicked, focus, c) : c \in Combos(clicked) }
<1>1. clicked \in Forms
  BY DEF PageInv
<1>2. \A t : \A c \in Combos(clicked) : RowOf(clicked, t, c).of.ticker = t
  BY <1>1, LabelsAreParams, Zenon DEF RowOf, RunOf
<1>3. Rows(focus) = { r \in sweep.df : r.of.ticker = focus }
  BY Zenon DEF Rows
<1> QED
  BY <1>2, <1>3, FrameIs

LEMMA CellsAre ==
  ASSUME PageInv, page = "charts", NEW focus \in clicked.tickers
  PROVE  Cells(focus) = [at \in Combos(clicked) |-> { RowOf(clicked, focus, at) }]
<1> DEFINE fields == Strats[clicked.strategy]
           At(r) == [a \in DOMAIN fields |-> r.of.params[fields[a]]]
           R == Rows(focus)
<1>1. clicked \in Forms
  BY DEF PageInv
<1>2. Cells(focus) = [at \in { At(r) : r \in R } |-> { r \in R : At(r) = at }]
  BY FrameIs DEF Cells
<1>3. R = { RowOf(clicked, focus, c) : c \in Combos(clicked) }
  BY RowsAre
<1>4. ASSUME NEW c \in Combos(clicked) PROVE At(RowOf(clicked, focus, c)) = c
  <2>1. RowOf(clicked, focus, c).of = Config(focus, clicked.strategy, fields, c)
    BY DEF RowOf, RunOf
  <2>2. [a \in DOMAIN fields |-> Config(focus, clicked.strategy, fields, c).params[fields[a]]] = c
    BY <1>1, LabelsAreParams
  <2> QED
    BY <2>1, <2>2, Zenon
<1> HIDE DEF At, R
<1>5. { At(r) : r \in R } = Combos(clicked)
  BY <1>3, <1>4
<1>6. \A at \in Combos(clicked) : { r \in R : At(r) = at } = { RowOf(clicked, focus, at) }
  BY <1>3, <1>4
<1> QED
  BY <1>2, <1>5, <1>6

LEMMA ChartsShow == ASSUME PageInv PROVE ShownAsRun
<1> DEFINE f == clicked
           fields == Strats[f.strategy]
           C == Combos(f)
<1> SUFFICES ASSUME page = "charts"
    PROVE  /\ f.tickers = { r.of.ticker : r \in sweep.df }
           /\ \A focus \in f.tickers :
                LET At == DOMAIN Cells(focus)
                    Values(a) == { at[a] : at \in At }
                IN  /\ \A at \in At :
                         Cells(focus)[at] = {[of |-> Config(focus, f.strategy, fields, at),
                                              metrics |-> engine[Config(focus, f.strategy, fields, at)]]}
                    /\ At = { at \in [DOMAIN fields -> UNION { Values(a) : a \in DOMAIN fields }] :
                                \A a \in DOMAIN fields : at[a] \in Values(a) }
                    /\ \A a \in DOMAIN fields :
                         /\ \A v \in Values(a) : InRange(f.axes[a], v)
                         /\ Reaches(f.axes[a], Values(a))
  BY Zenon DEF ShownAsRun
<1>1. f \in Forms
  BY DEF PageInv
<1>2. f.tickers = { r.of.ticker : r \in sweep.df }
  <2>1. sweep.df = { RowOf(f, t, c) : t \in f.tickers, c \in C }
    BY FrameIs
  <2>2. \A t : \A c \in C : RowOf(f, t, c).of.ticker = t
    BY <1>1, LabelsAreParams, Zenon DEF RowOf, RunOf
  <2>3. C # {}
    <3>1. 1 \in DOMAIN fields /\ f.axes[1] \in AxisRange
      BY <1>1, FieldsOfForm
    <3>2. \E v : v \in AxisValues(f.axes[1])
      BY <3>1, AxisValuesHold
    <3> QED
      BY <1>1, <3>1, <3>2, ValuesAreCombined
  <2> HIDE DEF C, f
  <2> QED
    BY <2>1, <2>2, <2>3
<1>3. ASSUME NEW a \in DOMAIN fields
      PROVE  { at[a] : at \in C } = AxisValues(f.axes[a])
  <2>1. \A at \in C : at[a] \in AxisValues(f.axes[a])
    BY <1>1, CombosAre
  <2>2. \A v \in AxisValues(f.axes[a]) : \E at \in C : at[a] = v
    BY <1>1, ValuesAreCombined
  <2> HIDE DEF C, f
  <2> QED
    BY <2>1, <2>2
<1> SUFFICES ASSUME NEW focus \in f.tickers
    PROVE  LET At == DOMAIN Cells(focus)
               Values(a) == { at[a] : at \in At }
           IN  /\ \A at \in At :
                    Cells(focus)[at] = {[of |-> Config(focus, f.strategy, fields, at),
                                         metrics |-> engine[Config(focus, f.strategy, fields, at)]]}
               /\ At = { at \in [DOMAIN fields -> UNION { Values(a) : a \in DOMAIN fields }] :
                           \A a \in DOMAIN fields : at[a] \in Values(a) }
               /\ \A a \in DOMAIN fields :
                    /\ \A v \in Values(a) : InRange(f.axes[a], v)
                    /\ Reaches(f.axes[a], Values(a))
  BY <1>2
<1> DEFINE At == DOMAIN Cells(focus)
           Values(a) == { at[a] : at \in At }
<1>4. At = C /\ \A at \in C : Cells(focus)[at] = {RowOf(f, focus, at)}
  <2>1. Cells(focus) = [at \in C |-> {RowOf(f, focus, at)}]
    BY CellsAre
  <2> HIDE DEF C, f
  <2> QED
    BY <2>1
<1>5. \A at \in At : Cells(focus)[at] = {[of |-> Config(focus, f.strategy, fields, at),
                                          metrics |-> engine[Config(focus, f.strategy, fields, at)]]}
  BY <1>4, Zenon DEF RowOf, RunOf
<1>6. \A a \in DOMAIN fields : Values(a) = AxisValues(f.axes[a])
  BY <1>3, <1>4, Zenon
<1>7. At = { at \in [DOMAIN fields -> UNION { Values(a) : a \in DOMAIN fields }] :
               \A a \in DOMAIN fields : at[a] \in Values(a) }
  <2>1. C = { at \in [DOMAIN fields -> UNION { AxisValues(f.axes[a]) : a \in DOMAIN fields }] :
                \A a \in DOMAIN fields : at[a] \in AxisValues(f.axes[a]) }
    BY Zenon DEF Combos
  <2> HIDE DEF At, Values, C, f, fields
  <2>2. UNION { Values(a) : a \in DOMAIN fields } = UNION { AxisValues(f.axes[a]) : a \in DOMAIN fields }
    BY <1>6
  <2> QED
    BY <1>4, <1>6, <2>1, <2>2
<1>8. ASSUME NEW a \in DOMAIN fields
      PROVE  (\A v \in Values(a) : InRange(f.axes[a], v)) /\ Reaches(f.axes[a], Values(a))
  <2>1. f.axes[a] \in AxisRange
    BY <1>1, FieldsOfForm
  <2>2. Values(a) = AxisValues(f.axes[a])
    BY <1>6
  <2> HIDE DEF Values
  <2> QED
    BY <2>1, <2>2, AxisValuesHold
<1> QED
  BY <1>5, <1>7, <1>8, Zenon

-----------------------------------------------------------------------------
(* The sweep page: the winner *)

\* A finite set of numbers that is not empty has a largest and a smallest one:
\* a smallest of its subsets without them would not be empty without one of
\* its elements.
LEMMA FiniteSetsHaveExtremes ==
  ASSUME NEW S \in SUBSET Int, IsFiniteSet(S), S # {}
  PROVE  /\ Max(S) \in S /\ \A x \in S : x <= Max(S)
         /\ Min(S) \in S /\ \A x \in S : Min(S) <= x
<1> DEFINE Has(s) == /\ \E x \in s : \A y \in s : x >= y
                     /\ \E x \in s : \A y \in s : x =< y
           Bad == { s \in SUBSET S : s # {} /\ ~Has(s) }
<1>1. Bad = {}
  <2> SUFFICES ASSUME Bad # {} PROVE FALSE
    OBVIOUS
  <2>1. PICK s \in Bad : \A t \in Bad : <<t, s>> \notin StrictSubsetOrdering(S)
    <3>1. Bad \subseteq FiniteSubsetsOf(S)
      BY FS_FiniteSubsetsOfFinite
    <3>2. IsWellFoundedOn(StrictSubsetOrdering(S), FiniteSubsetsOf(S))
      BY FS_StrictSubsetOrderingWellFounded
    <3> HIDE DEF Bad
    <3> QED
      BY <3>1, <3>2, WFMin
  <2>2. s \in SUBSET S /\ s # {} /\ ~Has(s)
    OBVIOUS
  <2>3. PICK x \in s : TRUE
    BY <2>2
  <2> DEFINE t == s \ {x}
  <2>4. t \in SUBSET S /\ t # s /\ t \in SUBSET s
    BY <2>2, <2>3
  <2>5. <<t, s>> \in StrictSubsetOrdering(S)
    BY <2>2, <2>4 DEF StrictSubsetOrdering
  <2>6. t = {} \/ Has(t)
    BY <2>1, <2>4, <2>5
  <2>7. s = t \cup {x} /\ x \in Int
    BY <2>2, <2>3
  <2>8. CASE t = {}
    BY <2>2, <2>7, <2>8
  <2>9. CASE Has(t)
    <3>1. PICK m \in t : \A y \in t : m >= y
      BY <2>9
    <3>2. PICK l \in t : \A y \in t : l =< y
      BY <2>9
    <3>3. t \in SUBSET Int /\ m \in Int /\ l \in Int
      BY <2>4, <3>1, <3>2
    <3> HIDE DEF t
    <3>4. \E z \in s : \A y \in s : z >= y
      <4>1. CASE x >= m
        BY <2>7, <3>1, <3>3, <4>1
      <4>2. CASE m >= x
        BY <2>7, <3>1, <3>3, <4>2
      <4> QED
        BY <2>7, <3>3, <4>1, <4>2
    <3>5. \E z \in s : \A y \in s : z =< y
      <4>1. CASE x <= l
        BY <2>7, <3>2, <3>3, <4>1
      <4>2. CASE l <= x
        BY <2>7, <3>2, <3>3, <4>2
      <4> QED
        BY <2>7, <3>3, <4>1, <4>2
    <3> QED
      BY <2>2, <3>4, <3>5
  <2> QED
    BY <2>6, <2>8, <2>9
<1>2. Has(S)
  BY <1>1
<1>3. Max(S) = CHOOSE x \in S : \A y \in S : x >= y
  BY Zenon DEF Max
<1>4. Min(S) = CHOOSE x \in S : \A y \in S : x =< y
  BY Zenon DEF Min
<1>5. Max(S) \in S /\ \A y \in S : Max(S) >= y
  BY <1>2, <1>3
<1>6. Min(S) \in S /\ \A y \in S : Min(S) =< y
  BY <1>2, <1>4
<1> QED
  BY <1>5, <1>6

\* Over one set of values, MinMax() has one denominator and keeps the order.
LEMMA MinMaxKeepsOrder ==
  ASSUME NEW S \in SUBSET Int, IsFiniteSet(S), S # {}
  PROVE  \E d \in Nat \ {0} :
           /\ \A v \in S : MinMax(S, v).d = d /\ MinMax(S, v).n \in 0 .. d
           /\ \A u, v \in S : /\ u <= v => MinMax(S, u).n <= MinMax(S, v).n
                              /\ u < v => MinMax(S, u).n < MinMax(S, v).n
<1> DEFINE hi == Max(S)
           lo == Min(S)
<1>1. /\ hi \in Int /\ hi \in S /\ \A x \in S : x <= hi
      /\ lo \in Int /\ lo \in S /\ \A x \in S : lo <= x
  BY FiniteSetsHaveExtremes
<1>2. \A v \in S : MinMax(S, v) = IF hi = lo THEN [n |-> 1, d |-> 2]
                                    ELSE [n |-> v - lo, d |-> hi - lo]
  BY DEF MinMax
<1> HIDE DEF hi, lo
<1>3. CASE hi = lo
  <2>1. \A v \in S : MinMax(S, v).n = 1 /\ MinMax(S, v).d = 2
    BY <1>2, <1>3
  <2>2. \A u, v \in S : u = v
    BY <1>1, <1>3
  <2> QED
    BY <2>1, <2>2
<1>4. CASE hi # lo
  <2>1. \A v \in S : MinMax(S, v).n = v - lo /\ MinMax(S, v).d = hi - lo
    BY <1>2, <1>4
  <2>2. hi - lo \in Nat \ {0}
    BY <1>1, <1>4
  <2>3. \A v \in S : v \in Int /\ v - lo \in 0 .. hi - lo
    BY <1>1
  <2> QED
    BY <1>1, <2>1, <2>2, <2>3
<1> QED
  BY <1>3, <1>4

LEMMA ProductGrows ==
  ASSUME NEW x \in Nat, NEW y \in Nat, NEW z \in Nat
  PROVE  /\ x * z \in Nat /\ y * z \in Nat
         /\ x <= y => x * z <= y * z
         /\ x < y /\ z > 0 => x * z < y * z
<1>1. x * z \in Nat /\ y * z \in Nat
  OBVIOUS
<1>2. ASSUME x <= y PROVE x * z <= y * z /\ (x < y /\ z > 0 => x * z < y * z)
  <2>1. PICK k \in Nat : y = x + k
    <3>1. y - x \in Nat /\ y = x + (y - x)
      BY <1>2
    <3> QED
      BY <3>1
  <2>2. y * z = x * z + k * z /\ k * z \in Nat
    BY <2>1
  <2>3. k > 0 /\ z > 0 => k * z > 0
    OBVIOUS
  <2> QED
    BY <1>1, <2>1, <2>2, <2>3
<1> QED
  BY <1>1, <1>2

\* A weighted term over common factors grows with its metric.
LEMMA TermGrows ==
  ASSUME NEW w \in Nat, NEW n \in Nat, NEW m \in Nat,
         NEW a \in Nat \ {0}, NEW b \in Nat \ {0}, NEW c \in Nat \ {0},
         w > 0 => n <= m
  PROVE  /\ w * n * a * b * c \in Nat /\ w * m * a * b * c \in Nat
         /\ w * n * a * b * c <= w * m * a * b * c
         /\ w > 0 /\ n < m => w * n * a * b * c < w * m * a * b * c
<1> DEFINE x == w * n
           y == w * m
           xa == x * a
           ya == y * a
           xb == xa * b
           yb == ya * b
<1>1. x \in Nat /\ y \in Nat /\ x <= y /\ (w > 0 /\ n < m => x < y)
  <2>1. n * w \in Nat /\ m * w \in Nat /\ x = n * w /\ y = m * w
    OBVIOUS
  <2>2. CASE w = 0
    BY <2>1, <2>2
  <2>3. CASE w > 0
    <3>1. n <= m
      BY <2>3
    <3>2. n * w <= m * w /\ (n < m => n * w < m * w)
      BY <2>3, <3>1, ProductGrows
    <3> QED
      BY <2>1, <3>2
  <2> QED
    BY <2>2, <2>3
<1> HIDE DEF x, y
<1>2. xa \in Nat /\ ya \in Nat /\ xa <= ya /\ (x < y => xa < ya)
  BY <1>1, ProductGrows
<1> HIDE DEF xa, ya
<1>3. xb \in Nat /\ yb \in Nat /\ xb <= yb /\ (xa < ya => xb < yb)
  BY <1>2, ProductGrows
<1> HIDE DEF xb, yb
<1>4. xb * c \in Nat /\ yb * c \in Nat /\ xb * c <= yb * c /\ (xb < yb => xb * c < yb * c)
  BY <1>3, ProductGrows
<1> QED
  BY <1>1, <1>2, <1>3, <1>4 DEF x, y, xa, ya, xb, yb

\* The combinations of finitely many values are finitely many: one for each
\* pair of values of the first axis and the last.
LEMMA CombosAreFinite == ASSUME NEW f \in Forms PROVE IsFiniteSet(Combos(f))
<1> DEFINE D == DOMAIN Strats[f.strategy]
           last == Len(Strats[f.strategy])
           S == AxisValues(f.axes[1])
           T == AxisValues(f.axes[last])
           with == [p \in S \X T |-> [a \in D |-> p[a]]]
           Image == { with[p] : p \in S \X T }
<1>1. last \in {1, 2} /\ D = 1 .. last /\ 1 \in D /\ last \in D
  BY FieldsOfForm
<1>2. IsFiniteSet(S \X T)
  <2>1. f.axes[1] \in AxisRange /\ f.axes[last] \in AxisRange
    BY <1>1, FieldsOfForm
  <2>2. IsFiniteSet(S) /\ IsFiniteSet(T)
    BY <2>1, AxisValuesHold
  <2> HIDE DEF S, T
  <2> QED
    BY <2>2, FS_Product
<1>3. IsFiniteSet(Image)
  <2>1. with \in Surjection(S \X T, Image)
    BY DEF Surjection
  <2> QED
    BY <1>2, <2>1, FS_Surjection
<1>4. Combos(f) \in SUBSET Image
  <2> SUFFICES ASSUME NEW c \in Combos(f) PROVE c \in Image
    OBVIOUS
  <2>1. c = [a \in D |-> c[a]] /\ \A a \in D : c[a] \in AxisValues(f.axes[a])
    BY CombosAre
  <2> DEFINE p == <<c[1], c[last]>>
  <2>2. p \in S \X T
    BY <1>1, <2>1
  <2>3. \A a \in D : p[a] = c[a]
    <3> HIDE DEF D, last
    <3>1. CASE last = 1
      BY <1>1, <3>1
    <3>2. CASE last = 2
      BY <1>1, <3>2
    <3> QED
      BY <1>1, <3>1, <3>2
  <2>4. with[p] = [a \in D |-> p[a]]
    BY <2>2
  <2> HIDE DEF p, with, D
  <2>5. with[p] = c
    BY <2>1, <2>3, <2>4
  <2> QED
    BY <2>2, <2>5
<1> HIDE DEF Image
<1> QED
  BY <1>3, <1>4, FS_Subset

\* The rows of a ticker are finitely many, and have metrics.
LEMMA RowsHaveMetrics ==
  ASSUME PageInv, page = "charts", NEW focus \in clicked.tickers
  PROVE  IsFiniteSet(Rows(focus)) /\ \A r \in Rows(focus) : r.metrics \in Metrics
<1> DEFINE C == Combos(clicked)
           rows == [c \in C |-> RowOf(clicked, focus, c)]
<1>1. clicked \in Forms /\ engine \in Engines
  BY DEF PageInv
<1>2. Rows(focus) = { RowOf(clicked, focus, c) : c \in C }
  BY RowsAre
<1>3. rows \in Surjection(C, Rows(focus))
  <2> HIDE DEF C
  <2> QED
    BY <1>2 DEF Surjection
<1>4. IsFiniteSet(Rows(focus))
  BY <1>1, <1>3, CombosAreFinite, FS_Surjection
<1>5. ASSUME NEW r \in Rows(focus) PROVE r.metrics \in Metrics
  <2>1. PICK c \in C : r = RowOf(clicked, focus, c)
    BY <1>2
  <2>2. RunOf(clicked, focus, c) \in Grid(clicked)
    BY <2>1 DEF Grid, RunOf
  <2>3. r.metrics = engine[RunOf(clicked, focus, c)]
    BY <2>1 DEF RowOf
  <2> QED
    BY <1>1, <2>2, <2>3, EngineAssumption
<1> QED
  BY <1>4, <1>5

\* A column of the frame on its scale: MinMax() of the values of a field.
LEMMA ColumnScales ==
  ASSUME NEW rows, IsFiniteSet(rows), rows # {}, NEW field,
         \A r \in rows : r.metrics[field] \in Int
  PROVE  LET S == { q.metrics[field] : q \in rows }
         IN  \E d \in Nat \ {0} :
               /\ \A r \in rows : MinMax(S, r.metrics[field]).d = d /\ MinMax(S, r.metrics[field]).n \in 0 .. d
               /\ \A q, r \in rows :
                    /\ q.metrics[field] <= r.metrics[field]
                         => MinMax(S, q.metrics[field]).n <= MinMax(S, r.metrics[field]).n
                    /\ q.metrics[field] < r.metrics[field]
                         => MinMax(S, q.metrics[field]).n < MinMax(S, r.metrics[field]).n
<1> DEFINE S == { q.metrics[field] : q \in rows }
           values == [q \in rows |-> q.metrics[field]]
<1>1. S \in SUBSET Int /\ S # {}
  OBVIOUS
<1>2. IsFiniteSet(S)
  <2>1. values \in Surjection(rows, S)
    BY DEF Surjection
  <2> QED
    BY <2>1, FS_Surjection
<1>3. \A q \in rows : q.metrics[field] \in S
  OBVIOUS
<1> HIDE DEF S
<1>4. PICK d \in Nat \ {0} :
           /\ \A v \in S : MinMax(S, v).d = d /\ MinMax(S, v).n \in 0 .. d
           /\ \A u, v \in S : /\ u <= v => MinMax(S, u).n <= MinMax(S, v).n
                              /\ u < v => MinMax(S, u).n < MinMax(S, v).n
  BY <1>1, <1>2, MinMaxKeepsOrder
<1> QED
  BY <1>3, <1>4 DEF S

\* A run at least as good in every metric with weight, and better in one, has
\* the larger score.
LEMMA DominatingScores ==
  ASSUME NEW rows, IsFiniteSet(rows), \A q \in rows : q.metrics \in Metrics,
         NEW w \in Weights, NEW best \in rows, NEW r \in rows,
         w.sharpe > 0 => r.metrics.sharpe >= best.metrics.sharpe,
         w.dd > 0 => r.metrics.max_drawdown <= best.metrics.max_drawdown,
         w.win > 0 => r.metrics.win_rate >= best.metrics.win_rate,
         w.trade > 0 => Min({r.metrics.trades, w.min_trades}) >= Min({best.metrics.trades, w.min_trades}),
         \/ w.sharpe > 0 /\ r.metrics.sharpe > best.metrics.sharpe
         \/ w.dd > 0 /\ r.metrics.max_drawdown < best.metrics.max_drawdown
         \/ w.win > 0 /\ r.metrics.win_rate > best.metrics.win_rate
         \/ w.trade > 0 /\ Min({r.metrics.trades, w.min_trades}) > Min({best.metrics.trades, w.min_trades})
  PROVE  ~(Composite(rows, w, r) <= Composite(rows, w, best))
<1> DEFINE Scaled(field, q) == MinMax({ p.metrics[field] : p \in rows }, q.metrics[field])
           S(q) == Scaled("sharpe", q).n
           X(q) == Scaled("max_drawdown", q).n
           W(q) == Scaled("win_rate", q).n
           T(q) == Min({q.metrics.trades, w.min_trades})
           t == w.min_trades
<1>1. /\ w.sharpe \in Nat /\ w.dd \in Nat /\ w.win \in Nat /\ w.trade \in Nat
      /\ t \in Nat \ {0}
  BY SweepAssumption
<1>2. \A q \in rows : /\ q.metrics.sharpe \in Int /\ q.metrics.max_drawdown \in Int
                      /\ q.metrics.win_rate \in Int /\ q.metrics.trades \in Nat
  BY DEF Metrics
<1>3. PICK ds \in Nat \ {0} :
        /\ \A q \in rows : Scaled("sharpe", q).d = ds /\ S(q) \in 0 .. ds
        /\ \A p, q \in rows : /\ p.metrics.sharpe <= q.metrics.sharpe => S(p) <= S(q)
                              /\ p.metrics.sharpe < q.metrics.sharpe => S(p) < S(q)
  BY <1>2, ColumnScales
<1>4. PICK dx \in Nat \ {0} :
        /\ \A q \in rows : Scaled("max_drawdown", q).d = dx /\ X(q) \in 0 .. dx
        /\ \A p, q \in rows : /\ p.metrics.max_drawdown <= q.metrics.max_drawdown => X(p) <= X(q)
                              /\ p.metrics.max_drawdown < q.metrics.max_drawdown => X(p) < X(q)
  BY <1>2, ColumnScales
<1>5. PICK dw \in Nat \ {0} :
        /\ \A q \in rows : Scaled("win_rate", q).d = dw /\ W(q) \in 0 .. dw
        /\ \A p, q \in rows : /\ p.metrics.win_rate <= q.metrics.win_rate => W(p) <= W(q)
                              /\ p.metrics.win_rate < q.metrics.win_rate => W(p) < W(q)
  BY <1>2, ColumnScales
<1>6. \A q \in rows : T(q) \in Nat
  <2> SUFFICES ASSUME NEW q \in rows PROVE T(q) \in Nat
    OBVIOUS
  <2>1. q.metrics.trades \in Nat
    BY <1>2
  <2>2. T(q) = IF q.metrics.trades <= t THEN q.metrics.trades ELSE t
    <3>1. \A y, z \in Int : Min({y, z}) = IF y <= z THEN y ELSE z
      BY OfTwo
    <3>2. q.metrics.trades \in Int /\ t \in Int
      BY <1>1, <2>1
    <3> QED
      BY <3>1, <3>2, Zenon
  <2> QED
    BY <1>1, <2>1, <2>2
<1>7. \A q \in rows :
        Composite(rows, w, q) =
          w.sharpe * S(q) * dx * dw * t + w.dd * (dx - X(q)) * ds * dw * t
            + w.win * W(q) * ds * dx * t + w.trade * T(q) * ds * dx * dw
  <2> SUFFICES ASSUME NEW q \in rows
               PROVE  Composite(rows, w, q) =
                        w.sharpe * S(q) * dx * dw * t + w.dd * (dx - X(q)) * ds * dw * t
                          + w.win * W(q) * ds * dx * t + w.trade * T(q) * ds * dx * dw
    OBVIOUS
  <2>1. Scaled("sharpe", q).d = ds /\ Scaled("max_drawdown", q).d = dx /\ Scaled("win_rate", q).d = dw
    BY <1>3, <1>4, <1>5
  <2>2. /\ LowDrawdown(Scaled("max_drawdown", q)).n = dx - X(q)
        /\ LowDrawdown(Scaled("max_drawdown", q)).d = dx
    BY <2>1 DEF LowDrawdown
  <2>3. Composite(rows, w, q) =
          w.sharpe * S(q) * LowDrawdown(Scaled("max_drawdown", q)).d * Scaled("win_rate", q).d * t
            + w.dd * LowDrawdown(Scaled("max_drawdown", q)).n * Scaled("sharpe", q).d * Scaled("win_rate", q).d * t
            + w.win * W(q) * Scaled("sharpe", q).d * LowDrawdown(Scaled("max_drawdown", q)).d * t
            + w.trade * T(q) * Scaled("sharpe", q).d * LowDrawdown(Scaled("max_drawdown", q)).d * Scaled("win_rate", q).d
    BY Zenon DEF Composite
  <2> QED
    BY <2>1, <2>2, <2>3, Zenon
<1>8. /\ S(r) \in Nat /\ S(best) \in Nat /\ W(r) \in Nat /\ W(best) \in Nat
      /\ dx - X(r) \in Nat /\ dx - X(best) \in Nat /\ T(r) \in Nat /\ T(best) \in Nat
  <2> HIDE DEF Scaled, S, X, W, T
  <2>1. S(r) \in Nat /\ S(best) \in Nat
    BY <1>3
  <2>2. W(r) \in Nat /\ W(best) \in Nat
    BY <1>5
  <2>3. X(r) \in 0 .. dx /\ X(best) \in 0 .. dx
    BY <1>4
  <2>4. dx - X(r) \in Nat /\ dx - X(best) \in Nat
    BY <2>3
  <2> QED
    BY <1>6, <2>1, <2>2, <2>4
<1>9. /\ w.sharpe > 0 => S(best) <= S(r)
      /\ w.dd > 0 => dx - X(best) <= dx - X(r)
      /\ w.win > 0 => W(best) <= W(r)
      /\ w.trade > 0 => T(best) <= T(r)
      /\ \/ w.sharpe > 0 /\ S(best) < S(r)
         \/ w.dd > 0 /\ dx - X(best) < dx - X(r)
         \/ w.win > 0 /\ W(best) < W(r)
         \/ w.trade > 0 /\ T(best) < T(r)
  <2>1. /\ r.metrics.sharpe >= best.metrics.sharpe => S(best) <= S(r)
        /\ r.metrics.sharpe > best.metrics.sharpe => S(best) < S(r)
    <3> HIDE DEF Scaled, S
    <3> QED
      BY <1>2, <1>3
  <2>2. /\ r.metrics.max_drawdown <= best.metrics.max_drawdown => dx - X(best) <= dx - X(r)
        /\ r.metrics.max_drawdown < best.metrics.max_drawdown => dx - X(best) < dx - X(r)
    <3> HIDE DEF Scaled, X
    <3>1. X(r) \in Int /\ X(best) \in Int
      BY <1>4
    <3>2. /\ r.metrics.max_drawdown <= best.metrics.max_drawdown => X(r) <= X(best)
          /\ r.metrics.max_drawdown < best.metrics.max_drawdown => X(r) < X(best)
      BY <1>4
    <3> QED
      BY <3>1, <3>2
  <2>3. /\ r.metrics.win_rate >= best.metrics.win_rate => W(best) <= W(r)
        /\ r.metrics.win_rate > best.metrics.win_rate => W(best) < W(r)
    <3> HIDE DEF Scaled, W
    <3> QED
      BY <1>2, <1>5
  <2>4. /\ T(r) >= T(best) => T(best) <= T(r)
        /\ T(r) > T(best) => T(best) < T(r)
    <3> HIDE DEF T
    <3> QED
      BY <1>6
  <2> HIDE DEF S, X, W
  <2> QED
    BY <2>1, <2>2, <2>3, <2>4
<1> DEFINE s(q) == w.sharpe * S(q) * dx * dw * t
           x(q) == w.dd * (dx - X(q)) * ds * dw * t
           n(q) == w.win * W(q) * ds * dx * t
           a(q) == w.trade * T(q) * ds * dx * dw
<1>10. Composite(rows, w, r) = s(r) + x(r) + n(r) + a(r)
  BY <1>7
<1>11. Composite(rows, w, best) = s(best) + x(best) + n(best) + a(best)
  BY <1>7
<1> HIDE DEF S, X, W, T, t
<1>12. s(best) \in Nat /\ s(r) \in Nat /\ s(best) <= s(r) /\ (w.sharpe > 0 /\ S(best) < S(r) => s(best) < s(r))
  BY <1>1, <1>8, <1>9, TermGrows
<1>13. /\ x(best) \in Nat /\ x(r) \in Nat /\ x(best) <= x(r)
       /\ w.dd > 0 /\ dx - X(best) < dx - X(r) => x(best) < x(r)
  BY <1>1, <1>8, <1>9, TermGrows
<1>14. n(best) \in Nat /\ n(r) \in Nat /\ n(best) <= n(r) /\ (w.win > 0 /\ W(best) < W(r) => n(best) < n(r))
  BY <1>1, <1>8, <1>9, TermGrows
<1>15. a(best) \in Nat /\ a(r) \in Nat /\ a(best) <= a(r) /\ (w.trade > 0 /\ T(best) < T(r) => a(best) < a(r))
  BY <1>1, <1>8, <1>9, TermGrows
<1> HIDE DEF s, x, n, a
<1> QED
  BY <1>9, <1>10, <1>11, <1>12, <1>13, <1>14, <1>15

LEMMA WinnersStand == ASSUME PageInv PROVE WinnerNotDominated
<1> SUFFICES ASSUME page = "charts", NEW focus \in clicked.tickers, NEW w \in Weights,
                    NEW best \in Winners(focus, w), NEW r \in Rows(focus),
                    w.sharpe > 0 => r.metrics.sharpe >= best.metrics.sharpe,
                    w.dd > 0 => r.metrics.max_drawdown <= best.metrics.max_drawdown,
                    w.win > 0 => r.metrics.win_rate >= best.metrics.win_rate,
                    w.trade > 0 => Min({r.metrics.trades, w.min_trades})
                                     >= Min({best.metrics.trades, w.min_trades}),
                    \/ w.sharpe > 0 /\ r.metrics.sharpe > best.metrics.sharpe
                    \/ w.dd > 0 /\ r.metrics.max_drawdown < best.metrics.max_drawdown
                    \/ w.win > 0 /\ r.metrics.win_rate > best.metrics.win_rate
                    \/ w.trade > 0 /\ Min({r.metrics.trades, w.min_trades})
                                        > Min({best.metrics.trades, w.min_trades})
             PROVE  FALSE
  BY DEF WinnerNotDominated
<1>1. IsFiniteSet(Rows(focus)) /\ \A q \in Rows(focus) : q.metrics \in Metrics
  BY RowsHaveMetrics
<1>2. best \in Rows(focus) /\ Composite(Rows(focus), w, r) <= Composite(Rows(focus), w, best)
  BY Zenon DEF Winners
<1>3. ~(Composite(Rows(focus), w, r) <= Composite(Rows(focus), w, best))
  BY <1>1, <1>2, DominatingScores
<1> QED
  BY <1>2, <1>3

-----------------------------------------------------------------------------
(* The sweep page: the theorems *)

\* Through every interleaving of the form, the cache, failed and interrupted
\* runs of the script, the charts are those of one sweep that was asked for,
\* each cell labelled with what was run in it.
THEOREM SweepsAreShown == PageSpec => []ShownAsRun
BY PageInvHolds, ChartsShow, PTL

\* However many runs the sweep has and wherever the sliders stand, none of them
\* beats the winner in all that has weight.
THEOREM WinnersAreNotDominated == PageSpec => []WinnerNotDominated
BY PageInvHolds, WinnersStand, PTL

=============================================================================
