------------------------------ MODULE RunBatch ------------------------------
(***************************************************************************)
(* run_batch(): a list of configurations fanned out over threads, in waves *)
(* of at most hw runs whose futures are all collected before the next wave *)
(* is launched.  A run is one worker step here (Backtest models what it    *)
(* does inside); it ends with a result or an exception.                    *)
(***************************************************************************)
EXTENDS Naturals, Sequences, FiniteSets

CONSTANTS
    Name,       \* the strategy names a configuration may carry
    Known,      \* those make_strategy() knows
    Batches,    \* the batches a caller may pass
    Reported    \* what std::thread::hardware_concurrency() may report; 0 is "unknowable"

\* A configuration: the fields run_batch() itself looks at.
BacktestConfig == [name : Name, use_proto : BOOLEAN]

ASSUME BatchAssumption ==
    /\ Known \subseteq Name
    /\ Batches \subseteq Seq(BacktestConfig)
    /\ Reported \subseteq Nat

VARIABLES
    configs,    \* the argument
    hw,         \* the size of a wave
    pc,         \* where the calling thread is
    warm,       \* the protobuf descriptors are built
    start,      \* configurations in the waves before this one
    launched,   \* configurations launched so far
    job,        \* the state of each configuration's run
    results     \* the indices of the configurations whose results were collected

vars == <<configs, hw, pc, warm, start, launched, job, results>>

Index == 1 .. Len(configs)

\* Faulty variant: the wave has the size hardware_concurrency() reports, 0 too.
WaveSizesAsReported == Reported

WaveSizes == { IF n = 0 THEN 4 ELSE n : n \in Reported }

Init ==
    /\ configs \in Batches
    /\ hw \in WaveSizes
    /\ pc = "validate"
    /\ warm = FALSE
    /\ start = 0
    /\ launched = 0
    /\ job = [i \in Index |-> "none"]
    /\ results = <<>>

-----------------------------------------------------------------------------
(* The calling thread, before the first wave *)

\* Every distinct name is tried once.  Faulty variant: only the first one is.
NamesKnownFirstOnly == configs # <<>> => configs[1].name \in Known

NamesKnown == \A i \in Index : configs[i].name \in Known

Validate ==
    /\ pc = "validate"
    /\ pc' = IF configs = <<>> THEN "returned" ELSE IF NamesKnown THEN "warm" ELSE "threw"
    /\ UNCHANGED <<configs, hw, warm, start, launched, job, results>>

NeedsProto == \E i \in Index : configs[i].use_proto

WarmUp ==
    /\ pc = "warm"
    /\ warm' = NeedsProto
    /\ pc' = "launch"
    /\ UNCHANGED <<configs, hw, start, launched, job, results>>

-----------------------------------------------------------------------------
(* The waves *)

\* The configuration after the last of the wave.  Faulty variant: one more.
WaveEndOneMore == IF start + hw + 1 < Len(configs) THEN start + hw + 1 ELSE Len(configs)

WaveEnd == IF start + hw < Len(configs) THEN start + hw ELSE Len(configs)

Launch ==
    /\ pc = "launch" /\ launched < WaveEnd
    /\ launched' = launched + 1
    /\ job' = [job EXCEPT ![launched'] = "running"]
    /\ pc' = IF launched' = WaveEnd THEN "collect" ELSE "launch"
    /\ UNCHANGED <<configs, hw, warm, start, results>>

\* std::async could not start a thread: the exception leaves the wave.
LaunchThrows ==
    /\ pc = "launch" /\ launched < WaveEnd
    /\ pc' = "unwind"
    /\ UNCHANGED <<configs, hw, warm, start, launched, job, results>>

\* get() of the wave's futures in order, each waiting for its own run.
\* Faulty variant: whichever run of the wave is ready is collected.
CollectAny ==
    /\ pc = "collect"
    /\ \E i \in start + 1 .. launched :
         /\ job[i] = "ready"
         /\ \A k \in 1 .. Len(results) : results[k] # i
         /\ results' = Append(results, i)
    /\ UNCHANGED <<configs, hw, pc, warm, start, launched, job>>

Collect ==
    /\ pc = "collect"
    /\ Len(results) < launched
    /\ job[Len(results) + 1] = "ready"
    /\ results' = Append(results, Len(results) + 1)
    /\ UNCHANGED <<configs, hw, pc, warm, start, launched, job>>

\* The wave is drained: on to the next one, or back to the caller.
NextWave ==
    /\ pc = "collect"
    /\ Len(results) = launched
    /\ start' = launched
    /\ pc' = IF launched < Len(configs) THEN "launch" ELSE "returned"
    /\ UNCHANGED <<configs, hw, warm, launched, job, results>>

\* Faulty variant: a failed run is never noticed.
GetThrowsNever == FALSE /\ UNCHANGED vars

\* get() rethrows what the run threw.
GetThrows ==
    /\ pc = "collect"
    /\ Len(results) < launched
    /\ job[Len(results) + 1] = "failed"
    /\ pc' = "unwind"
    /\ UNCHANGED <<configs, hw, warm, start, launched, job, results>>

\* Leaving the wave destroys its futures, and the destructor of a future of
\* std::async waits for its run.  Faulty variant: it does not.
UnwindAtOnce ==
    /\ pc = "unwind"
    /\ pc' = "threw"
    /\ UNCHANGED <<configs, hw, warm, start, launched, job, results>>

Unwind ==
    /\ pc = "unwind"
    /\ \A i \in Index : job[i] # "running"
    /\ pc' = "threw"
    /\ UNCHANGED <<configs, hw, warm, start, launched, job, results>>

Caller ==
    \/ Validate \/ WarmUp
    \/ Launch \/ LaunchThrows \/ Collect \/ GetThrows \/ NextWave
    \/ Unwind

-----------------------------------------------------------------------------
(* The workers: run_backtest() on a copy of the configuration *)

WorkerEnds(i) ==
    /\ job[i] = "running"
    /\ \E end \in {"ready", "failed"} : job' = [job EXCEPT ![i] = end]
    /\ UNCHANGED <<configs, hw, pc, warm, start, launched, results>>

Left == pc \in {"returned", "threw"} /\ UNCHANGED vars

Next == Caller \/ (\E i \in Index : WorkerEnds(i)) \/ Left

Spec == Init /\ [][Next]_vars

\* The calling thread and every worker keep running; a run ends (Backtest).
FairSpec ==
    /\ Spec
    /\ WF_vars(Caller)
    /\ WF_vars(\E i \in Index : WorkerEnds(i))

-----------------------------------------------------------------------------
(* Properties *)

TypeOK ==
    /\ configs \in Batches
    /\ hw \in Nat \ {0}
    /\ pc \in {"validate", "warm", "launch", "collect", "unwind", "returned", "threw"}
    /\ warm \in BOOLEAN
    /\ launched \in 0 .. Len(configs)
    /\ start \in 0 .. launched
    /\ job \in [Index -> {"none", "running", "ready", "failed"}]
    /\ results \in Seq(1 .. launched)

\* "at most hw runs are in flight at once" (run_backtest.cpp:158): in every
\* state, a failure and the unwinding after it included.
InFlightBounded == Cardinality({ i \in Index : job[i] = "running" }) <= hw

\* However run_batch() is left, no run outlives it.
NoOrphans == pc \in {"returned", "threw"} => \A i \in Index : job[i] # "running"

\* No run starts before what the whole batch needs was seen to: an unknown
\* strategy name anywhere has refused the batch, and the descriptors of the
\* protobuf messages, which two runs would otherwise build at the same time,
\* are built if this run parses any.
NothingStartsUnprepared ==
    \A i \in Index : job[i] # "none" =>
      /\ \A k \in Index : configs[k].name \in Known
      /\ configs[i].use_proto => warm

\* The fan-out implements the sequential batch: whatever order the runs end
\* in, the results come in the order of the configurations, all of them
\* unless the call throws.
Batch == INSTANCE SequentialBatch
    WITH outcome <- IF pc \in {"returned", "threw"} THEN pc ELSE "none"

ImplementsSequential == Batch!Spec

\* The call always comes back.
Terminates == <>(pc \in {"returned", "threw"})

=============================================================================
