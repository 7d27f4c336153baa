----------------------------- MODULE SliceThreads -----------------------------
(***************************************************************************)
(* x264 as X264Encoder sets it up (b_sliced_threads): every frame is coded *)
(* by a pool of threads, a slice each.  A frame is returned as soon as its *)
(* slices are coded, while the threads still filter them, and the jobs are *)
(* reaped at the next call.  A thread that waits sleeps on a condition     *)
(* variable until a broadcast, then tests its condition again.             *)
(***************************************************************************)
EXTENDS AnnexB

CONSTANTS Threads,    \* param.i_threads: threads of the pool and slices
          Keyframes,  \* the frames with b_keyframe; the first is the IDR one
          Payloads,   \* the payloads a NAL unit may have
          MaxFrames   \* bound on the frames of a behaviour

ASSUME SliceThreadsAssumption ==
    /\ Threads \in Nat \ {0, 1} /\ MaxFrames \in Nat
    /\ 1 \in Keyframes

\* A payload ends with its trailing bits (bs_rbsp_trailing), or with the last bit
\* of the arithmetic coder: its last byte is not zero.
ASSUME PayloadsAssumption ==
    \A p \in Payloads : p \in Seq(0..255) /\ (p # <<>> => p[Len(p)] # 0)

VARIABLES
    main,     \* where the thread that calls x264_encoder_encode is
    next,     \* i of the loop it is in
    frame,    \* the frame of the last call
    context,  \* thread[s]: active, b_thread_active; pass, i_threadslice_pass;
              \* fdec, the frame it works on; out, the frame whose slice is in
              \* out.nal, or 0; final, the last frame whose rows of slice s
              \* are all filtered
    pool,     \* threadpool: uninit, how many jobs are free; run and done, the
              \* jobs queued and finished; exit.  A job is its slice, and there
              \* is room for all of them in every list
    worker,   \* the threads of the pool: where, with which job, how it ended
    asleep,   \* the condition variable a thread sleeps on, or Awake
    units,    \* the NAL units of the last frame returned
    whole,    \* whether these are all of its NAL units
    payload,  \* their payload, until the next call
    found     \* the NAL units Packetize found, until the next call

codecVars  == <<context, pool, worker, asleep>>
streamVars == <<units, whole, payload, found>>
vars == <<main, next, frame, codecVars, streamVars>>

Slices == 1..Threads
Main == 0  \* the caller among the threads

Awake == <<"awake", 0>>
RunFill == <<"run.cv_fill", 0>>
DoneFill == <<"done.cv_fill", 0>>
ContextCv(s) == <<"cv", s>>

Sleeps(t, cv) == asleep' = [asleep EXCEPT ![t] = cv]
Wakes(cv) ==
    asleep' = [t \in DOMAIN asleep |-> IF asleep[t] = cv THEN Awake ELSE asleep[t]]

\* Mutant of Broadcast: the pass is set, and nobody is woken.
SetPass(s, pass, ctx) ==
    /\ context' = [context EXCEPT ![s] = [ctx EXCEPT !.pass = pass]]
    /\ UNCHANGED asleep

\* x264_threadslice_cond_broadcast.
Broadcast(s, pass, ctx) ==
    /\ context' = [context EXCEPT ![s] = [ctx EXCEPT !.pass = pass]]
    /\ Wakes(ContextCv(s))

Init ==
    /\ main = "idle" /\ next = 1 /\ frame = 0
    /\ context = [s \in Slices |->
                  [active |-> FALSE, pass |-> 0, fdec |-> 0, out |-> 0, final |-> 0]]
    /\ pool = [uninit |-> Threads, run |-> <<>>, done |-> {}, exit |-> FALSE]
    /\ worker = [w \in Slices |-> [at |-> "fetch", slice |-> 0, failed |-> FALSE]]
    /\ asleep = [t \in 0..Threads |-> Awake]
    /\ units = <<>> /\ whole = TRUE /\ payload = <<>> /\ found = <<>>
-----------------------------------------------------------------------------
\* i_threads, chosen by x264 for a picture of so many rows of macroblocks.  With
\* only one there are no slice threads.
AutoThreads(cpus, rows) ==
    LET most == IF rows < 8 THEN 1 ELSE IF rows > 512 THEN 128 ELSE rows \div 4
    IN  IF cpus < most THEN cpus ELSE most

\* i_threadslice_start of slice s, which is i_threadslice_end of the one before.
SliceStart(s, rows) == (rows * (s - 1) + Threads \div 2) \div Threads

\* EncodeFrame calls x264_encoder_encode.
EncodeFrame ==
    /\ main = "idle" /\ frame < MaxFrames
    /\ main' = "reap" /\ frame' = frame + 1
    /\ payload' = <<>> /\ found' = <<>>
    /\ UNCHANGED <<next, codecVars, units, whole>>

\* Shutdown calls x264_encoder_close.
Shutdown ==
    /\ main = "idle"
    /\ main' = "close"
    /\ UNCHANGED <<next, frame, codecVars, streamVars>>

\* Mutant of Pending: only the first slice is waited for.
PendingFirst == {s \in {1} : context[s].active}

\* The slices threadpool_wait_all has to wait for.
Pending == {s \in Slices : context[s].active}

\* One turn of threadpool_wait_all's loop.  A slice that failed ends it: the
\* call returns -1, X264Encoder says so, and main leaves its loop and closes
\* the encoder; the slices not waited for yet stay active until then.
threadpool_wait_all ==
    /\ main \in {"reap", "close"} /\ Pending # {}
    /\ LET s == Min(Pending)
       IN  \/ /\ \A job \in pool.done : job.slice # s
              /\ Sleeps(Main, DoneFill)
              /\ UNCHANGED <<main, context, pool>>
           \/ \E job \in pool.done :
              /\ job.slice = s
              /\ context' = [context EXCEPT ![s].active = FALSE]
              /\ pool' = [pool EXCEPT !.done = @ \ {job}, !.uninit = @ + 1]
              /\ main' = IF ~job.failed THEN main
                         ELSE IF main = "reap" THEN "close" ELSE "exit"
              /\ UNCHANGED asleep
    /\ UNCHANGED <<next, frame, worker, streamVars>>

AllReaped ==
    /\ main \in {"reap", "close"} /\ Pending = {}
    /\ main' = IF main = "reap" THEN "setup" ELSE "exit"
    /\ UNCHANGED <<next, frame, codecVars, streamVars>>

\* The contexts are emptied and set up for the frame.
Setup ==
    /\ main = "setup"
    /\ context' = [s \in Slices |->
                      [context[s] EXCEPT !.active = TRUE, !.pass = 0,
                                         !.fdec = frame, !.out = 0]]
    /\ main' = "dispatch" /\ next' = 1
    /\ UNCHANGED <<frame, pool, worker, asleep, streamVars>>

\* x264_threadpool_run for slice next.
Dispatch ==
    /\ main = "dispatch"
    /\ pool.uninit > 0
    /\ pool' = [pool EXCEPT !.uninit = @ - 1, !.run = Append(@, next)]
    /\ Wakes(RunFill)
    /\ IF next < Threads THEN next' = next + 1 /\ UNCHANGED main
                         ELSE next' = 1 /\ main' = "await"
    /\ UNCHANGED <<frame, context, worker, streamVars>>

\* Mutant of Coded: the last slice dispatched stands for all.
LastCoded(s) == context[Threads].pass >= 1

Coded(s) == context[s].pass >= 1

\* x264_threadslice_cond_wait for pass 1 of slice next.
Await ==
    /\ main = "await"
    /\ IF ~Coded(next) THEN Sleeps(Main, ContextCv(next)) /\ UNCHANGED <<main, next>>
       ELSE /\ UNCHANGED asleep
            /\ IF next < Threads THEN next' = next + 1 /\ UNCHANGED main
                                 ELSE main' = "return" /\ UNCHANGED next
    /\ UNCHANGED <<frame, context, pool, worker, streamVars>>

\* The NAL units before the slices, the n-th one as slice -n.
Leading ==
    IF frame \notin Keyframes THEN <<>>
    ELSE [n \in 1..3 |-> [frame |-> frame, slice |-> -n]]

\* Some of the slices, from top to bottom.
InOrder(some) ==
    LET Above[n \in 0..Threads] ==
            IF n = 0 THEN <<>>
            ELSE IF n \in some THEN Append(Above[n - 1], n) ELSE Above[n - 1]
    IN  Above[Threads]

Types(us) ==
    [i \in DOMAIN us |->
        IF us[i].slice < 0 THEN <<"sps", "pps", "sei">>[-us[i].slice]
        ELSE IF us[i].frame = 1 THEN "idr" ELSE "slice"]

\* What is in the contexts is put in order, encapsulated and returned;
\* Packetize splits it.
Return ==
    /\ main = "return"
    /\ LET coded == InOrder({s \in Slices : context[s].out # 0})
       IN  units' = Leading \o [i \in DOMAIN coded |->
                        [frame |-> context[coded[i]].out, slice |-> coded[i]]]
    /\ whole' = (\A s \in Slices : context[s].out # 0)
    /\ payload' \in Payloads
    /\ \E data \in {encoder_encapsulate_nals(Types(units'), payload')} :
          found' = Split(data)
    /\ main' = "idle"
    /\ UNCHANGED <<next, frame, codecVars>>

\* x264_threadpool_delete.
Exit ==
    /\ main = "exit"
    /\ pool' = [pool EXCEPT !.exit = TRUE]
    /\ Wakes(RunFill)
    /\ main' = "join"
    /\ UNCHANGED <<next, frame, context, worker, streamVars>>

Join ==
    /\ main = "join"
    /\ \A w \in Slices : worker[w].at = "ended"
    /\ main' = "closed"
    /\ UNCHANGED <<next, frame, codecVars, streamVars>>
-----------------------------------------------------------------------------
\* threadpool_thread: the test of exit, then the one under the mutex of run.
Fetch(w) ==
    /\ worker[w].at = "fetch"
    /\ \/ /\ pool.exit
          /\ worker' = [worker EXCEPT ![w].at = "ended"]
          /\ UNCHANGED <<pool, asleep>>
       \/ /\ pool.run # <<>>
          /\ worker' = [worker EXCEPT ![w] =
                 [at |-> "code", slice |-> Head(pool.run), failed |-> FALSE]]
          /\ pool' = [pool EXCEPT !.run = Tail(@)]
          /\ UNCHANGED asleep
       \/ /\ pool.run = <<>> /\ ~pool.exit
          /\ Sleeps(w, RunFill)
          /\ UNCHANGED <<pool, worker>>
    /\ UNCHANGED context

\* Mutant of PassAfter: the failure of a slice is not broadcast as the end of
\* its filtering.
PassCoded(failed) == 1

\* The pass broadcast when slice_write has coded the slice, or has failed.
PassAfter(failed) == IF failed THEN 2 ELSE 1

\* slice_write codes the slice from the previous frame, or fails on the way
\* (no memory for its bits) and leaves no NAL unit.
Code(w) ==
    LET s == worker[w].slice
    IN  /\ worker[w].at = "code"
        /\ \E failed \in BOOLEAN :
              /\ worker' = [worker EXCEPT ![w].at = IF failed THEN "push" ELSE "filter",
                                          ![w].failed = failed]
              /\ Broadcast(s, PassAfter(failed),
                           [context[s] EXCEPT !.out = IF failed THEN @ ELSE context[s].fdec])
        /\ UNCHANGED pool

\* Its rows are filtered, but the one that borders on the previous slice.
Filter(w) ==
    LET s == worker[w].slice
    IN  /\ worker[w].at = "filter"
        /\ worker' = [worker EXCEPT ![w].at = IF s > 1 THEN "first" ELSE "push"]
        /\ Broadcast(s, 2, [context[s] EXCEPT !.final = IF s > 1 THEN @ ELSE context[s].fdec])
        /\ UNCHANGED pool

\* That row, when the previous slice is filtered.
FilterFirst(w) ==
    LET s == worker[w].slice
    IN  /\ worker[w].at = "first"
        /\ IF context[s - 1].pass >= 2
           THEN /\ worker' = [worker EXCEPT ![w].at = "push"]
                /\ context' = [context EXCEPT ![s].final = context[s].fdec]
                /\ UNCHANGED asleep
           ELSE Sleeps(w, ContextCv(s - 1)) /\ UNCHANGED <<worker, context>>
        /\ UNCHANGED pool

\* The job, with what slices_write returned, to the list done.
Push(w) ==
    /\ worker[w].at = "push"
    /\ pool' = [pool EXCEPT !.done =
           @ \cup {[slice |-> worker[w].slice, failed |-> worker[w].failed]}]
    /\ worker' = [worker EXCEPT ![w] = [at |-> "fetch", slice |-> 0, failed |-> FALSE]]
    /\ Wakes(DoneFill)
    /\ UNCHANGED context

Caller == /\ asleep[Main] = Awake
          /\ \/ threadpool_wait_all \/ AllReaped \/ Setup \/ Dispatch \/ Await
             \/ Return \/ Exit \/ Join

Worker(w) == /\ asleep[w] = Awake
             /\ Fetch(w) \/ Code(w) \/ Filter(w) \/ FilterFirst(w) \/ Push(w)
             /\ UNCHANGED <<main, next, frame, streamVars>>

Next == EncodeFrame \/ Shutdown \/ Caller \/ \E w \in Slices : Worker(w)

\* Fairness: the threads run while they do not sleep.  Nothing makes the
\* program call EncodeFrame or Shutdown.
Spec == /\ Init /\ [][Next]_vars
        /\ WF_vars(Caller)
        /\ \A w \in Slices : WF_vars(Worker(w))
-----------------------------------------------------------------------------
SliceThreadsTypeOK ==
    /\ main \in {"idle", "reap", "setup", "dispatch", "await", "return",
                 "close", "exit", "join", "closed"}
    /\ next \in Slices /\ frame \in 0..MaxFrames
    /\ context \in [Slices -> [active : BOOLEAN, pass : 0..2, fdec : 0..MaxFrames,
                               out : 0..MaxFrames, final : 0..MaxFrames]]
    /\ pool \in [uninit : 0..Threads, run : Seq(Slices),
                 done : SUBSET [slice : Slices, failed : BOOLEAN], exit : BOOLEAN]
    /\ worker \in [Slices -> [at : {"fetch", "code", "filter", "first", "push", "ended"},
                              slice : 0..Threads, failed : BOOLEAN]]
    /\ whole \in BOOLEAN

\* The slices of a frame whose coding failed, as far as the caller may find out.
FailedSlices ==
    {job.slice : job \in {j \in pool.done : j.failed}}
        \cup {worker[w].slice : w \in {v \in Slices : worker[v].failed}}

\* A frame is returned with all NAL units that were coded for it and no other:
\* its parameter sets if it is a keyframe, then its slices from top to bottom,
\* and a slice is missing only if coding it failed and the next call will say so.
WholeFrame ==
    main = "idle" /\ frame > 0 =>
        LET coded == InOrder(Slices \ FailedSlices)
        IN  units = Leading \o
                [i \in DOMAIN coded |-> [frame |-> frame, slice |-> coded[i]]]

\* While any slice of a frame is coded, the frame before it, which it is
\* predicted from, has been filtered to its last row by all the other threads.
ReferenceComplete ==
    \A w \in Slices :
        LET fdec == context[worker[w].slice].fdec
        IN  worker[w].at = "code" /\ fdec > 1 =>
                \A s \in Slices : context[s].final >= fdec - 1

\* What a thread that sleeps is waiting for.
CallerWaits ==
    \/ /\ main \in {"reap", "close"} /\ asleep[Main] = DoneFill /\ Pending # {}
       /\ \A job \in pool.done : job.slice # Min(Pending)
    \/ main = "await" /\ asleep[Main] = ContextCv(next) /\ ~Coded(next)
WorkerWaits(w) ==
    \/ /\ worker[w].at = "fetch" /\ asleep[w] = RunFill
       /\ pool.run = <<>> /\ ~pool.exit
    \/ /\ worker[w].at = "first" /\ asleep[w] = ContextCv(worker[w].slice - 1)
       /\ context[worker[w].slice - 1].pass < 2

\* No wake-up is lost: what a thread sleeps for has not come yet.
NoLostWakeup ==
    /\ asleep[Main] # Awake => CallerWaits
    /\ \A w \in Slices : asleep[w] # Awake => WorkerWaits(w)

\* The next step of a thread is there to be taken.
CallerRuns ==
    /\ asleep[Main] = Awake /\ main \notin {"idle", "closed"}
    /\ main = "dispatch" => pool.uninit > 0
    /\ main = "join" => \A w \in Slices : worker[w].at = "ended"
WorkerRuns(w) == asleep[w] = Awake /\ worker[w].at # "ended"

\* The threads never all wait for one another: while a call of the encoder is
\* under way, one of them has a step to take, whichever slices have failed.
NeverStuck ==
    main \in {"idle", "closed"} \/ CallerRuns \/ \E w \in Slices : WorkerRuns(w)

\* The NAL units of the returned frame are found again in its bytes.
RoundTrip ==
    payload # <<>> =>
        found = [i \in DOMAIN units |->
                    <<Header[Types(units)[i]]>> \o nal_escape(payload)]

\* As its caller sees it, the encoder returns one frame a call, never one after
\* a frame that lacks a slice, and every call of it returns, whatever the order
\* its threads run in and whichever slices fail.
Abstract == INSTANCE FrameEncoder WITH
    call <- IF main = "idle" THEN "none"
            ELSE IF main = "closed" THEN "closed"
            ELSE IF main \in {"close", "exit", "join"} THEN "closing" ELSE "begun"

ImplementsFrameEncoder == Abstract!Spec
===============================================================================
