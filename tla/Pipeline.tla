------------------------------- MODULE Pipeline -------------------------------
(***************************************************************************)
(* One request through the middlewares of NewRouter, and the counters of   *)
(* Metrics that it moves and that a scrape reads, one by one.              *)
(*                                                                         *)
(*   CorrelationID, Logger, Metrics, Recovery, SecurityHeaders,            *)
(*   PeerIdentity, ClientCert, Token, RequireIdentity, ContentType,        *)
(*   MaxBodySize      one step, Refused or on to the limiters              *)
(*   RateLimit        one step; whom it admits is RateLimiter's affair     *)
(*   Concurrency      the steps of ConcurrencyLimit, which this extends    *)
(*   handler          Answer, then Return; it may panic before or after    *)
(*   and back         Recover, then one step for each counter              *)
(*                                                                         *)
(* Which credentials are refused is the matter of Access.  Status codes    *)
(* stand for the answers; bodies, headers and the log are left out.        *)
(***************************************************************************)
EXTENDS ConcurrencyLimit, SequencesExt

CONSTANTS PathOf,        \* PathOf[r]: the path of request r
          Series,        \* the series of the page: sorted routes, then "other"
          FrontCodes,    \* answers of the middlewares before the limiters
          HandlerCodes,  \* answers of the handlers
          Bounds,        \* len(latencyBucketsSeconds)
          MaxArrivals    \* bound on the requests of a behaviour

MetricsPath == "/metrics"
Unmatched   == "other"

\* NewMetrics keeps one series for a path; 429 and 503 are the answers of the limiters.
ASSUME SeriesAssumption  == /\ Series \in Seq(STRING) /\ IsInjective(Series)
                            /\ {Unmatched, MetricsPath} \subseteq Range(Series)
ASSUME PathOfAssumption  == DOMAIN PathOf = Reqs
ASSUME CodesAssumption   == /\ FrontCodes \cup HandlerCodes \subseteq Nat \ {0, 429, 503}
                            /\ IsFiniteSet(FrontCodes \cup HandlerCodes)
ASSUME BoundsAssumption  == Bounds \in Nat /\ MaxArrivals \in Nat

VARIABLES stage,    \* stage[r]: idle, limits (about to ask the rate limiter), inner (in the
                    \* concurrency limit or the handler), unwind (back in Recovery), observe
          status,   \* status[r]: statusCode of the interceptors; 0 until WriteHeader
          panicked, \* panicked[r]: the handler of r panics
          todo,     \* todo[r]: the counters that r has still to move
          counter,  \* the atomic counters
          toRead,   \* toRead[r]: what the scrape r has still to read
          page,     \* page[r]: what it has read
          ended,    \* history: requests ended on each path, aborted or not
          aborted,  \* history: those that ended without a complete answer
          arrivals  \* requests so far

pvars == <<stage, status, panicked, todo, counter, toRead, page, ended, aborted, arrivals>>

Codes == FrontCodes \cup HandlerCodes \cup {200, 429, 500, 503}
Paths == Range(Series)

Counters ==
  {<<"rateLimited">>, <<"overloaded">>, <<"panics">>}
    \cup {<<k, p>> : k \in {"total", "sum"}, p \in Paths}
    \cup {<<"status", p, code>> : p \in Paths, code \in Codes}
    \cup {<<"bucket", p, i>> : p \in Paths, i \in 1..Bounds + 1}

Incremented(c) == [counter EXCEPT ![c] = @ + 1]

EmptyPage == [c \in {} |-> 0]

PipeInit ==
  /\ Init
  /\ stage = [r \in Reqs |-> "idle"]
  /\ status = [r \in Reqs |-> 0]
  /\ panicked = [r \in Reqs |-> FALSE]
  /\ todo = [r \in Reqs |-> <<>>]
  /\ counter = [c \in Counters |-> 0]
  /\ toRead = [r \in Reqs |-> <<>>]
  /\ page = [r \in Reqs |-> EmptyPage]
  /\ ended = [p \in Paths |-> 0]
  /\ aborted = [p \in Paths |-> 0]
  /\ arrivals = 0

-----------------------------------------------------------------------------
(* Metrics *)

\* A path that is not a route is counted under one label.
SeriesOf(r) == IF PathOf[r] \in Paths THEN PathOf[r] ELSE Unmatched

\* Faulty variant: the total comes last, as in the page.
ObservationTotalLast(p, code, d) ==
  <<<<"status", p, code>>>> \o (IF d = 0 THEN <<>> ELSE <<<<"sum", p>>>>)
    \o <<<<"bucket", p, d + 1>>, <<"total", p>>>>

\* What observe moves, in its order, for a latency of d: bucket d + 1 of the
\* histogram, and a unit of time unless it rounds to 0 microseconds.
Observation(p, code, d) ==
  <<<<"total", p>>, <<"status", p, code>>>>
    \o (IF d = 0 THEN <<>> ELSE <<<<"sum", p>>>>) \o <<<<"bucket", p, d + 1>>>>

\* What Render reads, in the order of the page; "codes" is the Range over byStatus.
Rendering ==
  <<<<"rateLimited">>, <<"overloaded">>, <<"panics">>>>
    \o [i \in 1..Len(Series) |-> <<"codes", Series[i]>>]
    \o FlattenSeq([i \in 1..Len(Series) |->
         [j \in 1..Bounds + 1 |-> <<"bucket", Series[i], j>>]
           \o <<<<"sum", Series[i]>>, <<"total", Series[i]>>>>])

\* The codes of byStatus, sorted.
CodesSeen(p) ==
  LET seen == {code \in Codes : counter[<<"status", p, code>>] > 0}
  IN  CHOOSE s \in [1..Cardinality(seen) -> seen] :
        \A i, j \in 1..Cardinality(seen) : i < j => s[i] < s[j]

-----------------------------------------------------------------------------
(* The way in *)

Limits == <<pc, slots, inUse>>

\* A request is refused for its certificate, its token, its identity, its content
\* type or its size, or goes on; none of these decisions is shared.
Arrive(r) ==
  /\ stage[r] = "idle" /\ arrivals < MaxArrivals
  /\ arrivals' = arrivals + 1
  /\ \/ \E code \in FrontCodes : /\ status' = [status EXCEPT ![r] = code]
                                 /\ stage' = [stage EXCEPT ![r] = "unwind"]
     \/ stage' = [stage EXCEPT ![r] = "limits"] /\ UNCHANGED status
  /\ UNCHANGED <<Limits, panicked, todo, counter, toRead, page, ended, aborted>>

\* RateLimitMiddleware: the body is drained, then the refusal counted and sent.
RateLimited(r) ==
  /\ stage[r] = "limits"
  /\ counter' = Incremented(<<"rateLimited">>)
  /\ status' = [status EXCEPT ![r] = 429]
  /\ stage' = [stage EXCEPT ![r] = "unwind"]
  /\ UNCHANGED <<Limits, panicked, todo, toRead, page, ended, aborted, arrivals>>

Enter(r) ==
  /\ stage[r] = "limits"
  /\ Exempt(r) \/ Acquire(r) \/ Refuse(r)
  /\ stage' = [stage EXCEPT ![r] = "inner"]
  /\ UNCHANGED <<status, panicked, todo, counter, toRead, page, ended, aborted, arrivals>>

Wait(r) ==
  /\ stage[r] = "inner"
  /\ Take(r) \/ NoFreeSlot(r) \/ Timeout(r) \/ ClientGone(r)
  /\ UNCHANGED pvars

\* Faulty variant: the drain of a rejected body has no deadline.
RejectUnbounded(r) == FALSE /\ UNCHANGED <<Limits, pvars>>

\* The reject function of ConcurrencyLimitMiddleware.
Reject(r) ==
  /\ stage[r] = "inner"
  /\ RefusedAnswered(r) \/ RejectedAnswered(r)
  /\ counter' = Incremented(<<"overloaded">>)
  /\ status' = [status EXCEPT ![r] = 503]
  /\ stage' = [stage EXCEPT ![r] = IF pc'[r] = "idle" THEN "unwind" ELSE "inner"]
  /\ UNCHANGED <<panicked, todo, toRead, page, ended, aborted, arrivals>>

-----------------------------------------------------------------------------
(* The handlers *)

InHandler(r) == stage[r] = "inner" /\ pc[r] \in {"handling", "exempt"} /\ ~panicked[r]

\* The first byte of the answer; ServeMetrics sends it before it renders.
Answer(r) ==
  /\ InHandler(r) /\ status[r] = 0
  /\ \E code \in HandlerCodes : status' = [status EXCEPT ![r] = code]
  /\ toRead' = [toRead EXCEPT ![r] = IF PathOf[r] = MetricsPath /\ status'[r] = 200
                                     THEN Rendering ELSE <<>>]
  /\ UNCHANGED <<Limits, stage, panicked, todo, counter, page, ended, aborted, arrivals>>

\* A step of Render.
Read(r) ==
  /\ InHandler(r) /\ toRead[r] # <<>>
  /\ LET c == Head(toRead[r]) IN
       IF c[1] = "codes"
       THEN /\ toRead' = [toRead EXCEPT ![r] =
                 [i \in 1..Len(CodesSeen(c[2])) |-> <<"status", c[2], CodesSeen(c[2])[i]>>]
                   \o Tail(@)]
            /\ UNCHANGED page
       ELSE /\ toRead' = [toRead EXCEPT ![r] = Tail(@)]
            /\ page' = [page EXCEPT ![r] =
                 [x \in DOMAIN @ \cup {c} |-> IF x = c THEN counter[c] ELSE @[x]]]
  /\ UNCHANGED <<Limits, stage, status, panicked, todo, counter, ended, aborted, arrivals>>

\* The deferred functions give the slot back, then the place in the share.
Leave(r) ==
  /\ Finish(r) \/ ExemptServed(r)
  /\ stage' = [stage EXCEPT ![r] = IF pc'[r] = "idle" THEN "unwind" ELSE "inner"]

Return(r) ==
  /\ InHandler(r) /\ status[r] # 0 /\ toRead[r] = <<>>
  /\ Leave(r)
  /\ UNCHANGED <<status, panicked, todo, counter, toRead, page, ended, aborted, arrivals>>

\* Faulty variant: the slot is given back by a statement, which a panic skips.
PanicKeepsSlot(r) ==
  /\ InHandler(r) /\ PathOf[r] # MetricsPath
  /\ panicked' = [panicked EXCEPT ![r] = TRUE]
  /\ pc' = [pc EXCEPT ![r] = IF @ = "handling" THEN "leaving" ELSE "idle"]
  /\ stage' = [stage EXCEPT ![r] = IF pc'[r] = "idle" THEN "unwind" ELSE "inner"]
  /\ UNCHANGED <<slots, inUse, status, todo, counter, toRead, page, ended, aborted, arrivals>>

\* A handler panics, before or after the first byte of its answer.
Panic(r) ==
  /\ InHandler(r) /\ PathOf[r] # MetricsPath
  /\ panicked' = [panicked EXCEPT ![r] = TRUE]
  /\ Leave(r)
  /\ UNCHANGED <<status, todo, counter, toRead, page, ended, aborted, arrivals>>

GiveShareBack(r) ==
  /\ stage[r] = "inner"
  /\ Release(r)
  /\ stage' = [stage EXCEPT ![r] = "unwind"]
  /\ UNCHANGED <<status, panicked, todo, counter, toRead, page, ended, aborted, arrivals>>

-----------------------------------------------------------------------------
(* The way out *)

\* An interceptor that has seen no WriteHeader reports 200.
Reported(r) == IF status'[r] = 0 THEN 200 ELSE status'[r]

\* MetricsMiddleware measures the latency and starts to count.
StartObserving(r) ==
  /\ \E d \in 0..Bounds :
       todo' = [todo EXCEPT ![r] = Observation(SeriesOf(r), Reported(r), d)]
  /\ stage' = [stage EXCEPT ![r] = "observe"]
  /\ UNCHANGED <<ended, aborted, page, panicked>>

Done(r) ==
  /\ stage' = [stage EXCEPT ![r] = "idle"]
  /\ panicked' = [panicked EXCEPT ![r] = FALSE]
  /\ ended' = [ended EXCEPT ![SeriesOf(r)] = @ + 1]
  /\ page' = [page EXCEPT ![r] = EmptyPage]

\* http.ErrAbortHandler crosses Metrics and Logger, which only act on a return.
Abort(r) ==
  /\ Done(r)
  /\ aborted' = [aborted EXCEPT ![SeriesOf(r)] = @ + 1]
  /\ status' = [status EXCEPT ![r] = 0]
  /\ UNCHANGED todo

\* Faulty variant: the 500 is written whether or not an answer has started.
RecoverAlways500(r) ==
  /\ stage[r] = "unwind"
  /\ IF panicked[r]
     THEN /\ counter' = Incremented(<<"panics">>)
          /\ status' = [status EXCEPT ![r] = 500] /\ StartObserving(r)
     ELSE UNCHANGED <<counter, status>> /\ StartObserving(r)
  /\ UNCHANGED <<Limits, toRead, arrivals>>

\* Faulty variant: Metrics inside Recovery, so that a panic passes it by.
RecoverOutermost(r) ==
  /\ stage[r] = "unwind"
  /\ IF panicked[r]
     THEN counter' = Incremented(<<"panics">>) /\ Done(r) /\ UNCHANGED <<aborted, todo>>
          /\ status' = [status EXCEPT ![r] = 0]
     ELSE UNCHANGED <<counter, status>> /\ StartObserving(r)
  /\ UNCHANGED <<Limits, toRead, arrivals>>

\* RecoveryMiddleware: a panic becomes a 500, or aborts the connection when the
\* answer has started.
Recover(r) ==
  /\ stage[r] = "unwind"
  /\ IF panicked[r]
     THEN /\ counter' = Incremented(<<"panics">>)
          /\ IF status[r] # 0
             THEN Abort(r)
             ELSE status' = [status EXCEPT ![r] = 500] /\ StartObserving(r)
     ELSE UNCHANGED <<counter, status>> /\ StartObserving(r)
  /\ UNCHANGED <<Limits, toRead, arrivals>>

Observe(r) ==
  /\ stage[r] = "observe"
  /\ IF todo[r] # <<>>
     THEN /\ counter' = Incremented(Head(todo[r]))
          /\ todo' = [todo EXCEPT ![r] = Tail(@)]
          /\ UNCHANGED <<stage, status, panicked, page, ended>>
     ELSE /\ Done(r)
          /\ status' = [status EXCEPT ![r] = 0]
          /\ UNCHANGED <<counter, todo>>
  /\ UNCHANGED <<Limits, toRead, aborted, arrivals>>

-----------------------------------------------------------------------------
Served(r) ==
  \/ RateLimited(r)
  \/ Enter(r)
  \/ Wait(r)
  \/ Reject(r)
  \/ Answer(r)
  \/ Read(r)
  \/ Return(r)
  \/ Panic(r)
  \/ GiveShareBack(r)
  \/ Recover(r)
  \/ Observe(r)

AllDone == arrivals = MaxArrivals /\ \A r \in Reqs : stage[r] = "idle"

Quiet == AllDone /\ UNCHANGED <<Limits, pvars>>

PipeNext == Quiet \/ \E r \in Reqs : Arrive(r) \/ Served(r)

\* Goroutines run, timers fire, drains have a window, bodies a read timeout, and a
\* handler computes for a finite time.
PipeFairness == \A r \in Reqs : WF_<<Limits, pvars>>(Served(r))

PipeSpec == PipeInit /\ [][PipeNext]_<<Limits, pvars>> /\ PipeFairness

-----------------------------------------------------------------------------
(* Properties *)

SumOver(f, S) == FoldFunctionOnSet(+, 0, f, S)

Answers(f, p)   == SumOver(f, {c \in DOMAIN f : c[1] = "status" /\ c[2] = p})
Histogram(f, p) == SumOver(f, {c \in DOMAIN f : c[1] = "bucket" /\ c[2] = p})

\* A page that counts while requests are being counted never shows more answers, a
\* larger +Inf bucket or more units of time than its count (observe against Render).
ScrapeIsCoherent ==
  \A r \in Reqs : \A p \in Paths :
    <<"total", p>> \in DOMAIN page[r] =>
      /\ Histogram(page[r], p) <= page[r][<<"total", p>>]
      /\ Answers(page[r], p) <= page[r][<<"total", p>>]
      /\ page[r][<<"sum", p>>] <= page[r][<<"total", p>>]

\* When no request is left, each has been counted once in the total, in its status
\* and in the histogram, unless it was aborted; every refusal of a limiter is in its
\* own counter and in its status (MetricsMiddleware, RecoveryMiddleware).
CountedOnce ==
  (\A r \in Reqs : stage[r] = "idle") =>
    /\ \A p \in Paths : /\ counter[<<"total", p>>] = ended[p] - aborted[p]
                        /\ Answers(counter, p) = counter[<<"total", p>>]
                        /\ Histogram(counter, p) = counter[<<"total", p>>]
    /\ counter[<<"rateLimited">>]
         = SumOver(counter, {<<"status", p, 429>> : p \in Paths})
    /\ counter[<<"overloaded">>]
         = SumOver(counter, {<<"status", p, 503>> : p \in Paths})

\* An answer that has started is never replaced by another: a panic after the first
\* byte aborts instead (RecoveryMiddleware).
AnswerIsFinal ==
  [][\A r \in Reqs : status[r] # 0 /\ status'[r] # status[r] => stage'[r] = "idle"]_<<Limits, pvars>>

\* Whatever panics, leaves or is refused, the limiter only ever makes its own steps.
ImplementsLimit == Init /\ [][Next]_Limits

\* Every request ends, also when its handler panics or its client leaves.
EveryRequestEnds == \A r \in Reqs : stage[r] # "idle" ~> stage[r] = "idle"
=============================================================================
