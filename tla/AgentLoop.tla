---- MODULE AgentLoop ----
(***************************************************************************)
(* The tool loop of a turn's backend, with the permission gate in front of *)
(* every tool and the hub (InteractionHub, extended here) behind the gate. *)
(*                                                                         *)
(* A turn alternates between the model and its tools: it asks the provider *)
(* for a step, consumes the step's stream, and makes the step's tool calls *)
(* one after another.  For each it emits the call and the dispatch fact,   *)
(* persists the operation, passes the gate, runs the tool, emits the       *)
(* result and advances the operation.  What it emits stays in memory until *)
(* the turn is finalized; operations and permission records are durable at *)
(* once.  The token of turn.stop is looked at before a step and raced with *)
(* the request to the provider, nowhere else.                              *)
(***************************************************************************)
EXTENDS InteractionHub

CONSTANTS
    Turns,       \* turns of this host that run a tool loop
    CallsOf,     \* the calls a turn makes, in their order: [Turns -> Seq(Calls)]
    Modes,       \* the permission modes a host may be started with
    Categories,  \* the categories of the calls the model may ask for
    MaxSteps     \* max_steps: the limit on the steps of a run

AllCategories == {"read", "web_read", "file_write", "fs_destructive", "shell_unsafe",
                  "git_destructive", "privileged", "custom_tool"}

ASSUME LoopAssumption ==
    /\ CallsOf \in [Turns -> Seq(Calls)]
    /\ \A p \in Calls : \E t \in Turns : \E i \in DOMAIN CallsOf[t] : CallsOf[t][i] = p
    /\ \A t, u \in Turns : \A i \in DOMAIN CallsOf[t], j \in DOMAIN CallsOf[u] :
          CallsOf[t][i] = CallsOf[u][j] => t = u /\ i = j
    /\ Modes \subseteq {"explore", "ask", "execute", "bypass"}
    /\ Categories \subseteq AllCategories
    /\ MaxSteps \in Nat \ {0}

VARIABLES
    mode,  \* the host's permission mode
    loop,  \* [Turns -> Loop]: where each turn is
    call   \* [Calls -> Call]: what became of each call

loopVars == <<mode, loop, call>>
vars == <<hubVars, loopVars>>

\* "next" is the call being made, "last" the last call of the step.
LoopStates == {"top", "request", "consume", "emit", "dispatch", "gate", "asking",
               "record", "execute", "running", "result", "ended", "killed"}
Loop == [pc : LoopStates, step : Nat, next : Nat \ {0}, last : Nat, stop : BOOLEAN,
         verdict : Decisions]

\* "emitted" is what the turn has emitted about the call: nothing, the call with
\* its dispatch fact, or its result too.  "row" is the operation's durable state.
Call == [category : Categories, emitted : {"nothing", "dispatch", "result"},
         row : {"none", "dispatched", "completed"}, gate : Record,
         tool : {"idle", "running", "finished"}]

Current(t) == CallsOf[t][loop[t].next]

Init ==
    /\ HubInit
    /\ mode \in Modes
    /\ loop = [t \in Turns |-> [pc |-> "top", step |-> 0, next |-> 1, last |-> 0,
                                stop |-> FALSE, verdict |-> "deny"]]
    /\ call \in [Calls -> {[category |-> k, emitted |-> "nothing", row |-> "none",
                            gate |-> "none", tool |-> "idle"] : k \in Categories}]

\* The mode by category matrix.
Policy(m, category) ==
    CASE m = "bypass" -> "allow"
      [] category \in {"read", "web_read"} -> "allow"
      [] m = "explore" -> "block"
      [] m = "execute" /\ category = "file_write" -> "allow"
      [] OTHER -> "prompt"

Go(t, pc) == loop' = [loop EXCEPT ![t].pc = pc]

-----------------------------------------------------------------------------
(* The model's part of a step.                                             *)

\* Stopped, out of steps, or on to the provider.
Top(t) ==
    /\ loop[t].pc = "top"
    /\ IF loop[t].stop \/ loop[t].step = MaxSteps
         THEN Go(t, "ended")
         ELSE loop' = [loop EXCEPT ![t] = [@ EXCEPT !.pc = "request",
                                                   !.step = loop[t].step + 1]]
    /\ UNCHANGED <<hubVars, mode, call>>

\* The token cancels the request.
Interrupt(t) ==
    /\ loop[t].pc = "request" /\ loop[t].stop
    /\ Go(t, "ended")
    /\ UNCHANGED <<hubVars, mode, call>>

\* The provider answers with a stream or with an error; a cancelled token wins.
Provide(t) ==
    /\ loop[t].pc = "request" /\ ~loop[t].stop
    /\ \E pc \in {"consume", "ended"} : Go(t, pc)
    /\ UNCHANGED <<hubVars, mode, call>>

\* The stream ends: with an error, with no call, or with calls to make.
Consume(t) ==
    /\ loop[t].pc = "consume"
    /\ \/ Go(t, "ended")
       \/ \E n \in loop[t].next .. Len(CallsOf[t]) :
             loop' = [loop EXCEPT ![t] = [@ EXCEPT !.pc = "emit", !.last = n]]
    /\ UNCHANGED <<hubVars, mode, call>>

-----------------------------------------------------------------------------
(* One tool call.                                                          *)

\* The call and its dispatch fact are yielded.
Emit(t) ==
    /\ loop[t].pc = "emit"
    /\ call' = [call EXCEPT ![Current(t)].emitted = "dispatch"]
    /\ Go(t, "dispatch")
    /\ UNCHANGED <<hubVars, mode>>

\* A write of the operation row, which may fail unnoticed.
WriteRow(t, state) ==
    \/ /\ call' = [call EXCEPT ![Current(t)].row = state]
       /\ UNCHANGED errors
    \/ /\ errors < MaxErrors
       /\ errors' = errors + 1
       /\ UNCHANGED call

\* The operation row becomes durable at the dispatch boundary.
Dispatch(t) ==
    /\ loop[t].pc = "dispatch"
    /\ WriteRow(t, "dispatched")
    /\ Go(t, "gate")
    /\ UNCHANGED <<pending, ask, answerer, resolved, outcome, present, shown, up, mode>>

Judge(t, pc, verdict) ==
    loop' = [loop EXCEPT ![t] = [@ EXCEPT !.pc = pc, !.verdict = verdict]]

\* The gate: a host in bypass mode has none, and records nothing.
Gate(t) ==
    LET policy == Policy(mode, call[Current(t)].category) IN
    /\ loop[t].pc = "gate"
    /\ \/ /\ mode = "bypass"
          /\ Judge(t, "execute", "allow")
          /\ UNCHANGED hubVars
       \/ /\ mode # "bypass" /\ policy # "prompt"
          /\ Judge(t, "record", IF policy = "allow" THEN "allow" ELSE "deny")
          /\ UNCHANGED hubVars
       \/ /\ policy = "prompt"
          /\ Insert(Current(t))
          /\ Go(t, "asking")
    /\ UNCHANGED <<mode, call>>

\* Mutant: turn.stop ends a turn that waits for an answer.
AskedOrStopped(t) ==
    /\ loop[t].pc = "asking"
    /\ \/ /\ ask[Current(t)].pc = "done"
          /\ Judge(t, "record", IF Granted(Current(t)) THEN "allow" ELSE "deny")
          /\ UNCHANGED hubVars
       \/ /\ loop[t].stop /\ ask[Current(t)].pc = "wait"
          /\ ask' = [ask EXCEPT ![Current(t)].pc = "gone"]
          /\ Go(t, "ended")
          /\ UNCHANGED <<pending, answerer, resolved, outcome, present, shown, errors, up>>
    /\ UNCHANGED <<mode, call>>

Asked(t) ==
    /\ loop[t].pc = "asking"
    /\ ask[Current(t)].pc = "done"
    /\ Judge(t, "record", IF Granted(Current(t)) THEN "allow" ELSE "deny")
    /\ UNCHANGED <<hubVars, mode, call>>

\* The gate's own record of the call; a denied call is not made.
RecordPermission(t) ==
    LET v == loop[t].verdict IN
    /\ loop[t].pc = "record"
    /\ \E row \in Written(v) :
          /\ call' = [call EXCEPT ![Current(t)].gate = row]
          /\ errors' = errors + Failures(row, v)
    /\ Go(t, IF v = "allow" THEN "execute" ELSE "result")
    /\ UNCHANGED <<pending, ask, answerer, resolved, outcome, present, shown, up, mode>>

StartTool(t) ==
    /\ loop[t].pc = "execute"
    /\ call' = [call EXCEPT ![Current(t)].tool = "running"]
    /\ Go(t, "running")
    /\ UNCHANGED <<hubVars, mode>>

\* The tool comes back, with a result or an error.
FinishTool(t) ==
    /\ loop[t].pc = "running"
    /\ call' = [call EXCEPT ![Current(t)].tool = "finished"]
    /\ Go(t, "result")
    /\ UNCHANGED <<hubVars, mode>>

\* Mutant: the token is looked at between the calls of a step.
AfterCallOrStop(k) ==
    [k EXCEPT !.pc = IF k.next < k.last /\ ~k.stop THEN "emit" ELSE "top", !.next = @ + 1,
              !.verdict = "deny"]

\* On to the next call of the step, or to the next step.
AfterCall(k) ==
    [k EXCEPT !.pc = IF k.next < k.last THEN "emit" ELSE "top", !.next = @ + 1,
              !.verdict = "deny"]

\* The result is yielded, then the operation row is advanced.
Result(t) ==
    LET p == Current(t)
        finished == [call[p] EXCEPT !.emitted = "result"]
    IN
    /\ loop[t].pc = "result"
    /\ \/ /\ call' = [call EXCEPT ![p] = [finished EXCEPT !.row = "completed"]]
          /\ UNCHANGED errors
       \/ /\ errors < MaxErrors
          /\ call' = [call EXCEPT ![p] = finished]
          /\ errors' = errors + 1
    /\ loop' = [loop EXCEPT ![t] = AfterCall(@)]
    /\ UNCHANGED <<pending, ask, answerer, resolved, outcome, present, shown, up, mode>>

-----------------------------------------------------------------------------
(* The rest of the host.                                                   *)

Over(t) == loop[t].pc \in {"ended", "killed"}

\* turn.stop cancels the token of a turn that runs.
StopTurn(t) ==
    /\ ~Over(t) /\ ~loop[t].stop
    /\ loop' = [loop EXCEPT ![t].stop = TRUE]
    /\ UNCHANGED <<hubVars, mode, call>>

\* At shutdown a turn's task is dropped where it waits.
DropTurn(t) ==
    /\ ~up /\ ~Over(t)
    /\ Go(t, "killed")
    /\ ask' = IF loop[t].pc = "asking" THEN [ask EXCEPT ![Current(t)].pc = "gone"] ELSE ask
    /\ UNCHANGED <<pending, answerer, resolved, outcome, present, shown, errors, up, mode, call>>

LoopStep(t) ==
    \/ Top(t) \/ Interrupt(t) \/ Emit(t) \/ Dispatch(t) \/ Gate(t) \/ Asked(t)
    \/ RecordPermission(t) \/ StartTool(t) \/ Result(t)

Outside(t) == Provide(t) \/ Consume(t) \/ FinishTool(t)

HubStep ==
    /\ \/ \E p \in Calls : AskStep(p)
       \/ \E c \in Clients, p \in Calls, d \in Decisions : Take(c, p, d)
       \/ \E c \in Clients : AnswerStep(c) \/ DropAnswer(c)
       \/ \E s \in Sessions : Open(s)
       \/ up /\ Shutdown
    /\ UNCHANGED loopVars

Next ==
    \/ \E t \in Turns : LoopStep(t) \/ Outside(t) \/ StopTurn(t) \/ DropTurn(t)
    \/ HubStep

Spec == Init /\ [][Next]_vars

\* The runtime polls what can run.  That a provider or a tool comes back, that a
\* client answers, stops or opens anything is up to others.
FairSpec ==
    /\ Spec
    /\ \A t \in Turns : WF_vars(LoopStep(t))
    /\ \A p \in Calls : WF_vars(AskStep(p) /\ UNCHANGED loopVars)
    /\ \A c \in Clients : WF_vars(AnswerStep(c) /\ UNCHANGED loopVars)

-----------------------------------------------------------------------------
(* What the loop promises.                                                 *)

TypeOK ==
    /\ HubType
    /\ mode \in Modes
    /\ loop \in [Turns -> Loop]
    /\ call \in [Calls -> Call]

\* "The single execution-boundary check": a tool runs only if the host's mode
\* allows its category, or if the mode prompts and the answer that took the
\* prompt was allow - through shutdown, racing answers and vanished answerers.
OnlyApprovedToolsRun ==
    \A p \in Calls : call[p].tool # "idle" =>
        LET policy == Policy(mode, call[p].category) IN
        policy = "allow" \/ (policy = "prompt" /\ resolved[p] = <<"allow">>)

\* Of all answers to a prompt one is resolved, and whatever overtakes what, the
\* hub's record, the gate's record and the turn go by that answer (unless the
\* answerer vanished after its record was written: then the turn is denied).
OneDecision ==
    \A p \in Calls :
        /\ Len(resolved[p]) <= 1
        /\ outcome[p] \in Decisions => resolved[p] = <<outcome[p]>>
        /\ call[p].gate \in Decisions /\ resolved[p] # <<>> /\ ask[p].answer # "dropped"
             => resolved[p] = <<call[p].gate>>

\* Between two steps, and when a run ends by itself, by an error or by a stop,
\* every call of the steps so far has its result: the conversation that is
\* finalized never holds a tool call without one.
LanesClosed ==
    \A t \in Turns : loop[t].pc \in {"top", "request", "consume", "ended"} =>
        \A i \in DOMAIN CallsOf[t] :
            i <= loop[t].last => call[CallsOf[t][i]].emitted = "result"

-----------------------------------------------------------------------------
(* The inductive invariant behind OnlyApprovedToolsRun, OneDecision and    *)
(* LanesClosed.                                                            *)

\* The places at which a call is being made, and those between the steps.
MakingCall == {"emit", "dispatch", "gate", "asking", "record", "execute", "running", "result"}
BetweenSteps == {"top", "request", "consume", "ended"}

\* A turn's next call is one of its step's, or the first after them.
PlaceIsInStep(t) ==
    /\ loop[t].last <= Len(CallsOf[t])
    /\ loop[t].pc \in MakingCall => loop[t].next <= loop[t].last
    /\ loop[t].pc \in BetweenSteps => loop[t].last < loop[t].next

\* Calls before the next one have their results.
PassedAreAnswered(t) ==
    \A i \in DOMAIN CallsOf[t] :
        i < loop[t].next => call[CallsOf[t][i]].emitted = "result"

\* From the next one on, calls were not recorded by the gate, unless it let the
\* next one through or turned it away, nor asked about, unless the next one is.
Judged(t) == loop[t].pc \in {"execute", "running", "result", "killed"}
BeingJudged(t) == loop[t].pc \in {"asking", "record"}

AheadIsUntouched(t) ==
    \A i \in DOMAIN CallsOf[t] : i >= loop[t].next =>
        /\ i = loop[t].next => Judged(t) \/ call[CallsOf[t][i]].gate = "none"
        /\ i = loop[t].next =>
             Judged(t) \/ BeingJudged(t) \/ ask[CallsOf[t][i]].pc = "unasked"
        /\ i > loop[t].next =>
             call[CallsOf[t][i]].gate = "none" /\ ask[CallsOf[t][i]].pc = "unasked"

PolicyOf(p) == Policy(mode, call[p].category)
Approved(p) == PolicyOf(p) = "allow" \/ (PolicyOf(p) = "prompt" /\ resolved[p] = <<"allow">>)
VerdictOf(p) == IF Granted(p) THEN "allow" ELSE "deny"

\* The verdict a turn carries is the policy's, or that of the prompt's answer.
VerdictIsJust(t) ==
    /\ loop[t].pc = "asking" =>
         PolicyOf(Current(t)) = "prompt" /\ ask[Current(t)].pc # "unasked"
    /\ loop[t].pc = "record" =>
         \/ /\ PolicyOf(Current(t)) = "prompt" /\ ask[Current(t)].pc = "done"
            /\ loop[t].verdict = VerdictOf(Current(t))
         \/ /\ ask[Current(t)].pc = "unasked"
            /\ loop[t].verdict = "allow" => PolicyOf(Current(t)) = "allow"
    /\ loop[t].pc \in {"execute", "running"} => Approved(Current(t))

\* The gate records the verdict of the prompt, if there was one.
RecordIsVerdict(p) ==
    call[p].gate \in Decisions =>
        ask[p].pc = "unasked" \/ (ask[p].pc = "done" /\ call[p].gate = VerdictOf(p))

RanIsApproved(p) == call[p].tool # "idle" => Approved(p)

LoopFacts ==
    /\ \A t \in Turns :
         PlaceIsInStep(t) /\ PassedAreAnswered(t) /\ AheadIsUntouched(t) /\ VerdictIsJust(t)
    /\ \A p \in Calls : RecordIsVerdict(p) /\ RanIsApproved(p)

LoopInv == TypeOK /\ HubFacts /\ LoopFacts
====
