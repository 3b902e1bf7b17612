---------------------------- MODULE AlertEvents ----------------------------
(***************************************************************************)
(* The alert rules of one bot and the evaluations that turn them into      *)
(* alert events (services/alert_event.py, services/alert_rule.py).         *)
(*                                                                         *)
(* An evaluation reads the run, then its events and the enabled rules, and *)
(* handles the rules one after the other.  A rule that fires is committed  *)
(* twice: first its event, then its last_triggered_at.  Evaluations of two *)
(* server processes interleave at every statement.                         *)
(***************************************************************************)
EXTENDS Integers, Sequences, SequencesExt

CONSTANTS
  Evaluators,      \* server processes that evaluate the bot's alerts
  AlertTemplates,  \* what a client may put into a rule
  MaxRules,        \* bound of the model: rules
  MaxAlerts,       \* bound of the model: alert events
  MaxErrors,       \* bound of the model: error events of the run
  MaxAlertTime,    \* bound of the model: the clock
  MaxEdits         \* bound of the model: changes of existing rules

ASSUME AlertBounds ==
  /\ IsFiniteSet(Evaluators)
  /\ {MaxRules, MaxAlerts, MaxErrors, MaxAlertTime, MaxEdits} \subseteq Nat
  /\ \A template \in AlertTemplates : template.cooldown \in Nat  \* Field(ge=0)

VARIABLES
  rules,       \* alert_rules
  alerts,      \* alert_events in the order of their ids, with the process
               \* that created them
  evaluation,  \* what each server process is doing
  alertClock,  \* the time of day of the database and the servers
  edits        \* changes of existing rules so far

alertVars == <<rules, alerts, evaluation, alertClock, edits>>

----------------------------------------------------------------------------
(* Values and rules                                                        *)

RuleIds == 1..MaxRules
NoTime == -1
AlertTimes == 0..MaxAlertTime

\* A value of the context or a threshold: whether float() accepts it, and it.
Number(n) == [numeric |-> TRUE, is |-> n]
Text(t) == [numeric |-> FALSE, is |-> t]
Same(a, b) == a.numeric = b.numeric /\ a.is = b.is

NoRule == [exists |-> FALSE]
RuleFrom(template) ==
  [exists |-> TRUE, set |-> template, enabled |-> TRUE, last |-> NoTime]

\* _matches.  The statuses of a run do not contain one another.
Matches(operator, threshold, actual) ==
  LET numbers == actual.numeric /\ threshold.numeric IN
  \/ operator = "gt" /\ numbers /\ actual.is > threshold.is
  \/ operator = "gte" /\ numbers /\ actual.is >= threshold.is
  \/ operator = "lt" /\ numbers /\ actual.is < threshold.is
  \/ operator = "lte" /\ numbers /\ actual.is <= threshold.is
  \/ operator = "eq" /\ Same(actual, threshold)
  \/ operator = "neq" /\ ~Same(actual, threshold)
  \/ operator = "contains" /\ ~actual.numeric /\ Same(actual, threshold)

AlertsOf(r) == {i \in DOMAIN alerts : alerts[i].rule = r}

\* get_latest_triggered_for_rule: latest triggered_at, then highest id.
LatestTime(r) == Max({alerts[i].at : i \in AlertsOf(r)})

InCooldown(r, cooldown) ==
  /\ cooldown > 0
  /\ AlertsOf(r) # {}
  /\ alertClock - LatestTime(r) < cooldown

----------------------------------------------------------------------------
(* Evaluations                                                             *)

Idle == [stage |-> "idle", force |-> FALSE, context |-> <<>>, todo |-> {},
         known |-> <<>>, rule |-> NoRule, since |-> 0]

AlertInit ==
  /\ rules = [r \in RuleIds |-> NoRule]
  /\ alerts = <<>>
  /\ evaluation = [p \in Evaluators |-> Idle]
  /\ alertClock = 0
  /\ edits = 0

Is(p, stage) == evaluation[p].stage = stage
Becomes(p, state) == evaluation' = [evaluation EXCEPT ![p] = state]
OnlyEvaluates == UNCHANGED <<rules, alerts, alertClock, edits>>

\* The values of a run under way with so many events of level "error".  Those
\* it does not have yet are missing, as all are in a request without a run.
Context(errors) == [status |-> Text("running"), error_count |-> Number(errors)]

\* What is left of the loop over the rules; after the last one the answer is sent.
Continue(e) == IF e.todo = {} THEN Idle ELSE e

\* The run and its events are read once, and the enabled rules are listed.
BeginAlerts(p) ==
  /\ Is(p, "idle")
  /\ \E force \in BOOLEAN, errors \in 0..MaxErrors :
       Becomes(p, Continue([Idle EXCEPT !.stage = "deciding", !.force = force,
         !.context = Context(errors),
         !.todo = {r \in RuleIds : rules[r].exists /\ rules[r].enabled}, !.known = rules]))
  /\ OnlyEvaluates

\* Newest rule first.
NextRule(p) == Max(evaluation[p].todo)

\* A rule is as the listing read it until the first commit expires it; from
\* then on it is read again when its turn comes.
RuleAsRead(p) ==
  IF evaluation[p].known = <<>> THEN rules[NextRule(p)] ELSE evaluation[p].known[NextRule(p)]

\* Mutant: the latest event is not consulted.
FiresAlways(p, rule) ==
  LET context == evaluation[p].context IN
  /\ rule.set.field \in DOMAIN context
  /\ Matches(rule.set.operator, rule.set.threshold, context[rule.set.field])

Fires(p, rule) ==
  LET context == evaluation[p].context IN
  /\ rule.set.field \in DOMAIN context
  /\ Matches(rule.set.operator, rule.set.threshold, context[rule.set.field])
  /\ evaluation[p].force \/ ~InCooldown(NextRule(p), rule.set.cooldown)

\* One turn of the loop over the rules.
DecideRule(p) ==
  /\ Is(p, "deciding")
  /\ RuleAsRead(p).exists
  /\ IF Fires(p, RuleAsRead(p))
     THEN Becomes(p, [evaluation[p] EXCEPT !.stage = "firing", !.rule = RuleAsRead(p),
                                           !.since = alertClock])
     ELSE Becomes(p, Continue([evaluation[p] EXCEPT !.todo = @ \ {NextRule(p)}]))
  /\ OnlyEvaluates

\* The event is committed.  The foreign key refuses it when the rule is gone.
CreateAlert(p) ==
  LET e == evaluation[p] IN
  /\ Is(p, "firing")
  /\ Len(alerts) < MaxAlerts
  /\ rules[NextRule(p)].exists
  /\ \E at \in e.since..alertClock :
       /\ alerts' = Append(alerts, [rule |-> NextRule(p), cooldown |-> e.rule.set.cooldown,
                                    at |-> at, forced |-> e.force, by |-> p])
       /\ Becomes(p, [e EXCEPT !.stage = "stamping", !.since = at])
  /\ UNCHANGED <<rules, alertClock, edits>>

\* last_triggered_at is committed, and every object of the session expires.
StampRule(p) ==
  LET e == evaluation[p] IN
  /\ Is(p, "stamping")
  /\ rules' = [rules EXCEPT ![NextRule(p)].last = e.since]
  /\ Becomes(p, Continue([e EXCEPT !.stage = "deciding", !.todo = @ \ {NextRule(p)},
                                   !.known = <<>>, !.rule = NoRule, !.since = 0]))
  /\ UNCHANGED <<alerts, alertClock, edits>>

\* The process dies, or a rule was deleted under it.
AbortAlerts(p) ==
  /\ ~Is(p, "idle")
  /\ Becomes(p, Idle)
  /\ OnlyEvaluates

----------------------------------------------------------------------------
(* The clients of the rules, and time                                      *)

\* create_alert_rule
CreateRule(r) ==
  /\ ~rules[r].exists
  /\ \A q \in RuleIds : q < r => rules[q].exists
  /\ \E template \in AlertTemplates : rules' = [rules EXCEPT ![r] = RuleFrom(template)]
  /\ UNCHANGED <<alerts, evaluation, alertClock, edits>>

\* update_alert_rule
UpdateRule(r) ==
  /\ rules[r].exists
  /\ edits < MaxEdits
  /\ \/ \E template \in AlertTemplates : rules' = [rules EXCEPT ![r].set = template]
     \/ rules' = [rules EXCEPT ![r].enabled = ~@]
  /\ edits' = edits + 1
  /\ UNCHANGED <<alerts, evaluation, alertClock>>

\* delete_alert_rule: the events refer to the rule, so with a history the
\* deletion fails and is answered with a conflict.
DeleteRule(r) ==
  /\ rules[r].exists
  /\ edits < MaxEdits
  /\ AlertsOf(r) = {}
  /\ rules' = [rules EXCEPT ![r] = NoRule]
  /\ edits' = edits + 1
  /\ UNCHANGED <<alerts, evaluation, alertClock>>

AlertTick ==
  /\ alertClock < MaxAlertTime
  /\ alertClock' = alertClock + 1
  /\ UNCHANGED <<rules, alerts, evaluation, edits>>

EvaluateAlerts ==
  \E p \in Evaluators :
    \/ BeginAlerts(p) \/ DecideRule(p)
    \/ CreateAlert(p) \/ StampRule(p) \/ AbortAlerts(p)

AlertNext ==
  \/ EvaluateAlerts
  \/ \E r \in RuleIds : CreateRule(r) \/ UpdateRule(r) \/ DeleteRule(r)
  \/ AlertTick

AlertSpec == AlertInit /\ [][AlertNext]_alertVars

----------------------------------------------------------------------------
(* Properties                                                              *)

\* Every row and every process has the shape the code gives it.
AlertTypeOK ==
  /\ \A r \in RuleIds : rules[r].exists => rules[r].set \in AlertTemplates
                                        /\ rules[r].last \in AlertTimes \cup {NoTime}
  /\ Len(alerts) <= MaxAlerts
  /\ \A i \in DOMAIN alerts : alerts[i].rule \in RuleIds /\ alerts[i].at <= alertClock
  /\ \A p \in Evaluators : evaluation[p].since <= alertClock /\ evaluation[p].todo \subseteq RuleIds

\* The cooldown of a rule is checked and its event created in two steps, so two
\* processes may both trigger it (alert_event.py:54).  But whatever the other
\* processes and the clients of the rules do in between, a process never
\* creates an unforced event within the cooldown of an earlier event of its own.
AlertsKeepCooldown ==
  \A j \in DOMAIN alerts : \A i \in 1..(j - 1) :
    alerts[i].rule = alerts[j].rule /\ alerts[i].by = alerts[j].by /\ ~alerts[j].forced
      => alerts[j].at >= alerts[i].at + alerts[j].cooldown

\* The history of a rule outlives every change of the rules: whatever is
\* deleted while evaluations are under way, an event can be traced to its rule
\* (alert_rule.py:56).
HistoryIsTraceable ==
  \A i \in DOMAIN alerts : rules[alerts[i].rule].exists

\* last_triggered_at of a rule is the time of one of its events, although it is
\* committed after the event, by two processes in any order and after any change
\* of the rule (alert_event.py:236).  A crash between the commits leaves it behind.
StampsAreEvents ==
  \A r \in RuleIds :
    rules[r].exists /\ rules[r].last # NoTime =>
      \E i \in AlertsOf(r) : alerts[i].at = rules[r].last

\* What alerts promise whoever reads them, over evaluations of several
\* processes, changes of the rules and crashes in between.
AlertsHold ==
  /\ AlertTypeOK
  /\ AlertsKeepCooldown
  /\ HistoryIsTraceable
  /\ StampsAreEvents
===========================================================================
