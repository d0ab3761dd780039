------------------------------ MODULE TaskMode ------------------------------
(***************************************************************************)
(* The task mode (crates/macp-modes/src/mode/task.rs): one task, who holds *)
(* it, who declined it, and the terminal report a commitment binds.        *)
(***************************************************************************)
EXTENDS Evaluator

\* First revision under which a decline is personal: whoever declined the
\* task never accepts it, and nobody else is held back.
PERSONAL_DECLINE_REV == 4

\* Option: no task yet, no assignee; and no report.
None == "none"
NoReport == [by |-> None]

\* task is the requested assignee ("" for any); a rejection records whether
\* its sender held the task; report is [by, kind, output]; decodes is whether
\* the encoded state can be read back.
TaskEmpty ==
    [task |-> None, active_assignee |-> None, rejections |-> {}, updates |-> 0,
     report |-> NoReport, decodes |-> TRUE]

TaskAuthorizeSender(s, env) ==
    CASE env.type = "TaskRequest" -> env.sender = Initiator
      [] env.type = "Commitment"  -> MayCommit(s, env.sender)
      [] OTHER                    -> IsDeclaredParticipant(env.sender)

TaskOnSessionStart ==
    IF Participants \ {Initiator} = {} THEN Rejected ELSE PersistState(TaskEmpty)

CanAssigneeRespond(st, sender) ==
    IF st.task # "" THEN sender = st.task
    ELSE IsDeclaredParticipant(sender) /\ sender # Initiator

AllowReassignment(s) ==
    RulesOrDefault("task", s.policy)["assignment.allow_reassignment_on_reject"]

HasRejected(st, sender) == \E r \in st.rejections : r.assignee = sender

HandleTaskRequest(st, env) ==
    IF \/ env.sender # Initiator
       \/ ~env.valid
       \/ st.task # None
       \/ env.assignee # "" /\ ~IsDeclaredParticipant(env.assignee)
    THEN Rejected
    ELSE PersistState([st EXCEPT !.task = env.assignee])

\* Mutant: a second accept takes the task from its holder.
HandleTaskAcceptTakes(s, st, env) ==
    IF ~env.valid \/ st.task = None \/ ~CanAssigneeRespond(st, env.sender) THEN Rejected
    ELSE PersistState([st EXCEPT !.active_assignee = env.sender])

HandleTaskAccept(s, st, env) ==
    LET personal == s.semantics_rev >= PERSONAL_DECLINE_REV
        reassigning == IF personal THEN \E r \in st.rejections : r.while_assigned
                       ELSE st.rejections # {}
    IN  IF \/ ~env.valid
           \/ st.task = None
           \/ st.active_assignee # None
           \/ personal /\ HasRejected(st, env.sender)
           \/ reassigning /\ ~AllowReassignment(s)
           \/ env.assignee \notin {"", env.sender}
           \/ ~CanAssigneeRespond(st, env.sender)
        THEN Rejected
        ELSE PersistState([st EXCEPT !.active_assignee = env.sender])

\* The holder gives the task back only where the policy lets it; anybody
\* else may decline only while nobody holds it.
HandleTaskReject(s, st, env) ==
    LET holds == st.active_assignee = env.sender
    IN  IF \/ ~env.valid
           \/ st.task = None
           \/ holds /\ ~AllowReassignment(s)
           \/ ~holds /\ st.active_assignee # None
           \/ env.assignee \notin {"", env.sender}
           \/ st.active_assignee = None /\ ~CanAssigneeRespond(st, env.sender)
           \/ HasRejected(st, env.sender)
        THEN Rejected
        ELSE PersistState([st EXCEPT
                 !.active_assignee = IF holds THEN None ELSE @,
                 !.rejections = @ \cup {[assignee |-> env.sender, while_assigned |-> holds]}])

\* Updates, completion and failure: by the holder, before any report.
ReportRejected(st, env) ==
    \/ ~env.valid
    \/ st.task = None
    \/ st.report # NoReport
    \/ st.active_assignee # env.sender

\* A progress that is NaN or infinite is taken, and encoded as null, which
\* does not decode as a number.
HandleTaskUpdate(st, env) ==
    IF ReportRejected(st, env) THEN Rejected
    ELSE PersistState([st EXCEPT !.updates = @ + 1, !.decodes = env.finite])

HandleTaskReport(st, env, kind) ==
    IF ReportRejected(st, env) \/ env.assignee \notin {"", env.sender} THEN Rejected
    ELSE PersistState([st EXCEPT !.report =
             [by |-> env.sender, kind |-> kind, output |-> kind = "Complete" /\ env.output]])

\* A named assignee's decline before it held the task leaves nobody: the
\* session may then be declined without a report.
NoEligibleAssignee(s, st) ==
    /\ s.semantics_rev >= PERSONAL_DECLINE_REV
    /\ st.active_assignee = None
    /\ st.task \notin {None, ""}
    /\ [assignee |-> st.task, while_assigned |-> FALSE] \in st.rejections

HasOutput(st) == st.report # NoReport /\ st.report.output

\* The mode's own conditions, before its policy is asked.
TaskReady(s, st, env) ==
    /\ ValidateCommitmentPayload(env)
    /\ st.report # NoReport \/ (NoEligibleAssignee(s, st) /\ ~env.outcome_positive)

TaskReasons(s, st, env) == TaskDeny(s.policy, HasOutput(st), env.outcome_positive)

TaskCommitment(s, st, env) ==
    IF TaskReady(s, st, env) /\ PolicyAllows(s, TaskReasons(s, st, env))
    THEN PersistAndResolve(st)
    ELSE Rejected

TaskOnMessage(s, env) ==
    LET st == s.mode_state
    IN  IF ~st.decodes THEN Rejected ELSE
        CASE env.type = "TaskRequest"  -> HandleTaskRequest(st, env)
          [] env.type = "TaskAccept"   -> HandleTaskAccept(s, st, env)
          [] env.type = "TaskReject"   -> HandleTaskReject(s, st, env)
          [] env.type = "TaskUpdate"   -> HandleTaskUpdate(st, env)
          [] env.type = "TaskComplete" -> HandleTaskReport(st, env, "Complete")
          [] env.type = "TaskFail"     -> HandleTaskReport(st, env, "Fail")
          [] env.type = "Commitment"   -> TaskCommitment(s, st, env)
          [] OTHER                     -> Rejected
=============================================================================
