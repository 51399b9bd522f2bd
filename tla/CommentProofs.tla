---------------------------- MODULE CommentProofs ----------------------------
(***************************************************************************)
(* What TLAPS proves of the comments issueq posts, for any number of        *)
(* goroutines: that of an action of a job is posted at most once more than  *)
(* there were troubles; so is that of a gate block, if one goroutine polls. *)
(***************************************************************************)
EXTENDS IssueProofs

-----------------------------------------------------------------------------
(* The inductive invariant *)

\* As in one daemon.
OneRouter == \A a, b \in Routers : a = b

JobKinds == {"on_start", "on_attempts_exceeded", "on_transitions_exceeded", "final"}

\* An action for a job; an action whose comment may still be posted; a goroutine
\* that has a job in hand and is not past its launch; the rest of a marking after
\* the comment.
ForJob(s) == s.stage \in ActionStages /\ s.then # "markApplied"
Before(s) == s.stage \in {"actionRead", "actionRemove", "actionAdd", "actionComment"}
Early(s)  == Launching(s) \/ (ForJob(s) /\ s.cause[1] = "on_attempts_exceeded")
Marked(s) == Marking(s) /\ ~Before(s)

\* A goroutine that will not come to a comment of this kind any more, as long as
\* it holds its job.
Past(kind, s) ==
  /\ Before(s) => s.cause[1] # kind
  /\ \/ kind \in {"on_start", "on_attempts_exceeded"} /\ (Launching(s) \/ Ending(s))
     \/ kind = "final" /\ Ending(s)
     \/ /\ kind = "on_transitions_exceeded"
        /\ s.stage = "settle" \/ (ForJob(s) /\ s.cause[1] = kind)

\* No comment of this kind is to come for the job, unless there is trouble.
JobDone(kind, key) ==
  \/ jobs[key].status \notin {"pending", "running"}
  \/ kind \in {"on_start", "on_attempts_exceeded"} /\ jobs[key].phase = "launched"
  \/ \E t \in Threads : thread[t].job = key /\ Holds(t) /\ Past(kind, thread[t])

BlockDone(b) ==
  b \in applied \/ \E t \in Threads : Marked(thread[t]) /\ thread[t].cause[2] = b

\* The kind of comment that ends in the stage the action ends in.
KindOK(kind, then) ==
  /\ kind \in JobKinds
  /\ kind = "on_start" <=> then = "started"
  /\ kind = "final" <=> then = "finished"

\* What a goroutine comments on is what it is working for; what is not applied yet.
Apt(t, s) ==
  /\ s.stage \in {"gate", "enqueue", "block"} \/ Marking(s) => s.job = None /\ t \in Routers
  /\ Marking(s) => s.cause = <<"block", s.cause[2]>>
  /\ ForJob(s) => s.cause = <<s.cause[1], s.job>> /\ KindOK(s.cause[1], s.then)

\* Two routers may be at one block.
Fresh(s) == OneRouter /\ Marking(s) /\ Before(s) => s.cause[2] \notin applied

CauseOK(t) == Apt(t, thread[t]) /\ Fresh(thread[t])

\* A job held before its launch is not launched.
EarlyOK(t) ==
  Early(thread[t]) /\ Holds(t) => jobs[thread[t].job].phase = "claimed"

Posts(cause) == {n \in DOMAIN comments : comments[n].cause = cause}

Known(cause) ==
  \/ cause = <<"user">>
  \/ \E kind \in JobKinds, key \in DOMAIN jobs : cause = <<kind, key>>
  \/ \E b \in blocks : cause = <<"block", b>>

\* One comment for each trouble, and one more once no other is to come.
Few(cause)   == Cardinality(Posts(cause)) <= troubles + 1
Fewer(cause) == Cardinality(Posts(cause)) <= troubles

PostsOK ==
  /\ troubles \in Nat
  /\ \A n \in DOMAIN comments : Known(comments[n].cause)
  /\ \A key \in DOMAIN jobs, kind \in JobKinds :
       Few(<<kind, key>>) /\ (JobDone(kind, key) \/ Fewer(<<kind, key>>))
  /\ OneRouter =>
       \A b \in blocks : Few(<<"block", b>>) /\ (BlockDone(b) \/ Fewer(<<"block", b>>))

\* A job that waits has not been launched.
PendingOK ==
  \A key \in DOMAIN jobs : jobs[key].status = "pending" => jobs[key].phase # "launched"

CommentsOK == PendingOK /\ (\A t \in Threads : CauseOK(t) /\ EarlyOK(t)) /\ PostsOK

CommentInvariant == WorkInvariant /\ CommentsOK

-----------------------------------------------------------------------------
(* Counting comments *)

LEMMA PostsAreFinite ==
  ASSUME IssueOK, NEW cause
  PROVE  IsFiniteSet(Posts(cause)) /\ Cardinality(Posts(cause)) \in Nat
<1>1. DOMAIN comments = 1..Len(comments) /\ Len(comments) \in Nat
  BY DEF IssueOK
<1>2. IsFiniteSet(DOMAIN comments)
  BY <1>1, FS_Interval
<1>3. IsFiniteSet(Posts(cause))
  BY <1>2, FS_Subset DEF Posts
<1>4. QED BY <1>3, FS_CardinalityType

\* A comment adds one to the count of its cause.
LEMMA OneMorePost ==
  ASSUME IssueOK, NEW text, NEW cause, Comment(text, cause)
  PROVE  /\ \A c : c # cause => Posts(c)' = Posts(c)
         /\ Cardinality(Posts(cause)') <= Cardinality(Posts(cause)) + 1
         /\ \A n \in DOMAIN comments' :
              \/ n \in DOMAIN comments /\ comments'[n] = comments[n]
              \/ comments'[n].cause = cause
<1> DEFINE last == Len(comments) + 1  post == [text |-> text, cause |-> cause]
<1>1. comments \in Seq(Range(comments)) /\ comments' = Append(comments, post)
  BY DEF IssueOK, Comment
<1>2. /\ Len(comments) \in Nat /\ DOMAIN comments = 1..Len(comments)
      /\ Len(comments') = last /\ comments' \in Seq(Range(comments'))
      /\ \A n \in DOMAIN comments : comments'[n] = comments[n]
  BY <1>1, AppendGrows
<1>3. DOMAIN comments' = 1..last
  BY <1>2
<1>4. comments'[last] = post
  BY <1>1, <1>2
<1>5. \A n \in DOMAIN comments' : n \in DOMAIN comments \/ n = last
  BY <1>2, <1>3
<1>6. DOMAIN comments \subseteq DOMAIN comments' /\ last \notin DOMAIN comments
  BY <1>2, <1>3
<1>7. \A c : c # cause => Posts(c)' = Posts(c)
  BY <1>2, <1>4, <1>5, <1>6 DEF Posts
<1>8. Posts(cause)' \subseteq Posts(cause) \cup {last} /\ last \notin Posts(cause)
  BY <1>2, <1>4, <1>5, <1>6 DEF Posts
<1>9. IsFiniteSet(Posts(cause)) /\ Cardinality(Posts(cause)) \in Nat
  BY PostsAreFinite
<1>10. /\ IsFiniteSet(Posts(cause) \cup {last})
       /\ Cardinality(Posts(cause) \cup {last}) = Cardinality(Posts(cause)) + 1
  BY <1>8, <1>9, FS_AddElement
<1>11. Cardinality(Posts(cause)') <= Cardinality(Posts(cause) \cup {last})
  BY <1>8, <1>10, FS_Subset
<1>12. QED BY <1>2, <1>4, <1>5, <1>7, <1>10, <1>11

\* Nothing was posted for a cause that is not known yet.
LEMMA NoPostsBefore ==
  ASSUME IssueOK, PostsOK, NEW cause, ~Known(cause)
  PROVE  Few(cause) /\ Fewer(cause)
<1>1. Posts(cause) = {}
  BY DEF PostsOK, Posts
<1>2. Cardinality(Posts(cause)) = 0
  BY <1>1, FS_EmptySet
<1>3. QED BY <1>2 DEF Few, Fewer, PostsOK

LEMMA KnownStays ==
  ASSUME WorldGrows, NEW cause, Known(cause)
  PROVE  Known(cause)'
BY DEF WorldGrows, Known

\* The causes of jobs, blocks and people differ.
LEMMA CausesDiffer ==
  /\ \A kind, key : <<kind, key>> # <<"user">>
  /\ \A kind \in JobKinds : \A key, b : <<kind, key>> # <<"block", b>>
<1>1. \A kind, key, one : Len(<<kind, key>>) = 2 /\ Len(<<one>>) = 1
  OBVIOUS
<1>2. \A kind, key : <<kind, key>> # <<"user">>
  BY <1>1
<1>3. ASSUME NEW kind \in JobKinds, NEW key, NEW b PROVE <<kind, key>> # <<"block", b>>
  BY DEF JobKinds
<1>4. QED BY <1>2, <1>3

LEMMA NewJobsAreUnknown ==
  ASSUME NEW key, key \notin DOMAIN jobs, NEW kind \in JobKinds
  PROVE  ~Known(<<kind, key>>)
<1>1. ~ \E k \in JobKinds, j \in DOMAIN jobs : <<kind, key>> = <<k, j>>
  OBVIOUS
<1>2. QED BY <1>1, CausesDiffer DEF Known

LEMMA NewBlocksAreUnknown ==
  ASSUME NEW b, b \notin blocks
  PROVE  ~Known(<<"block", b>>)
<1>1. ~ \E c \in blocks : <<"block", b>> = <<"block", c>>
  OBVIOUS
<1>2. ~ \E k \in JobKinds, j \in DOMAIN jobs : <<"block", b>> = <<k, j>>
  BY DEF JobKinds
<1>3. QED BY <1>1, <1>2, CausesDiffer DEF Known

\* What is left to show of a step: the goroutines, and the counts of the known causes.
LEMMA CountsSuffice ==
  ASSUME IssueOK, PostsOK, WorldGrows, troubles' \in Nat, troubles <= troubles',
         \A n \in DOMAIN comments' :
           \/ n \in DOMAIN comments /\ comments'[n] = comments[n]
           \/ Known(comments'[n].cause),
         \A cause : ~Known(cause) => Posts(cause)' = Posts(cause),
         \A key \in DOMAIN jobs, kind \in JobKinds :
           Few(<<kind, key>>)' /\ (JobDone(kind, key)' \/ Fewer(<<kind, key>>)'),
         OneRouter =>
           \A b \in blocks : Few(<<"block", b>>)' /\ (BlockDone(b)' \/ Fewer(<<"block", b>>)')
  PROVE  PostsOK'
<1>1. ASSUME NEW n \in DOMAIN comments', NEW cause, cause = comments'[n].cause
      PROVE  Known(cause)'
  <2>1. Known(cause)
    BY <1>1 DEF PostsOK
  <2>2. QED BY <2>1, KnownStays
<1>2. ASSUME NEW cause, ~Known(cause) PROVE Few(cause)' /\ Fewer(cause)'
  <2>1. Few(cause) /\ Fewer(cause) /\ Posts(cause)' = Posts(cause)
    BY <1>2, NoPostsBefore
  <2>2. troubles \in Nat /\ Cardinality(Posts(cause)) \in Nat
    BY PostsAreFinite DEF PostsOK
  <2>3. QED BY <2>1, <2>2 DEF Few, Fewer
<1>3. ASSUME NEW key \in DOMAIN jobs', NEW kind \in JobKinds
      PROVE  Few(<<kind, key>>)' /\ (JobDone(kind, key)' \/ Fewer(<<kind, key>>)')
  <2>1. CASE key \in DOMAIN jobs
    BY <2>1
  <2>2. CASE key \notin DOMAIN jobs
    BY <1>2, <2>2, NewJobsAreUnknown
  <2>3. QED BY <2>1, <2>2
<1>4. ASSUME OneRouter, NEW b \in blocks'
      PROVE  Few(<<"block", b>>)' /\ (BlockDone(b)' \/ Fewer(<<"block", b>>)')
  <2>1. CASE b \in blocks
    BY <1>4, <2>1
  <2>2. CASE b \notin blocks
    BY <1>2, <2>2, NewBlocksAreUnknown
  <2>3. QED BY <2>1, <2>2
<1>5. QED BY <1>1, <1>3, <1>4 DEF PostsOK

\* A step without trouble or comment counts nothing, and what is done must stay so.
LEMMA CalmCounts ==
  ASSUME IssueOK, PostsOK, WorldGrows, comments' = comments, troubles' = troubles,
         \A key \in DOMAIN jobs, kind \in JobKinds : JobDone(kind, key) => JobDone(kind, key)',
         \A b \in blocks : BlockDone(b) => BlockDone(b)'
  PROVE  PostsOK'
<1>1. \A cause : Posts(cause)' = Posts(cause)
  BY DEF Posts
<1>2. \A cause : (Few(cause)' <=> Few(cause)) /\ (Fewer(cause)' <=> Fewer(cause))
  BY <1>1 DEF Few, Fewer
<1>3. \A key \in DOMAIN jobs, kind \in JobKinds :
        Few(<<kind, key>>)' /\ (JobDone(kind, key)' \/ Fewer(<<kind, key>>)')
  BY <1>2 DEF PostsOK
<1>4. OneRouter => \A b \in blocks : Few(<<"block", b>>)' /\ (BlockDone(b)' \/ Fewer(<<"block", b>>)')
  BY <1>2 DEF PostsOK
<1>5. troubles' \in Nat /\ troubles <= troubles'
  BY DEF PostsOK
<1>6. QED BY <1>1, <1>3, <1>4, <1>5, CountsSuffice

\* A step with trouble allows for one more comment of every cause.
LEMMA TroubledCounts ==
  ASSUME IssueOK, PostsOK, WorldGrows, comments' = comments, troubles' = troubles + 1
  PROVE  PostsOK'
<1>1. \A cause : Posts(cause)' = Posts(cause) /\ Cardinality(Posts(cause)) \in Nat
  BY PostsAreFinite DEF Posts
<1>2. troubles \in Nat
  BY DEF PostsOK
<1>3. \A cause : Few(cause) => Few(cause)' /\ Fewer(cause)'
  BY <1>1, <1>2 DEF Few, Fewer
<1>4. \A key \in DOMAIN jobs, kind \in JobKinds :
        Few(<<kind, key>>)' /\ (JobDone(kind, key)' \/ Fewer(<<kind, key>>)')
  BY <1>3 DEF PostsOK
<1>5. OneRouter => \A b \in blocks : Few(<<"block", b>>)' /\ (BlockDone(b)' \/ Fewer(<<"block", b>>)')
  BY <1>3 DEF PostsOK
<1>6. QED BY <1>1, <1>2, <1>4, <1>5, CountsSuffice

-----------------------------------------------------------------------------
(* A goroutine goes on *)

\* Neither at an action for a job or block, nor after one.
Plain(s) ==
  s.stage \notin ActionStages \cup {"markApplied", "started", "count", "launch", "finished", "settle"}

\* What has been commented on stays so, and only a charge comes before a launch.
Steady(s, next) ==
  /\ Early(next) => Early(s) /\ next.job = s.job
  /\ \A kind \in JobKinds : Past(kind, s) => Past(kind, next) /\ next.job = s.job
  /\ Marked(s) => Marked(next) /\ next.cause = s.cause

Advances(t, next) ==
  /\ thread' = [thread EXCEPT ![t] = next]
  /\ Steady(thread[t], next) /\ Apt(t, next) /\ Fresh(next)'

LEMMA PlainKnowsNothing ==
  ASSUME NEW s, Plain(s)
  PROVE  /\ ~Early(s) /\ ~Marking(s) /\ ~ForJob(s) /\ ~Before(s)
         /\ \A kind \in JobKinds : ~Past(kind, s)
BY StagesOfActions DEF Plain, Early, Marking, ForJob, Before, Past, Launching, Ending

LEMMA SettlingIsPast ==
  ASSUME NEW s, s.stage = "settle"
  PROVE  /\ ~Early(s) /\ ~Marking(s) /\ ~ForJob(s) /\ ~Before(s)
         /\ \A kind \in JobKinds : Past(kind, s)
BY StagesOfActions DEF Early, Marking, ForJob, Before, Past, Launching, Ending, JobKinds

LEMMA PlainAdvances ==
  ASSUME NEW t \in Threads, NEW next, thread' = [thread EXCEPT ![t] = next],
         Plain(thread[t]), Plain(next) \/ next.stage = "settle",
         next.stage \in {"gate", "enqueue", "block"} => next.job = None /\ t \in Routers
  PROVE  Advances(t, next)
<1>1. ~Early(next) /\ ~Marking(next) /\ ~ForJob(next)
  BY PlainKnowsNothing, SettlingIsPast
<1>2. ~Marked(thread[t]) /\ \A kind \in JobKinds : ~Past(kind, thread[t])
  BY PlainKnowsNothing DEF Marked
<1>3. Apt(t, next)
  BY <1>1 DEF Apt
<1>4. Fresh(next)'
  BY <1>1 DEF Fresh, Marking
<1>5. QED BY <1>1, <1>2, <1>3, <1>4 DEF Advances, Steady

\* A call of an action, up to the store of what was read last.
LEMMA ActionAdvances ==
  ASSUME NEW t \in Threads, NEW next, thread' = [thread EXCEPT ![t] = next], CauseOK(t),
         thread[t].stage \in ActionStages, next.stage \in ActionStages,
         Before(next) => Before(thread[t]), applied' = applied,
         next.cause = thread[t].cause, next.job = thread[t].job, next.then = thread[t].then
  PROVE  Advances(t, next)
<1> DEFINE s == thread[t]
<1>1. /\ Launching(next) <=> Launching(s)
      /\ Ending(next) <=> Ending(s)
      /\ Marking(next) <=> Marking(s)
      /\ ForJob(next) <=> ForJob(s)
      /\ next.stage # "settle" /\ s.stage # "settle"
      /\ next.stage \notin {"gate", "enqueue", "block"}
  BY StagesOfActions DEF Launching, Ending, Marking, ForJob
<1>2. Apt(t, next)
  BY <1>1 DEF CauseOK, Apt
<1>3. Fresh(next)'
  <2>1. Fresh(next)
    BY <1>1 DEF CauseOK, Fresh
  <2>2. QED BY <2>1 DEF Fresh, Marking, Before
<1>4. \A kind \in JobKinds : Past(kind, s) => Past(kind, next)
  BY <1>1 DEF Past
<1>5. Steady(s, next)
  BY <1>1, <1>4 DEF Steady, Early, Marked
<1>6. QED BY <1>2, <1>3, <1>5 DEF Advances

LEMMA ActionSteps ==
  ASSUME ThreadsOK, NEW t \in Threads, CauseOK(t), applied' = applied,
         \/ ActionRead(t) \/ ActionRemove(t) \/ ActionAdd(t) \/ ActionComment(t)
         \/ ActionReread(t) \/ ActionStore(t)
  PROVE  \E next : Advances(t, next)
<1> DEFINE s == thread[t]
<1>g. Shape(s) /\ DOMAIN s = DOMAIN Rest
  BY Prepared DEF Shape
<1>1. CASE ActionRead(t)
  <2>1. PICK stage \in ActionStages \ {"actionRead"} :
          thread' = [thread EXCEPT ![t] =
                       [s EXCEPT !.before = github.labels, !.issue = github, !.stage = stage]]
    BY <1>1, LaterStages, StagesOfActions DEF ActionRead, Become
  <2>n. PICK next : next = [s EXCEPT !.before = github.labels, !.issue = github, !.stage = stage]
    OBVIOUS
  <2>2. s.stage = "actionRead"
    BY <1>1 DEF ActionRead, At
  <2>3. next.stage = stage /\ next.cause = s.cause /\ next.job = s.job /\ next.then = s.then
    BY <1>g, <2>n, RestFields
  <2>4. Advances(t, next)
    BY <2>1, <2>2, <2>3, <2>n, ActionAdvances, StagesOfActions DEF Before
  <2>5. QED BY <2>4
<1>2. CASE ActionRemove(t)
  <2>0. PICK left : thread' = [thread EXCEPT ![t] = [s EXCEPT !.left = left,
          !.stage = IF left # <<>> THEN @ ELSE AfterRemove(s.action)]]
    BY <1>2, Zenon DEF ActionRemove, Become
  <2>s. s.stage = "actionRemove"
    BY <1>2 DEF ActionRemove, At
  <2>p. PICK stage : stage = IF left # <<>> THEN s.stage ELSE AfterRemove(s.action)
    OBVIOUS
  <2>q. stage \in ActionStages \ {"actionRead"}
    BY <2>s, <2>p, LaterStages, StagesOfActions
  <2>1. thread' = [thread EXCEPT ![t] = [s EXCEPT !.left = left, !.stage = stage]]
    BY <2>0, <2>p
  <2>n. PICK next : next = [s EXCEPT !.left = left, !.stage = stage]
    OBVIOUS
  <2>3. next.stage = stage /\ next.cause = s.cause /\ next.job = s.job /\ next.then = s.then
    BY <1>g, <2>n, RestFields
  <2>4. Advances(t, next)
    BY <2>1, <2>s, <2>3, <2>n, <2>q, ActionAdvances, StagesOfActions DEF Before
  <2>5. QED BY <2>4
<1>3. CASE ActionAdd(t) \/ ActionComment(t)
  <2>1. PICK stage \in {"actionComment", "actionReread"} :
          /\ thread' = [thread EXCEPT ![t] = [s EXCEPT !.stage = stage]]
          /\ s.stage \in {"actionAdd", "actionComment"}
    BY <1>3, LaterStages, Prepared DEF ActionAdd, ActionComment, At
  <2>n. PICK next : next = [s EXCEPT !.stage = stage]
    OBVIOUS
  <2>3. next.stage = stage /\ next.cause = s.cause /\ next.job = s.job /\ next.then = s.then
    BY <1>g, <2>n, RestFields
  <2>4. Advances(t, next)
    BY <2>1, <2>3, <2>n, ActionAdvances, StagesOfActions DEF Before
  <2>5. QED BY <2>4
<1>4. CASE ActionReread(t)
  <2>n. PICK next : next = [s EXCEPT !.issue = github, !.stage = "actionStore"]
    OBVIOUS
  <2>1. thread' = [thread EXCEPT ![t] = next] /\ s.stage = "actionReread"
    BY <1>4, <2>n DEF ActionReread, Become, At
  <2>2. next.stage = "actionStore" /\ next.cause = s.cause /\ next.job = s.job /\ next.then = s.then
    BY <1>g, <2>n, RestFields
  <2>3. Advances(t, next)
    BY <2>1, <2>2, ActionAdvances, StagesOfActions DEF Before
  <2>4. QED BY <2>3
<1>5. CASE ActionStore(t)
  <2>n. PICK next : next = [s EXCEPT !.stage = s.then, !.action = NoAction]
    OBVIOUS
  <2>1. /\ thread' = [thread EXCEPT ![t] = next] /\ s.stage = "actionStore"
        /\ s.then \in {"markApplied", "started", "finished", "settle"}
    BY <1>5, <1>g, <2>n, StagesOfActions DEF ActionStore, Become, At, Shape
  <2>2. next.stage = s.then /\ next.cause = s.cause /\ next.job = s.job /\ next.then = s.then
    BY <1>g, <2>n, RestFields
  <2>3. /\ Launching(next) <=> Launching(s)
        /\ Ending(next) <=> Ending(s)
        /\ Marking(next) <=> Marking(s)
        /\ ~ForJob(next) /\ ~Before(next) /\ ~Before(s)
    BY <2>1, <2>2, StagesOfActions DEF Launching, Ending, Marking, ForJob, Before
  <2>4. Apt(t, next)
    BY <2>1, <2>2, <2>3 DEF CauseOK, Apt
  <2>5. Fresh(next)'
    BY <2>3 DEF Fresh, Before
  <2>6. \A kind \in JobKinds : Past(kind, s) => Past(kind, next)
    <3> TAKE kind \in JobKinds
    <3>1. CASE kind = "on_transitions_exceeded"
      <4>1. Past(kind, s) => ForJob(s) /\ s.cause[1] = kind
        BY <3>1, <2>1 DEF Past
      <4>2. ForJob(s) /\ s.cause[1] = kind => s.then = "settle"
        BY <3>1, <2>1 DEF CauseOK, Apt, KindOK, ForJob
      <4>3. QED BY <4>1, <4>2, <2>2, SettlingIsPast
    <3>2. CASE kind # "on_transitions_exceeded"
      BY <2>3, <3>2 DEF Past
    <3>3. QED BY <3>1, <3>2
  <2>7. Steady(s, next)
    BY <2>2, <2>3, <2>6 DEF Steady, Early, Marked
  <2>8. Advances(t, next)
    BY <2>1, <2>4, <2>5, <2>7 DEF Advances
  <2>9. QED BY <2>8
<1>6. QED BY <1>1, <1>2, <1>3, <1>4, <1>5

-----------------------------------------------------------------------------
(* The poll/route goroutine *)

LEMMA ContinueAdvances ==
  ASSUME ThreadsOK, NEW t \in Threads, t \in Routers, Plain(thread[t]), NEW issue \in Issue,
         NEW k \in 0..Len(Routes), Become(t, Continue(issue, k))
  PROVE  Advances(t, Continue(issue, k))
<1>1. Continue(issue, k).stage \in {"idle", "gate"} /\ Continue(issue, k).job = None
  BY ContinueIsFine
<1>2. PICK next : next = Continue(issue, k)
  OBVIOUS
<1>3. Plain(next)
  BY <1>1, <1>2, StagesOfActions DEF Plain
<1>4. thread' = [thread EXCEPT ![t] = next]
  BY <1>2, Prepared
<1>5. Advances(t, next)
  BY <1>1, <1>2, <1>3, <1>4, PlainAdvances
<1>6. QED BY <1>2, <1>5

LEMMA RestAdvances ==
  ASSUME ThreadsOK, NEW t \in Threads, Plain(thread[t]), Become(t, Rest)
  PROVE  Advances(t, Rest)
<1>1. Plain(Rest) /\ Rest.stage = "idle"
  BY RestFields, StagesOfActions DEF Plain
<1>2. QED BY <1>1, PlainAdvances, Prepared

LEMMA PollAdvances ==
  ASSUME ThreadsOK, IssueOK, NEW t \in Threads, t \in Routers, CauseOK(t),
         \/ ListOpenIssues(t) \/ UpsertIssue(t) \/ ListIssueComments(t) \/ UpsertHandoff(t)
         \/ ListRoutableIssues(t) \/ CheckGate(t) \/ EnqueueJob(t)
  PROVE  \E next : Advances(t, next)
<1> DEFINE s == thread[t]
<1>g. Shape(s) /\ DOMAIN s = DOMAIN Rest /\ snapshot \in Issue \cup {None}
  BY Prepared DEF Shape, IssueOK
<1>p. Plain(s)
  BY StagesOfActions DEF Plain, ListOpenIssues, UpsertIssue, ListIssueComments, UpsertHandoff,
     ListRoutableIssues, CheckGate, EnqueueJob, At
<1>n. ASSUME NEW next, Become(t, next),
             next.stage \in {"upsert", "listComments", "parse", "listRoutable"}
      PROVE  \E n : Advances(t, n)
  <2>1. Plain(next)
    BY <1>n, StagesOfActions DEF Plain
  <2>2. Advances(t, next)
    BY <1>n, <1>p, <2>1, PlainAdvances, Prepared
  <2>3. QED BY <2>2
<1>o. ASSUME NEW stage \in {"listComments", "listRoutable"}, GoTo(t, stage)
      PROVE  \E n : Advances(t, n)
  <2>1. PICK next : next = [s EXCEPT !.stage = stage]
    OBVIOUS
  <2>2. Become(t, next) /\ next.stage = stage
    BY <1>g, <1>o, <2>1, Prepared, RestFields DEF Become
  <2>3. QED BY <1>n, <2>2
<1>1. CASE ListOpenIssues(t)
  <2>1. PICK next : next = IF github.state = "open"
                           THEN [Rest EXCEPT !.stage = "upsert", !.issue = github]
                           ELSE [Rest EXCEPT !.stage = "listRoutable"]
    OBVIOUS
  <2>2. Become(t, next)
    BY <1>1, <2>1 DEF ListOpenIssues
  <2>3. next.stage \in {"upsert", "listRoutable"}
    BY <2>1, RestFields
  <2>4. QED BY <1>n, <2>2, <2>3
<1>2. CASE UpsertIssue(t)
  BY <1>2, <1>o DEF UpsertIssue
<1>3. CASE ListIssueComments(t)
  <2>1. PICK next : next = [Rest EXCEPT !.stage = "parse", !.rows = Posted]
    OBVIOUS
  <2>2. Become(t, next) /\ next.stage = "parse"
    BY <1>3, <2>1, RestFields DEF ListIssueComments, Posted
  <2>3. QED BY <1>n, <2>2
<1>4. CASE UpsertHandoff(t)
  <2>1. CASE s.rows = {}
    BY <1>4, <1>o, <2>1 DEF UpsertHandoff
  <2>2. CASE s.rows # {}
    <3>1. PICK rows : rows = s.rows \ {Min(s.rows)}
      OBVIOUS
    <3>2. PICK next : next = [s EXCEPT !.rows = rows]
      OBVIOUS
    <3>3. s.stage = "parse" /\ Become(t, next)
      BY <1>4, <1>g, <2>2, <3>1, <3>2, RestFields DEF UpsertHandoff, Become, At
    <3>4. next.stage = "parse"
      BY <1>g, <3>2, <3>3, RestFields
    <3>5. QED BY <1>n, <3>3, <3>4
  <2>3. QED BY <2>1, <2>2
<1>5. CASE ListRoutableIssues(t)
  <2>1. CASE Become(t, Rest)
    BY <1>p, <2>1, RestAdvances
  <2>2. CASE snapshot # None /\ Become(t, Continue(snapshot, 0))
    BY <1>g, <1>p, <2>2, ContinueAdvances, RoutesAreListed
  <2>3. QED BY <1>5, <2>1, <2>2 DEF ListRoutableIssues
<1>6. CASE CheckGate(t)
  <2>1. PICK decision : decision = EvaluateGate(Routes[s.route], s.issue)
    OBVIOUS
  <2>2. PICK stage : stage = IF decision.blocked = None THEN "enqueue" ELSE "block"
    OBVIOUS
  <2>3. PICK next : next = [s EXCEPT !.decision = decision, !.stage = stage]
    OBVIOUS
  <2>4. thread' = [thread EXCEPT ![t] = next] /\ s.stage = "gate"
    BY <1>6, <2>1, <2>2, <2>3, Prepared DEF CheckGate, At
  <2>5. next.stage = stage /\ stage \in {"enqueue", "block"} /\ next.job = s.job
    BY <1>g, <2>2, <2>3, RestFields
  <2>6. s.job = None
    BY <2>4 DEF CauseOK, Apt
  <2>7. Plain(next)
    BY <2>5, StagesOfActions DEF Plain
  <2>8. Advances(t, next)
    BY <1>p, <2>4, <2>5, <2>6, <2>7, PlainAdvances
  <2>9. QED BY <2>8
<1>7. CASE EnqueueJob(t)
  <2>1. s.stage = "enqueue" /\ Become(t, Continue(s.issue, s.route))
    BY <1>7 DEF EnqueueJob, At
  <2>2. s.issue \in Issue /\ s.route \in 0..Len(Routes)
    BY <1>g, <2>1 DEF Shape, Reading
  <2>3. QED BY <1>p, <2>1, <2>2, ContinueAdvances
<1>8. QED BY <1>1, <1>2, <1>3, <1>4, <1>5, <1>6, <1>7

LEMMA BlockAdvances ==
  ASSUME ThreadsOK, NEW t \in Threads, CauseOK(t), RecordGateBlock(t)
  PROVE  \E next : Advances(t, next)
<1> DEFINE s == thread[t]
<1>s. s.stage = "block" /\ Shape(s) /\ DOMAIN s = DOMAIN Rest
  BY Prepared DEF RecordGateBlock, At, Shape
<1>g. s.issue \in Issue /\ s.route \in 0..Len(Routes) /\ s.job = None /\ t \in Routers
  BY <1>s DEF Shape, Reading, CauseOK, Apt
<1>p. Plain(s)
  BY <1>s, StagesOfActions DEF Plain
<1>1. PICK block : block = GateBlock(Routes[s.route], s.issue, s.decision)
  OBVIOUS
<1>2. PICK action : action = Routes[s.route].onBlock
  OBVIOUS
<1>3. PICK marking : marking = [s EXCEPT !.stage = "markApplied", !.decision = None,
                                         !.cause = <<"block", block>>]
  OBVIOUS
<1>4. PICK doing : doing = Applying(marking, action, marking.cause, "markApplied", "idle")
  OBVIOUS
<1>5. /\ applied' = applied
      /\ \/ Become(t, Continue(s.issue, s.route))
         \/ block \notin applied /\ (Become(t, marking) \/ Become(t, doing))
  BY <1>1, <1>2, <1>3, <1>4 DEF RecordGateBlock
<1>6. /\ DOMAIN marking = DOMAIN Rest /\ marking.stage = "markApplied" /\ marking.job = None
      /\ marking.cause = <<"block", block>>
  BY <1>s, <1>g, <1>3, RestFields
<1>7. /\ doing.stage = "actionRead" /\ doing.then = "markApplied" /\ doing.job = None
      /\ doing.cause = <<"block", block>>
  BY <1>4, <1>6, ApplyingFields
<1>8. ASSUME NEW next, Become(t, next), block \notin applied', next.job = None,
             next.cause = <<"block", block>>, Marking(next),
             next.stage = "markApplied" \/ (next.stage = "actionRead" /\ next.then = "markApplied")
      PROVE  Advances(t, next)
  <2>1. ~ForJob(next) /\ ~Early(next) /\ next.cause[2] = block
    BY <1>8, StagesOfActions DEF ForJob, Early, Launching
  <2>2. Apt(t, next)
    BY <1>8, <1>g, <2>1 DEF Apt
  <2>3. Fresh(next)'
    BY <1>8, <2>1 DEF Fresh
  <2>4. Steady(s, next)
    BY <1>p, <2>1, PlainKnowsNothing DEF Steady, Marked
  <2>5. QED BY <1>8, <2>2, <2>3, <2>4, Prepared DEF Advances
<1>9. CASE Become(t, Continue(s.issue, s.route))
  BY <1>9, <1>g, <1>p, ContinueAdvances
<1>10. CASE Become(t, marking) /\ block \notin applied
  BY <1>5, <1>6, <1>8, <1>10 DEF Marking
<1>11. CASE Become(t, doing) /\ block \notin applied
  <2>1. Marking(doing)
    BY <1>7, StagesOfActions DEF Marking
  <2>2. QED BY <1>5, <1>7, <1>8, <1>11, <2>1
<1>12. QED BY <1>5, <1>9, <1>10, <1>11

-----------------------------------------------------------------------------
(* The reconcile goroutine *)

LEMMA SettleAdvances ==
  ASSUME ThreadsOK, NEW t \in Threads, Plain(thread[t]), NEW status,
         Become(t, Settle(thread[t], status))
  PROVE  \E next : Advances(t, next)
<1> DEFINE s == thread[t]
<1>1. PICK next : next = [s EXCEPT !.stage = "settle", !.status = status, !.issue = None]
  OBVIOUS
<1>2. DOMAIN s = DOMAIN Rest
  BY Prepared DEF Shape
<1>3. thread' = [thread EXCEPT ![t] = next] /\ next.stage = "settle"
  BY <1>1, <1>2, Prepared, RestFields DEF Settle
<1>4. Advances(t, next)
  BY <1>3, PlainAdvances
<1>5. QED BY <1>4

LEMMA PreparingAdvances ==
  ASSUME ThreadsOK, NEW t \in Threads,
         RefreshClaimed(t) \/ RouteStillMatches(t) \/ AttemptScopeHash(t)
  PROVE  \E next : Advances(t, next)
<1> DEFINE s == thread[t]
<1>g. DOMAIN s = DOMAIN Rest
  BY Prepared DEF Shape
<1>p. Plain(s)
  BY StagesOfActions DEF Plain, RefreshClaimed, RouteStillMatches, AttemptScopeHash, At
<1>n. ASSUME NEW next, Become(t, next), next.stage \in {"recheck", "scope", "charge"}
      PROVE  \E n : Advances(t, n)
  <2>1. Plain(next)
    BY <1>n, StagesOfActions DEF Plain
  <2>2. Advances(t, next)
    BY <1>n, <1>p, <2>1, PlainAdvances, Prepared
  <2>3. QED BY <2>2
<1>1. CASE RefreshClaimed(t)
  <2>1. PICK next : next = [s EXCEPT !.issue = github, !.stage = "recheck"]
    OBVIOUS
  <2>2. Become(t, next) /\ next.stage = "recheck"
    BY <1>1, <1>g, <2>1, RestFields DEF RefreshClaimed
  <2>3. QED BY <1>n, <2>2
<1>2. CASE RouteStillMatches(t)
  <2>1. PICK next : next = [s EXCEPT !.stage = "scope"]
    OBVIOUS
  <2>2. next.stage = "scope"
    BY <1>g, <2>1, RestFields
  <2>3. Become(t, next) \/ Become(t, Settle(s, "skipped"))
    BY <1>2, <2>1 DEF RouteStillMatches
  <2>4. QED BY <1>n, <1>p, <2>2, <2>3, SettleAdvances
<1>3. CASE AttemptScopeHash(t)
  <2>1. PICK charge : charge = [route |-> RouteOf(t).name,
          scope |-> AttemptScope(RouteOf(t), s.issue, EvaluateGate(RouteOf(t), s.issue))]
    OBVIOUS
  <2>2. PICK next : next = [s EXCEPT !.stage = "charge", !.charge = charge]
    OBVIOUS
  <2>3. next.stage = "charge"
    BY <1>g, <2>2, RestFields
  <2>4. Become(t, next) \/ Become(t, Settle(s, "skipped"))
    BY <1>3, <2>1, <2>2 DEF AttemptScopeHash
  <2>5. QED BY <1>n, <1>p, <2>3, <2>4, SettleAdvances
<1>4. QED BY <1>1, <1>2, <1>3

\* An action begun for a job.
LEMMA JobActionIsApt ==
  ASSUME NEW t \in Threads, NEW s, DOMAIN s = DOMAIN Rest, NEW action,
         NEW kind \in JobKinds, NEW then \in {"started", "finished", "settle"}, KindOK(kind, then)
  PROVE  LET next == Applying(s, action, <<kind, s.job>>, then, "settle") IN
         /\ Apt(t, next) /\ ~Marking(next) /\ next.job = s.job /\ next.cause[1] = kind
         /\ Before(next) /\ ForJob(next)
         /\ Launching(next) <=> then = "started"
         /\ Ending(next) <=> then \in {"finished", "settle"}
<1>1. PICK cause : cause = <<kind, s.job>>
  OBVIOUS
<1>2. PICK next : next = Applying(s, action, cause, then, "settle")
  OBVIOUS
<1>3. /\ next.stage = "actionRead" /\ next.cause = cause /\ next.then = then
      /\ next.job = s.job
  BY <1>2, ApplyingFields
<1>4. /\ ~Marking(next) /\ Before(next) /\ ForJob(next)
      /\ Launching(next) <=> then = "started"
      /\ Ending(next) <=> then \in {"finished", "settle"}
  BY <1>3, StagesOfActions DEF Marking, Before, ForJob, Launching, Ending
<1>5. next.cause = <<next.cause[1], next.job>> /\ next.cause[1] = kind
  BY <1>1, <1>3
<1>6. Apt(t, next)
  BY <1>3, <1>4, <1>5 DEF Apt
<1>7. QED BY <1>1, <1>2, <1>3, <1>4, <1>5, <1>6

LEMMA CountingAdvances ==
  ASSUME ThreadsOK, NEW t \in Threads, ActionDone(t) \/ IncrementTransitionsForJob(t)
  PROVE  \E next : Advances(t, next)
<1> DEFINE s == thread[t]
<1>g. Shape(s) /\ DOMAIN s = DOMAIN Rest
  BY Prepared DEF Shape
<1>m. ASSUME NEW next, thread' = [thread EXCEPT ![t] = next],
             s.stage \in {"started", "finished", "count"}, next.job = s.job,
             next.stage \in {"count", "launch", "settle"},
             Launching(next) <=> Launching(s), Ending(next) <=> Ending(s)
      PROVE  Advances(t, next)
  <2>1. ~Marking(next) /\ ~Marking(s) /\ ~ForJob(next) /\ ~ForJob(s) /\ ~Before(next) /\ ~Before(s)
    BY <1>m, StagesOfActions DEF Marking, ForJob, Before
  <2>2. Apt(t, next) /\ Fresh(next)'
    BY <1>m, <2>1 DEF Apt, Fresh, Before
  <2>3. \A kind \in JobKinds : Past(kind, s) => Past(kind, next)
    BY <1>m, <2>1 DEF Past
  <2>4. QED BY <1>m, <2>1, <2>2, <2>3 DEF Advances, Steady, Early, Marked
<1>1. CASE ActionDone(t)
  <2>1. PICK then : then = IF s.stage = "started" THEN "launch" ELSE "settle"
    OBVIOUS
  <2>2. PICK stage : stage = IF ~SameLabelSet(s.before, s.issue.labels) THEN "count" ELSE then
    OBVIOUS
  <2>3. PICK next : next = [s EXCEPT !.stage = stage, !.then = then, !.issue = None, !.before = {}]
    OBVIOUS
  <2>4. thread' = [thread EXCEPT ![t] = next] /\ s.stage \in {"started", "finished"}
    BY <1>1, <2>1, <2>2, <2>3, Prepared DEF ActionDone, At
  <2>5. next.stage = stage /\ next.job = s.job /\ next.then = then
    BY <1>g, <2>3, RestFields
  <2>6. \/ s.stage = "started" /\ then = "launch" /\ stage \in {"count", "launch"}
        \/ s.stage = "finished" /\ then = "settle" /\ stage \in {"count", "settle"}
    BY <2>1, <2>2, <2>4
  <2>7. (Launching(next) <=> Launching(s)) /\ (Ending(next) <=> Ending(s))
    BY <2>5, <2>6, StagesOfActions DEF Launching, Ending
  <2>8. Advances(t, next)
    BY <1>m, <2>4, <2>5, <2>6, <2>7
  <2>9. QED BY <2>8
<1>2. CASE IncrementTransitionsForJob(t)
  <2>s. s.stage = "count" /\ s.then \in {"launch", "settle"}
    BY <1>2, <1>g DEF IncrementTransitionsForJob, At, Shape
  <2>1. PICK dead : dead = [s EXCEPT !.status = "dead"]
    OBVIOUS
  <2>2. PICK next : next = Applying(dead, OnTransitionsExceeded,
                             <<"on_transitions_exceeded", dead.job>>, "settle", "settle")
    OBVIOUS
  <2>3. PICK on : on = [s EXCEPT !.stage = s.then]
    OBVIOUS
  <2>d. DOMAIN dead = DOMAIN Rest /\ dead.job = s.job
    BY <1>g, <2>1, RestFields
  <2>4. Become(t, next) \/ Become(t, on)
    BY <1>2, <2>1, <2>2, <2>3, <2>d DEF IncrementTransitionsForJob
  <2>5. CASE Become(t, on)
    <3>1. on.stage = s.then /\ on.job = s.job /\ on.then = s.then
      BY <1>g, <2>3, RestFields
    <3>2. (Launching(on) <=> Launching(s)) /\ (Ending(on) <=> Ending(s))
      BY <2>s, <3>1, StagesOfActions DEF Launching, Ending
    <3>3. Advances(t, on)
      BY <1>m, <2>5, <2>s, <3>1, <3>2, Prepared
    <3>4. QED BY <3>3
  <2>6. CASE Become(t, next)
    <3>1. PICK kind \in JobKinds, then \in {"started", "finished", "settle"} :
            kind = "on_transitions_exceeded" /\ then = "settle"
      BY DEF JobKinds
    <3>2. /\ KindOK(kind, then)
          /\ next = Applying(dead, OnTransitionsExceeded, <<kind, dead.job>>, then, "settle")
      BY <2>2, <3>1 DEF KindOK
    <3>3. /\ Apt(t, next) /\ ~Marking(next) /\ next.job = s.job /\ next.cause[1] = kind
          /\ Before(next) /\ ForJob(next) /\ ~Launching(next) /\ Ending(next)
      BY <2>d, <3>1, <3>2, JobActionIsApt
    <3>4. Fresh(next)'
      BY <3>3 DEF Fresh, Marking
    <3>5. ~ForJob(s) /\ ~Marking(s)
      BY <2>s, StagesOfActions DEF ForJob, Marking
    <3>6. \A k \in JobKinds : Past(k, s) => Past(k, next)
      <4> TAKE k \in JobKinds
      <4>1. k = kind => ~Past(k, s)
        BY <2>s, <3>1, <3>5 DEF Past
      <4>2. k # kind => Past(k, next) \/ ~Past(k, s)
        BY <3>1, <3>3 DEF Past, JobKinds
      <4>3. QED BY <4>1, <4>2
    <3>7. ~Early(next)
      BY <3>1, <3>3 DEF Early
    <3>8. Advances(t, next)
      BY <2>6, <3>3, <3>4, <3>5, <3>6, <3>7, Prepared DEF Advances, Steady, Marked
    <3>9. QED BY <3>8
  <2>7. QED BY <2>4, <2>5, <2>6
<1>3. QED BY <1>1, <1>2

LEMMA FinishingAdvances ==
  ASSUME ThreadsOK, NEW t \in Threads, FinalizeOwnedObservation(t)
  PROVE  \E next : Advances(t, next)
<1>0. PICK key \in DOMAIN jobs : \E action :
        Become(t, Applying([Rest EXCEPT !.job = key, !.status = jobs[key].outcome], action,
                           <<"final", key>>, "finished", "settle"))
  BY DEF FinalizeOwnedObservation, Running
<1>1. PICK action :
        Become(t, Applying([Rest EXCEPT !.job = key, !.status = jobs[key].outcome], action,
                           <<"final", key>>, "finished", "settle"))
  BY <1>0
<1>2. PICK s : s = [Rest EXCEPT !.job = key, !.status = jobs[key].outcome]
  OBVIOUS
<1>3. DOMAIN s = DOMAIN Rest /\ s.job = key
  BY <1>2, RestFields
<1>4. PICK kind \in JobKinds, then \in {"started", "finished", "settle"} :
        kind = "final" /\ then = "finished"
  BY DEF JobKinds
<1>5. PICK next : next = Applying(s, action, <<kind, s.job>>, then, "settle")
  OBVIOUS
<1>6. KindOK(kind, then)
  BY <1>4 DEF KindOK
<1>7. /\ Apt(t, next) /\ ~Marking(next) /\ next.cause[1] = kind /\ ForJob(next)
      /\ ~Launching(next)
  BY <1>3, <1>4, <1>5, <1>6, JobActionIsApt
<1>8. thread' = [thread EXCEPT ![t] = next] /\ Plain(thread[t])
  BY <1>1, <1>2, <1>3, <1>4, <1>5, Prepared, StagesOfActions DEF FinalizeOwnedObservation, At, Plain
<1>9. Fresh(next)' /\ ~Early(next)
  BY <1>4, <1>7 DEF Fresh, Marking, Early
<1>10. Steady(thread[t], next)
  BY <1>8, <1>9, PlainKnowsNothing DEF Steady, Marked
<1>11. Advances(t, next)
  BY <1>7, <1>8, <1>9, <1>10 DEF Advances
<1>12. QED BY <1>11

-----------------------------------------------------------------------------
(* What is done stays done *)

\* Who holds the job, and how far it is, is as before.
Same(key) ==
  /\ jobs'[key].status = jobs[key].status
  /\ jobs'[key].owner = jobs[key].owner
  /\ jobs'[key].phase = jobs[key].phase

LEMMA JobsHaveKeys ==
  ASSUME RowsOK, NEW key \in DOMAIN jobs
  PROVE  key # None
BY RoutingAssumption DEF RowsOK

LEMMA EarlyHasJob ==
  ASSUME ThreadsOK, NEW u \in Threads, Early(thread[u]) \/ ForJob(thread[u])
  PROVE  thread[u].job # None /\ thread[u].job \in DOMAIN jobs
<1>1. Shape(thread[u]) /\ Linked(thread[u])
  BY DEF ThreadsOK
<1>2. ForJob(thread[u]) => Launching(thread[u]) \/ Ending(thread[u])
  BY <1>1 DEF ForJob, Shape, Launching, Ending
<1>3. thread[u].job # None
  BY <1>1, <1>2 DEF Early, Shape
<1>4. QED BY <1>1, <1>3 DEF Linked

LEMMA EarlyStays ==
  ASSUME ThreadsOK, NEW u \in Threads, EarlyOK(u),
         Early(thread'[u]) => Early(thread[u]) /\ thread'[u].job = thread[u].job,
         \A key \in DOMAIN jobs : Same(key) \/ jobs'[key].owner # u
  PROVE  EarlyOK(u)'
<1> SUFFICES ASSUME Early(thread'[u]), Holds(u)'
             PROVE  jobs'[thread'[u].job].phase = "claimed"
  BY DEF EarlyOK, Early, Launching, ForJob
<1>1. PICK key \in DOMAIN jobs : key = thread[u].job /\ key # None
  BY EarlyHasJob
<1>2. thread'[u].job = key
  BY <1>1
<1>3. jobs'[key].status = "running" /\ jobs'[key].owner = u
  BY <1>1, <1>2 DEF Holds
<1>4. Same(key) /\ Holds(u)
  BY <1>1, <1>3 DEF Same, Holds
<1>5. jobs[key].phase = "claimed"
  BY <1>1, <1>4 DEF EarlyOK
<1>6. QED BY <1>2, <1>4, <1>5 DEF Same

LEMMA DoneStays ==
  ASSUME RowsOK, NEW key \in DOMAIN jobs, NEW kind \in JobKinds, Same(key), JobDone(kind, key),
         \A u \in Threads :
           thread[u].job = key /\ Holds(u) /\ Past(kind, thread[u])
             => thread'[u].job = key /\ Past(kind, thread'[u])
  PROVE  JobDone(kind, key)'
<1>1. CASE \E u \in Threads : thread[u].job = key /\ Holds(u) /\ Past(kind, thread[u])
  <2>1. PICK u \in Threads : thread[u].job = key /\ Holds(u) /\ Past(kind, thread[u])
    BY <1>1
  <2>2. thread'[u].job = key /\ Past(kind, thread'[u])
    BY <2>1
  <2>3. jobs[key].status = "running" /\ jobs[key].owner = u
    BY <2>1, JobsHaveKeys DEF Holds
  <2>4. Holds(u)'
    BY <2>2, <2>3 DEF Same, Holds
  <2>5. Past(kind, thread[u])'
    BY <2>2 DEF Past, Before, Launching, Ending, ForJob
  <2>6. QED BY <2>2, <2>4, <2>5 DEF JobDone
<1>2. CASE ~ \E u \in Threads : thread[u].job = key /\ Holds(u) /\ Past(kind, thread[u])
  BY <1>2 DEF JobDone, Same
<1>3. QED BY <1>1, <1>2

LEMMA AdvanceMovesOne ==
  ASSUME ThreadsOK, NEW t \in Threads, NEW next, thread' = [thread EXCEPT ![t] = next]
  PROVE  thread'[t] = next /\ \A u \in Threads \ {t} : thread'[u] = thread[u]
BY DEF ThreadsOK

LEMMA CausesStay ==
  ASSUME ThreadsOK, applied' = applied, NEW t \in Threads, \A u \in Threads : CauseOK(u),
         \A u \in Threads \ {t} : thread'[u] = thread[u],
         Apt(t, thread'[t]), Fresh(thread[t])'
  PROVE  \A u \in Threads : CauseOK(u)'
<1> TAKE u \in Threads
<1>1. CASE u = t
  BY <1>1 DEF CauseOK, Apt, Marking, ForJob
<1>2. CASE u # t
  <2>1. thread'[u] = thread[u] /\ CauseOK(u)
    BY <1>2
  <2>2. Apt(u, thread[u])'
    BY <2>1 DEF CauseOK, Apt, Marking, ForJob
  <2>3. Fresh(thread[u])'
    BY <2>1 DEF CauseOK, Fresh, Marking, Before
  <2>4. QED BY <2>2, <2>3 DEF CauseOK
<1>3. QED BY <1>1, <1>2

LEMMA BlocksStay ==
  ASSUME ThreadsOK, applied \subseteq applied', NEW t \in Threads,
         \A u \in Threads \ {t} : thread'[u] = thread[u],
         Marked(thread[t]) =>
           \/ thread[t].cause[2] \in applied'
           \/ Marked(thread'[t]) /\ thread'[t].cause = thread[t].cause
  PROVE  \A b : BlockDone(b) => BlockDone(b)'
<1> SUFFICES ASSUME NEW b, BlockDone(b) PROVE BlockDone(b)'
  OBVIOUS
<1>1. CASE b \in applied
  BY <1>1 DEF BlockDone
<1>2. ASSUME NEW u \in Threads, Marked(thread[u]), thread[u].cause[2] = b
      PROVE  BlockDone(b)'
  <2>1. \/ b \in applied'
        \/ Marked(thread'[u]) /\ thread'[u].cause[2] = b
    BY <1>2
  <2>2. Marked(thread'[u]) => Marked(thread[u])'
    BY DEF Marked, Marking, Before
  <2>3. QED BY <2>1, <2>2 DEF BlockDone
<1>3. QED BY <1>1, <1>2 DEF BlockDone

\* A goroutine advances, and no job changes hands.
LEMMA GoroutineAdvances ==
  ASSUME WorkInvariant, \A u \in Threads : CauseOK(u) /\ EarlyOK(u), applied' = applied,
         NEW t \in Threads, NEW next, Advances(t, next), \A key \in DOMAIN jobs : Same(key)
  PROVE  /\ \A u \in Threads : CauseOK(u)' /\ EarlyOK(u)'
         /\ \A key \in DOMAIN jobs, kind \in JobKinds : JobDone(kind, key) => JobDone(kind, key)'
         /\ \A b : BlockDone(b) => BlockDone(b)'
<1>g. ThreadsOK /\ RowsOK
  BY DEF WorkInvariant
<1>1. thread'[t] = next /\ \A u \in Threads \ {t} : thread'[u] = thread[u]
  BY <1>g, AdvanceMovesOne DEF Advances
<1>2. Steady(thread[t], thread'[t]) /\ Apt(t, thread'[t])
  BY <1>1 DEF Advances
<1>3. Fresh(thread[t])'
  BY <1>1 DEF Advances, Fresh, Marking, Before
<1>4. \A u \in Threads : CauseOK(u)'
  BY <1>1, <1>2, <1>3, <1>g, CausesStay
<1>5. \A u \in Threads : EarlyOK(u)'
  <2> TAKE u \in Threads
  <2>1. Early(thread'[u]) => Early(thread[u]) /\ thread'[u].job = thread[u].job
    BY <1>1, <1>2 DEF Steady
  <2>2. QED BY <1>g, <2>1, EarlyStays
<1>6. ASSUME NEW key \in DOMAIN jobs, NEW kind \in JobKinds, JobDone(kind, key)
      PROVE  JobDone(kind, key)'
  <2>1. \A u \in Threads :
          thread[u].job = key /\ Holds(u) /\ Past(kind, thread[u])
            => thread'[u].job = key /\ Past(kind, thread'[u])
    BY <1>1, <1>2 DEF Steady
  <2>2. QED BY <1>6, <1>g, <2>1, DoneStays
<1>7. \A b : BlockDone(b) => BlockDone(b)'
  BY <1>1, <1>2, <1>g, BlocksStay DEF Steady
<1>8. QED BY <1>4, <1>5, <1>6, <1>7

LEMMA CalmAdvances ==
  ASSUME CommentInvariant, WorldGrows, NEW t \in Threads, NEW next, Advances(t, next),
         comments' = comments, troubles' = troubles, applied' = applied,
         \A key \in DOMAIN jobs : Same(key), PendingOK'
  PROVE  CommentsOK'
<1>g. WorkInvariant /\ IssueOK /\ PostsOK /\ \A u \in Threads : CauseOK(u) /\ EarlyOK(u)
  BY DEF CommentInvariant, WorkInvariant, CommentsOK
<1>1. /\ \A u \in Threads : CauseOK(u)' /\ EarlyOK(u)'
      /\ \A key \in DOMAIN jobs, kind \in JobKinds : JobDone(kind, key) => JobDone(kind, key)'
      /\ \A b : BlockDone(b) => BlockDone(b)'
  BY <1>g, GoroutineAdvances
<1>2. PostsOK'
  BY <1>1, <1>g, CalmCounts
<1>3. QED BY <1>1, <1>2 DEF CommentsOK

LEMMA UnchangedJobs ==
  ASSUME PendingOK, UNCHANGED jobs
  PROVE  PendingOK' /\ \A key \in DOMAIN jobs : Same(key)
BY DEF PendingOK, Same

-----------------------------------------------------------------------------
(* Steps that write no job and post nothing *)

LEMMA InvariantParts ==
  ASSUME CommentInvariant
  PROVE  /\ WorkInvariant /\ ThreadsOK /\ IssueOK /\ RowsOK /\ PostsOK /\ PendingOK
         /\ \A u \in Threads : CauseOK(u) /\ EarlyOK(u)
BY DEF CommentInvariant, WorkInvariant, CommentsOK

LEMMA QuietComments ==
  ASSUME CommentInvariant, WorldGrows, NEW t \in Threads,
         \/ /\ t \in Routers
            /\ \/ ListOpenIssues(t) \/ UpsertIssue(t) \/ ListIssueComments(t) \/ UpsertHandoff(t)
               \/ ListRoutableIssues(t) \/ CheckGate(t)
         \/ RecordGateBlock(t)
         \/ RefreshClaimed(t) \/ RouteStillMatches(t) \/ AttemptScopeHash(t)
         \/ ActionDone(t) \/ IncrementTransitionsForJob(t) \/ FinalizeOwnedObservation(t)
         \/ /\ ActionRead(t) \/ ActionRemove(t) \/ ActionAdd(t) \/ ActionReread(t) \/ ActionStore(t)
            /\ UNCHANGED routingVars
  PROVE  CommentsOK'
<1>g. /\ ThreadsOK /\ IssueOK /\ PendingOK /\ CauseOK(t)
  BY InvariantParts
<1>0. ASSUME NEW next, Advances(t, next), comments' = comments, troubles' = troubles,
             applied' = applied, jobs' = jobs
      PROVE  CommentsOK'
  BY <1>0, <1>g, CalmAdvances, UnchangedJobs
<1>1. CASE /\ t \in Routers
           /\ \/ ListOpenIssues(t) \/ UpsertIssue(t) \/ ListIssueComments(t) \/ UpsertHandoff(t)
              \/ ListRoutableIssues(t) \/ CheckGate(t)
  <2>1. \E next : Advances(t, next)
    BY <1>1, <1>g, PollAdvances
  <2>2. comments' = comments /\ troubles' = troubles /\ applied' = applied /\ jobs' = jobs
    BY <1>1 DEF ListOpenIssues, UpsertIssue, ListIssueComments, UpsertHandoff, ListRoutableIssues,
       CheckGate, issueVars, routingVars
  <2>3. QED BY <1>0, <2>1, <2>2
<1>2. CASE RecordGateBlock(t)
  <2>1. comments' = comments /\ troubles' = troubles /\ applied' = applied /\ jobs' = jobs
    BY <1>2 DEF RecordGateBlock, issueVars
  <2>2. QED BY <1>0, <1>2, <1>g, <2>1, BlockAdvances
<1>3. CASE RefreshClaimed(t) \/ RouteStillMatches(t) \/ AttemptScopeHash(t)
  <2>1. comments' = comments /\ troubles' = troubles /\ applied' = applied /\ jobs' = jobs
    BY <1>3 DEF RefreshClaimed, RouteStillMatches, AttemptScopeHash, issueVars, routingVars
  <2>2. QED BY <1>0, <1>3, <1>g, <2>1, PreparingAdvances
<1>4. CASE ActionDone(t) \/ IncrementTransitionsForJob(t)
  <2>1. comments' = comments /\ troubles' = troubles /\ applied' = applied /\ jobs' = jobs
    BY <1>4 DEF ActionDone, IncrementTransitionsForJob, issueVars, routingVars
  <2>2. QED BY <1>0, <1>4, <1>g, <2>1, CountingAdvances
<1>5. CASE FinalizeOwnedObservation(t)
  <2>1. comments' = comments /\ troubles' = troubles /\ applied' = applied /\ jobs' = jobs
    BY <1>5 DEF FinalizeOwnedObservation, issueVars, routingVars
  <2>2. QED BY <1>0, <1>5, <1>g, <2>1, FinishingAdvances
<1>6. CASE /\ ActionRead(t) \/ ActionRemove(t) \/ ActionAdd(t) \/ ActionReread(t) \/ ActionStore(t)
           /\ UNCHANGED routingVars
  <2>1. comments' = comments /\ troubles' = troubles /\ applied' = applied /\ jobs' = jobs
    BY <1>6 DEF ActionRead, ActionRemove, ActionAdd, ActionReread, ActionStore, issueVars, routingVars
  <2>2. QED BY <1>0, <1>6, <1>g, <2>1, ActionSteps
<1>7. QED BY <1>1, <1>2, <1>3, <1>4, <1>5, <1>6

\* INSERT OR IGNORE: a row that is there is as before, a new one was not launched.
LEMMA EnqueueComments ==
  ASSUME CommentInvariant, WorldGrows, NEW t \in Threads, t \in Routers, EnqueueJob(t)
  PROVE  CommentsOK'
<1>g. /\ ThreadsOK /\ IssueOK /\ PendingOK /\ CauseOK(t)
  BY InvariantParts
<1>1. PICK key : jobs' = [k \in DOMAIN jobs \cup {key} |->
                            IF k \in DOMAIN jobs THEN jobs[k] ELSE NewJob]
  BY DEF EnqueueJob
<1>2. \A k \in DOMAIN jobs : jobs'[k] = jobs[k]
  BY <1>1
<1>3. \A k \in DOMAIN jobs' : k \in DOMAIN jobs \/ jobs'[k] = NewJob
  BY <1>1
<1>4. NewJob.phase = "new"
  BY DEF NewJob
<1>5. PendingOK'
  BY <1>2, <1>3, <1>4, <1>g DEF PendingOK
<1>6. \A k \in DOMAIN jobs : Same(k)
  BY <1>2 DEF Same
<1>7. comments' = comments /\ troubles' = troubles /\ applied' = applied
  BY DEF EnqueueJob, issueVars, routingVars
<1>8. \E next : Advances(t, next)
  BY <1>g, PollAdvances
<1>9. QED BY <1>5, <1>6, <1>7, <1>8, CalmAdvances

\* If there is one router, nobody else is at a block.
LEMMA MarkComments ==
  ASSUME CommentInvariant, WorldGrows, NEW t \in Threads, MarkGateBlockActionApplied(t)
  PROVE  CommentsOK'
<1> DEFINE s == thread[t]
<1>g. /\ ThreadsOK /\ IssueOK /\ RowsOK /\ PendingOK /\ PostsOK
      /\ \A u \in Threads : CauseOK(u) /\ EarlyOK(u)
  BY InvariantParts
<1>1. s.stage = "markApplied" /\ Marking(s) /\ Become(t, Continue(s.issue, s.route))
  BY DEF MarkGateBlockActionApplied, At, Marking
<1>2. t \in Routers /\ s.job = None
  BY <1>1, <1>g DEF CauseOK, Apt
<1>3. s.issue \in Issue /\ s.route \in 0..Len(Routes)
  BY <1>1, <1>g, Prepared DEF Shape, Reading
<1>4. PICK next : next = Continue(s.issue, s.route)
  OBVIOUS
<1>5. next.stage \in {"idle", "gate"} /\ next.job = None
  BY <1>3, <1>4, ContinueIsFine
<1>6. thread' = [thread EXCEPT ![t] = next]
  BY <1>1, <1>4, <1>g, Prepared
<1>7. thread'[t] = next /\ \A u \in Threads \ {t} : thread'[u] = thread[u]
  BY <1>6, <1>g, AdvanceMovesOne
<1>8. Plain(next)
  BY <1>5, StagesOfActions DEF Plain
<1>9. ~Early(next) /\ ~Marking(next) /\ ~ForJob(next)
  BY <1>8, PlainKnowsNothing
<1>10. ~Early(thread'[t]) /\ ~Marking(thread'[t]) /\ ~ForJob(thread'[t])
  BY <1>7, <1>9
<1>11. applied' = applied \cup {s.cause[2]} /\ jobs' = jobs
       /\ comments' = comments /\ troubles' = troubles
  BY DEF MarkGateBlockActionApplied, issueVars
<1>12. PendingOK' /\ \A key \in DOMAIN jobs : Same(key)
  BY <1>11, <1>g, UnchangedJobs
<1>13. \A u \in Threads : CauseOK(u)'
  <2> TAKE u \in Threads
  <2>1. CASE u = t
    <3>1. Apt(t, next) /\ Fresh(next)'
      BY <1>2, <1>5, <1>9 DEF Apt, Fresh, Marking
    <3>2. QED BY <1>7, <2>1, <3>1 DEF CauseOK, Apt, Fresh, Marking, Before, ForJob
  <2>2. CASE u # t
    <3>1. thread'[u] = thread[u] /\ CauseOK(u)
      BY <1>7, <1>g, <2>2
    <3>2. ~(OneRouter /\ Marking(thread[u]))
      BY <1>2, <2>2, <3>1 DEF CauseOK, Apt, OneRouter
    <3>3. Apt(u, thread[u])'
      BY <3>1 DEF CauseOK, Apt, Marking, ForJob
    <3>4. Fresh(thread[u])'
      BY <3>1, <3>2 DEF Fresh, Marking
    <3>5. QED BY <3>3, <3>4 DEF CauseOK
  <2>3. QED BY <2>1, <2>2
<1>14. \A u \in Threads : EarlyOK(u)'
  <2> TAKE u \in Threads
  <2>1. Early(thread'[u]) => Early(thread[u]) /\ thread'[u].job = thread[u].job
    BY <1>7, <1>10
  <2>2. QED BY <1>g, <1>12, <2>1, EarlyStays
<1>15. ASSUME NEW key \in DOMAIN jobs, NEW kind \in JobKinds, JobDone(kind, key)
       PROVE  JobDone(kind, key)'
  <2>1. key # None
    BY <1>g, JobsHaveKeys
  <2>2. QED BY <1>2, <1>7, <1>12, <1>15, <1>g, <2>1, DoneStays
<1>16. \A b : BlockDone(b) => BlockDone(b)'
  BY <1>7, <1>11, <1>g, BlocksStay
<1>17. PostsOK'
  BY <1>11, <1>15, <1>16, <1>g, CalmCounts
<1>18. QED BY <1>12, <1>13, <1>14, <1>17 DEF CommentsOK

\* A goroutine stops, or goes on to the settlement.
LEMMA Stops ==
  ASSUME WorkInvariant, \A u \in Threads : CauseOK(u) /\ EarlyOK(u), applied' = applied,
         NEW t \in Threads, NEW next, thread' = [thread EXCEPT ![t] = next],
         next.stage \in {"idle", "settle"},
         \A key \in DOMAIN jobs : Same(key) \/ \A u \in Threads \ {t} : jobs'[key].owner # u
  PROVE  \A u \in Threads : CauseOK(u)' /\ EarlyOK(u)'
<1>g. ThreadsOK
  BY DEF WorkInvariant
<1>1. thread'[t] = next /\ \A u \in Threads \ {t} : thread'[u] = thread[u]
  BY <1>g, AdvanceMovesOne
<1>2. ~Early(next) /\ ~Marking(next) /\ ~ForJob(next)
  <2>1. CASE next.stage = "idle"
    BY <2>1, PlainKnowsNothing, StagesOfActions DEF Plain
  <2>2. CASE next.stage = "settle"
    BY <2>2, SettlingIsPast
  <2>3. QED BY <2>1, <2>2
<1>3. Apt(t, thread'[t])
  BY <1>1, <1>2 DEF Apt
<1>4. Fresh(thread[t])'
  BY <1>1, <1>2 DEF Fresh, Marking
<1>5. \A u \in Threads : CauseOK(u)'
  BY <1>1, <1>3, <1>4, <1>g, CausesStay
<1>6. \A u \in Threads : EarlyOK(u)'
  <2> TAKE u \in Threads
  <2>1. CASE u = t
    BY <1>1, <1>2, <2>1 DEF EarlyOK, Early, Launching, ForJob
  <2>2. CASE u # t
    BY <1>1, <1>g, <2>2, EarlyStays
  <2>3. QED BY <2>1, <2>2
<1>7. QED BY <1>5, <1>6

LEMMA RefusedComments ==
  ASSUME CommentInvariant, WorldGrows, NEW t \in Threads,
         Refused(t) \/ (ActionRefused(t) /\ UNCHANGED routingVars)
  PROVE  CommentsOK'
<1>g. /\ WorkInvariant /\ ThreadsOK /\ IssueOK /\ RowsOK /\ PendingOK /\ PostsOK
      /\ \A u \in Threads : CauseOK(u) /\ EarlyOK(u)
  BY InvariantParts
<1>1. ~Holds(t) /\ thread' = [thread EXCEPT ![t] = Rest]
  BY <1>g, Prepared DEF Refused, ActionRefused, Drop
<1>2. comments' = comments /\ troubles' = troubles /\ applied' = applied /\ jobs' = jobs
  BY DEF Refused, ActionRefused, issueVars, routingVars
<1>3. PendingOK' /\ \A key \in DOMAIN jobs : Same(key)
  BY <1>2, <1>g, UnchangedJobs
<1>4. Rest.stage = "idle"
  BY RestFields
<1>5. \A u \in Threads : CauseOK(u)' /\ EarlyOK(u)'
  BY <1>1, <1>2, <1>3, <1>4, <1>g, Stops
<1>6. thread'[t] = Rest /\ \A u \in Threads \ {t} : thread'[u] = thread[u]
  BY <1>1, <1>g, AdvanceMovesOne
<1>7. ~Marking(thread[t])
  BY <1>1, <1>g DEF CauseOK, Apt, Holds
<1>8. \A key \in DOMAIN jobs, kind \in JobKinds : JobDone(kind, key) => JobDone(kind, key)'
  BY <1>1, <1>3, <1>6, <1>g, DoneStays
<1>9. \A b : BlockDone(b) => BlockDone(b)'
  BY <1>2, <1>6, <1>7, <1>g, BlocksStay DEF Marked
<1>10. PostsOK'
  BY <1>2, <1>8, <1>9, <1>g, CalmCounts
<1>11. QED BY <1>3, <1>5, <1>10 DEF CommentsOK

-----------------------------------------------------------------------------
(* Steps that write a job *)

\* What is left to show of a step that writes one row, and moves at most the
\* goroutine that has it in hand.
LEMMA OneRowComments ==
  ASSUME CommentInvariant, WorldGrows, comments' = comments, troubles' = troubles,
         applied' = applied, NEW key \in DOMAIN jobs, \A k \in DOMAIN jobs \ {key} : jobs'[k] = jobs[k],
         NEW t \in Threads, \A u \in Threads \ {t} : thread'[u] = thread[u],
         thread'[t] = thread[t] \/ (~Marking(thread[t]) /\ (Plain(thread[t]) \/ thread[t].job = key)),
         \A kind \in JobKinds : JobDone(kind, key) => JobDone(kind, key)'
  PROVE  PostsOK'
<1>g. ThreadsOK /\ IssueOK /\ RowsOK /\ PostsOK
  BY InvariantParts
<1>1. ASSUME NEW k \in DOMAIN jobs, NEW kind \in JobKinds, JobDone(kind, k)
      PROVE  JobDone(kind, k)'
  <2>1. CASE k = key
    BY <1>1, <2>1
  <2>2. CASE k # key
    <3>1. Same(k)
      BY <2>2 DEF Same
    <3>2. \A u \in Threads :
            thread[u].job = k /\ Holds(u) /\ Past(kind, thread[u])
              => thread'[u].job = k /\ Past(kind, thread'[u])
      BY <2>2, PlainKnowsNothing
    <3>3. QED BY <1>1, <1>g, <3>1, <3>2, DoneStays
  <2>3. QED BY <2>1, <2>2
<1>2. \A b : BlockDone(b) => BlockDone(b)'
  BY <1>g, BlocksStay DEF Marked
<1>3. QED BY <1>1, <1>2, <1>g, CalmCounts

LEMMA ClaimComments ==
  ASSUME CommentInvariant, WorldGrows, NEW t \in Threads, Claim(t)
  PROVE  CommentsOK'
<1>g. /\ WorkInvariant /\ ThreadsOK /\ IssueOK /\ RowsOK /\ PendingOK /\ PostsOK
      /\ \A u \in Threads : CauseOK(u) /\ EarlyOK(u)
  BY InvariantParts
<1>1. PICK key \in DOMAIN jobs :
        /\ jobs[key].status = "pending"
        /\ SetJob(key, [jobs[key] EXCEPT !.status = "running", !.owner = t, !.phase = "claimed"])
        /\ Become(t, [Rest EXCEPT !.stage = "refresh", !.job = key])
  BY DEF Claim
<1>2. PICK row : row = [jobs[key] EXCEPT !.status = "running", !.owner = t, !.phase = "claimed"]
  OBVIOUS
<1>3. RowOK(jobs[key])
  BY <1>g DEF RowsOK
<1>4. row.status = "running" /\ row.owner = t /\ row.phase = "claimed"
  BY <1>2, <1>3, RowFields
<1>5. /\ DOMAIN jobs' = DOMAIN jobs /\ jobs'[key] = row
      /\ \A k \in DOMAIN jobs \ {key} : jobs'[k] = jobs[k]
  BY <1>1, <1>2, WrittenRow
<1>6. PendingOK'
  BY <1>4, <1>5, <1>g DEF PendingOK
<1>7. PICK next : next = [Rest EXCEPT !.stage = "refresh", !.job = key]
  OBVIOUS
<1>8. thread' = [thread EXCEPT ![t] = next] /\ next.stage = "refresh"
  BY <1>1, <1>7, <1>g, Prepared, RestFields
<1>9. thread'[t] = next /\ \A u \in Threads \ {t} : thread'[u] = thread[u]
  BY <1>8, <1>g, AdvanceMovesOne
<1>10. Plain(next) /\ Plain(thread[t])
  BY <1>8, StagesOfActions DEF Plain, Claim, At
<1>11. comments' = comments /\ troubles' = troubles /\ applied' = applied
  BY DEF Claim, issueVars, routingVars
<1>12. ~Early(next) /\ ~Marking(next) /\ ~ForJob(next) /\ ~Marking(thread[t])
  BY <1>10, PlainKnowsNothing
<1>13. \A u \in Threads : CauseOK(u)'
  <2>1. Apt(t, thread'[t])
    BY <1>8, <1>9, <1>12 DEF Apt
  <2>2. Fresh(thread[t])'
    BY <1>9, <1>12 DEF Fresh, Marking
  <2>3. QED BY <1>9, <1>11, <1>g, <2>1, <2>2, CausesStay
<1>14. ASSUME NEW u \in Threads PROVE EarlyOK(u)'
  <2>1. CASE u = t
    BY <1>9, <1>12, <2>1 DEF EarlyOK, Early, Launching, ForJob
  <2>2. CASE u # t
    <3>1. \A k \in DOMAIN jobs : Same(k) \/ jobs'[k].owner # u
      BY <1>4, <1>5, <2>2 DEF Same
    <3>2. QED BY <1>9, <1>g, <2>2, <3>1, EarlyStays
  <2>3. QED BY <2>1, <2>2
<1>15. ASSUME NEW kind \in JobKinds PROVE ~JobDone(kind, key)
  <2>1. key # None
    BY <1>g, JobsHaveKeys
  <2>2. jobs[key].phase # "launched"
    BY <1>1, <1>g DEF PendingOK
  <2>3. ~ \E u \in Threads : thread[u].job = key /\ Holds(u)
    BY <1>1, <2>1 DEF Holds
  <2>4. QED BY <1>1, <2>2, <2>3 DEF JobDone
<1>16. PostsOK'
  BY <1>5, <1>9, <1>10, <1>11, <1>12, <1>15, OneRowComments
<1>17. QED BY <1>6, <1>13, <1>14, <1>16 DEF CommentsOK

\* A charge is followed by on_start or on_attempts_exceeded, of a job just claimed.
LEMMA ChargeComments ==
  ASSUME CommentInvariant, WorldGrows, NEW t \in Threads, IncrementAttemptsForJob(t)
  PROVE  CommentsOK'
<1> DEFINE s == thread[t]
<1>g. /\ WorkInvariant /\ ThreadsOK /\ IssueOK /\ RowsOK /\ PendingOK /\ PostsOK
      /\ \A u \in Threads : CauseOK(u) /\ EarlyOK(u)
  BY InvariantParts
<1>s. /\ s.stage = "charge" /\ Holds(t) /\ Claiming(s) /\ Plain(s)
      /\ Shape(s) /\ Linked(s) /\ DOMAIN s = DOMAIN Rest
  BY <1>g, Prepared, StagesOfActions DEF IncrementAttemptsForJob, At, Claiming, Plain, Shape
<1>1. PICK key \in DOMAIN jobs : key = s.job /\ key # None
  BY <1>s DEF Shape, Linked
<1>2. PICK row : row = [jobs[key] EXCEPT !.charge = s.charge]
  OBVIOUS
<1>3. RowOK(jobs[key])
  BY <1>g DEF RowsOK
<1>4. row.status = jobs[key].status /\ row.owner = jobs[key].owner /\ row.phase = jobs[key].phase
  BY <1>2, <1>3, RowFields
<1>5. /\ DOMAIN jobs' = DOMAIN jobs /\ jobs'[key] = row
      /\ \A k \in DOMAIN jobs \ {key} : jobs'[k] = jobs[k]
  BY <1>1, <1>2, WrittenRow DEF IncrementAttemptsForJob
<1>6. \A k \in DOMAIN jobs : Same(k)
  BY <1>4, <1>5 DEF Same
<1>7. PendingOK'
  BY <1>5, <1>6, <1>g DEF PendingOK, Same
<1>8. comments' = comments /\ troubles' = troubles /\ applied' = applied
  BY DEF IncrementAttemptsForJob, issueVars, routingVars
<1>a. PICK a : a = [s EXCEPT !.status = "dead", !.charge = None]
  OBVIOUS
<1>b. PICK b : b = [s EXCEPT !.charge = None]
  OBVIOUS
<1>c. DOMAIN a = DOMAIN Rest /\ DOMAIN b = DOMAIN Rest /\ a.job = key /\ b.job = key
  BY <1>1, <1>a, <1>b, <1>s, RestFields
<1>9. \E action :
        \/ Become(t, Applying(a, action, <<"on_attempts_exceeded", a.job>>, "settle", "settle"))
        \/ Become(t, Applying(b, action, <<"on_start", b.job>>, "started", "settle"))
  BY <1>1, <1>a, <1>b, <1>c DEF IncrementAttemptsForJob
<1>10. \E next : /\ thread' = [thread EXCEPT ![t] = next] /\ Apt(t, next) /\ ~Marking(next)
                 /\ next.job = key
  <2>1. ASSUME NEW r, DOMAIN r = DOMAIN Rest, r.job = key, NEW action, NEW kind \in JobKinds,
               NEW then \in {"started", "finished", "settle"}, KindOK(kind, then),
               Become(t, Applying(r, action, <<kind, r.job>>, then, "settle"))
        PROVE  \E next : /\ thread' = [thread EXCEPT ![t] = next] /\ Apt(t, next) /\ ~Marking(next)
                         /\ next.job = key
    <3>1. PICK next : next = Applying(r, action, <<kind, r.job>>, then, "settle")
      OBVIOUS
    <3>2. Apt(t, next) /\ ~Marking(next) /\ next.job = key
      BY <2>1, <3>1, JobActionIsApt
    <3>3. thread' = [thread EXCEPT ![t] = next]
      BY <1>g, <2>1, <3>1, Prepared
    <3>4. QED BY <3>2, <3>3
  <2>2. KindOK("on_attempts_exceeded", "settle") /\ KindOK("on_start", "started")
    BY DEF KindOK, JobKinds
  <2>3. "on_attempts_exceeded" \in JobKinds /\ "on_start" \in JobKinds
    BY DEF JobKinds
  <2>4. PICK action :
          \/ Become(t, Applying(a, action, <<"on_attempts_exceeded", a.job>>, "settle", "settle"))
          \/ Become(t, Applying(b, action, <<"on_start", b.job>>, "started", "settle"))
    BY <1>9
  <2>5. CASE Become(t, Applying(a, action, <<"on_attempts_exceeded", a.job>>, "settle", "settle"))
    BY <1>c, <2>1, <2>2, <2>3, <2>5
  <2>6. CASE Become(t, Applying(b, action, <<"on_start", b.job>>, "started", "settle"))
    BY <1>c, <2>1, <2>2, <2>3, <2>6
  <2>7. QED BY <2>4, <2>5, <2>6
<1>11. PICK next : /\ thread' = [thread EXCEPT ![t] = next] /\ Apt(t, next) /\ ~Marking(next)
                   /\ next.job = key
  BY <1>10
<1>12. thread'[t] = next /\ \A u \in Threads \ {t} : thread'[u] = thread[u]
  BY <1>11, <1>g, AdvanceMovesOne
<1>13. \A u \in Threads : CauseOK(u)'
  <2>1. Apt(t, thread'[t])
    BY <1>11, <1>12
  <2>2. Fresh(thread[t])'
    BY <1>11, <1>12 DEF Fresh, Marking
  <2>3. QED BY <1>8, <1>12, <1>g, <2>1, <2>2, CausesStay
<1>14. ASSUME NEW u \in Threads PROVE EarlyOK(u)'
  <2>1. CASE u = t
    <3>1. jobs[key].phase = "claimed"
      BY <1>1, <1>s, <1>g DEF RowsOK
    <3>2. QED BY <1>4, <1>5, <1>11, <1>12, <2>1, <3>1 DEF EarlyOK
  <2>2. CASE u # t
    BY <1>6, <1>12, <1>g, <2>2, EarlyStays
  <2>3. QED BY <2>1, <2>2
<1>15. ~Marking(s) /\ \A kind \in JobKinds : ~Past(kind, s)
  BY <1>s, PlainKnowsNothing
<1>16. \A kind \in JobKinds : JobDone(kind, key) => JobDone(kind, key)'
  BY <1>6, <1>12, <1>15, <1>g, DoneStays
<1>17. PostsOK'
  BY <1>5, <1>8, <1>12, <1>15, <1>16, <1>s, OneRowComments
<1>18. QED BY <1>7, <1>13, <1>14, <1>17 DEF CommentsOK

\* After the launch there is no way back to its comments; a settlement is the end.
LEMMA LaunchAndSettleComments ==
  ASSUME CommentInvariant, WorldGrows, NEW t \in Threads, Launch(t) \/ FinalizeJobOwned(t)
  PROVE  CommentsOK'
<1> DEFINE s == thread[t]
<1>g. /\ WorkInvariant /\ ThreadsOK /\ IssueOK /\ RowsOK /\ PendingOK /\ PostsOK
      /\ \A u \in Threads : CauseOK(u) /\ EarlyOK(u)
  BY InvariantParts
<1>s. /\ s.stage \in {"launch", "settle"} /\ Holds(t) /\ Shape(s) /\ Linked(s)
      /\ Launch(t) => s.stage = "launch"
      /\ thread' = [thread EXCEPT ![t] = Rest]
  BY <1>g, Prepared DEF Launch, FinalizeJobOwned, At, Drop
<1>1. PICK key \in DOMAIN jobs : key = s.job /\ key # None
  BY <1>s DEF Shape, Linked, Launching, Ending
<1>2. jobs[key].status = "running" /\ jobs[key].owner = t /\ RowOK(jobs[key])
  BY <1>1, <1>s, <1>g DEF Holds, RowsOK
<1>3. PICK row :
        /\ SetJob(key, row)
        /\ \/ Launch(t) /\ row.status = "running" /\ row.owner = t /\ row.phase = "launched"
           \/ row.status \notin {"pending", "running"} /\ row.owner = None
  <2>1. CASE Launch(t)
    <3>1. PICK row : row = [jobs[key] EXCEPT !.phase = "launched"]
      OBVIOUS
    <3>2. row.status = "running" /\ row.owner = t /\ row.phase = "launched"
      BY <1>2, <3>1, RowFields
    <3>3. SetJob(key, row)
      BY <1>1, <2>1, <3>1 DEF Launch
    <3>4. QED BY <2>1, <3>2, <3>3
  <2>2. CASE FinalizeJobOwned(t)
    <3>1. PICK refund \in BOOLEAN :
            refund = (/\ jobs[s.job].phase = "launched" /\ jobs[s.job].result.workStarted = "no"
                      /\ jobs[s.job].charge # None)
      OBVIOUS
    <3>2. SetJob(s.job, [jobs[s.job] EXCEPT !.status = s.status, !.owner = None,
                                            !.charge = IF refund THEN None ELSE @])
      BY <2>2, <3>1 DEF FinalizeJobOwned
    <3>3. PICK charge : charge = IF refund THEN None ELSE jobs[key].charge
      OBVIOUS
    <3>4. "charge" \in DOMAIN jobs[key]
      BY <1>2, RowFields
    <3>5. PICK row : row = [jobs[key] EXCEPT !.status = s.status, !.owner = None, !.charge = charge]
      OBVIOUS
    <3>6. SetJob(key, row)
      BY <1>1, <3>2, <3>3, <3>4, <3>5
    <3>7. row.status = s.status /\ row.owner = None
      BY <1>2, <3>5, RowFields
    <3>8. s.status \in Statuses
      BY <1>s, <2>2 DEF Shape, Ending, Statuses, FinalizeJobOwned, At
    <3>9. QED BY <3>6, <3>7, <3>8 DEF Statuses, Outcomes
  <2>3. QED BY <2>1, <2>2
<1>4. /\ DOMAIN jobs' = DOMAIN jobs /\ jobs'[key] = row
      /\ \A k \in DOMAIN jobs \ {key} : jobs'[k] = jobs[k]
  BY <1>3, WrittenRow
<1>5. PendingOK'
  BY <1>3, <1>4, <1>g DEF PendingOK
<1>6. comments' = comments /\ troubles' = troubles /\ applied' = applied
  BY DEF Launch, FinalizeJobOwned, issueVars, routingVars
<1>7. \A k \in DOMAIN jobs : Same(k) \/ \A u \in Threads \ {t} : jobs'[k].owner # u
  BY <1>3, <1>4, RoutingAssumption DEF Same
<1>8. \A u \in Threads : CauseOK(u)' /\ EarlyOK(u)'
  BY <1>6, <1>7, <1>s, <1>g, RestFields, Stops
<1>9. thread'[t] = Rest /\ \A u \in Threads \ {t} : thread'[u] = thread[u]
  BY <1>s, <1>g, AdvanceMovesOne
<1>10. ~Marking(s)
  BY <1>s, StagesOfActions DEF Marking
<1>11. ASSUME NEW kind \in JobKinds, JobDone(kind, key) PROVE JobDone(kind, key)'
  <2>1. CASE jobs'[key].status \notin {"pending", "running"}
    BY <2>1 DEF JobDone
  <2>2. CASE s.stage = "launch" /\ jobs'[key].phase = "launched"
    <3>1. \A u \in Threads : thread[u].job = key /\ Holds(u) => u = t
      BY <1>1, <1>2 DEF Holds
    <3>2. Past(kind, s) => kind \in {"on_start", "on_attempts_exceeded"}
      BY <2>2, StagesOfActions DEF Past, Ending, ForJob
    <3>3. kind \in {"on_start", "on_attempts_exceeded"}
      BY <1>2, <1>11, <3>1, <3>2 DEF JobDone
    <3>4. QED BY <2>2, <3>3 DEF JobDone
  <2>3. QED BY <1>3, <1>4, <1>s, <2>1, <2>2
<1>12. PostsOK'
  BY <1>1, <1>4, <1>6, <1>9, <1>10, <1>11, OneRowComments
<1>13. QED BY <1>5, <1>8, <1>12 DEF CommentsOK

-----------------------------------------------------------------------------
(* Around the goroutines *)

\* No goroutine moves, and one row is written.
LEMMA UnmovedGoroutines ==
  ASSUME CommentInvariant, thread' = thread, applied' = applied,
         NEW key \in DOMAIN jobs, DOMAIN jobs' = DOMAIN jobs,
         \A k \in DOMAIN jobs \ {key} : jobs'[k] = jobs[k],
         jobs'[key].status = "pending" => jobs'[key].phase # "launched",
         Same(key) \/ \A u \in Threads : jobs'[key].owner # u \/ thread[u].stage = "idle"
  PROVE  PendingOK' /\ \A u \in Threads : CauseOK(u)' /\ EarlyOK(u)'
<1>g. /\ ThreadsOK /\ PendingOK /\ \A u \in Threads : CauseOK(u) /\ EarlyOK(u)
  BY InvariantParts
<1>1. PendingOK'
  BY <1>g DEF PendingOK
<1>2. \A u \in Threads : CauseOK(u)'
  BY <1>g DEF CauseOK, Apt, Fresh, Marking, Before, ForJob
<1>3. ASSUME NEW u \in Threads PROVE EarlyOK(u)'
  <2>1. CASE thread[u].stage = "idle"
    <3>1. ~Early(thread[u])
      BY <2>1, PlainKnowsNothing, StagesOfActions DEF Plain
    <3>2. QED BY <3>1 DEF EarlyOK, Early, Launching, ForJob
  <2>2. CASE thread[u].stage # "idle"
    <3>1. \A k \in DOMAIN jobs : Same(k) \/ jobs'[k].owner # u
      BY <2>2 DEF Same
    <3>2. QED BY <1>g, <3>1, EarlyStays
  <2>3. QED BY <2>1, <2>2
<1>4. QED BY <1>1, <1>2, <1>3

\* A job nobody alive owns is done only if it was launched; if it was not, its
\* comments may all be posted again, but they were not allowed one of their own yet.
LEMMA RowComments ==
  ASSUME CommentInvariant, WorldGrows, NEW key \in DOMAIN jobs,
         CommandEnds(key) \/ Requeue(key) \/ \E t \in Threads : Adopt(t, key)
  PROVE  CommentsOK'
<1>g. /\ IssueOK /\ RowsOK /\ PendingOK /\ PostsOK
  BY InvariantParts
<1>a. Gone \notin Threads /\ None \notin Threads
  BY RoutingAssumption, WorkflowAssumption
<1>1. RowOK(jobs[key]) /\ key # None
  BY <1>g, JobsHaveKeys DEF RowsOK
<1>2. /\ thread' = thread /\ applied' = applied /\ comments' = comments /\ troubles' = troubles
  BY DEF CommandEnds, Requeue, Adopt, routingVars, issueVars
<1>3. PICK row :
        /\ SetJob(key, row)
        /\ \/ /\ row.status = jobs[key].status /\ row.owner = jobs[key].owner
              /\ row.phase = jobs[key].phase
           \/ /\ row.status = "pending" /\ row.owner = None /\ row.phase = "new"
              /\ jobs[key].status = "running" /\ jobs[key].owner = Gone
              /\ jobs[key].phase # "launched"
           \/ /\ row.status = "running" /\ row.phase = "launched"
              /\ \E t \in Threads : row.owner = t /\ thread[t].stage = "idle"
              /\ jobs[key].status = "running" /\ jobs[key].owner = Gone
              /\ jobs[key].phase = "launched"
  <2>1. CASE CommandEnds(key)
    <3>1. PICK r \in Results :
            SetJob(key, [jobs[key] EXCEPT !.outcome = r.outcome, !.result = r])
      BY <2>1 DEF CommandEnds
    <3>2. PICK row : row = [jobs[key] EXCEPT !.outcome = r.outcome, !.result = r]
      OBVIOUS
    <3>3. /\ row.status = jobs[key].status /\ row.owner = jobs[key].owner
          /\ row.phase = jobs[key].phase
      BY <1>1, <3>2, RowFields
    <3>4. QED BY <3>1, <3>2, <3>3
  <2>2. CASE Requeue(key)
    <3>1. PICK row :
            row = [jobs[key] EXCEPT !.status = "pending", !.owner = None, !.phase = "new"]
      OBVIOUS
    <3>2. row.status = "pending" /\ row.owner = None /\ row.phase = "new"
      BY <1>1, <3>1, RowFields
    <3>3. /\ SetJob(key, row) /\ jobs[key].status = "running" /\ jobs[key].owner = Gone
          /\ jobs[key].phase # "launched"
      BY <2>2, <3>1 DEF Requeue, Running, Launched
    <3>4. QED BY <3>2, <3>3
  <2>3. ASSUME NEW t \in Threads, Adopt(t, key)
        PROVE  \E row :
                 /\ SetJob(key, row)
                 /\ row.status = "running" /\ row.phase = "launched"
                 /\ row.owner = t /\ thread[t].stage = "idle"
                 /\ jobs[key].status = "running" /\ jobs[key].owner = Gone
                 /\ jobs[key].phase = "launched"
    <3>1. PICK row : row = [jobs[key] EXCEPT !.owner = t]
      OBVIOUS
    <3>2. row.status = jobs[key].status /\ row.owner = t /\ row.phase = jobs[key].phase
      BY <1>1, <3>1, RowFields
    <3>3. /\ SetJob(key, row) /\ jobs[key].status = "running" /\ jobs[key].owner = Gone
          /\ jobs[key].phase = "launched" /\ thread[t].stage = "idle"
      BY <2>3, <3>1 DEF Adopt, Running, Launched, At
    <3>4. QED BY <3>2, <3>3
  <2>4. QED BY <2>1, <2>2, <2>3
<1>4. /\ DOMAIN jobs' = DOMAIN jobs /\ jobs'[key] = row
      /\ \A k \in DOMAIN jobs \ {key} : jobs'[k] = jobs[k]
  BY <1>3, WrittenRow
<1>5. jobs'[key].status = "pending" => jobs'[key].phase # "launched"
  BY <1>3, <1>4, <1>g DEF PendingOK
<1>6. Same(key) \/ \A u \in Threads : jobs'[key].owner # u \/ thread[u].stage = "idle"
  BY <1>3, <1>4, <1>a DEF Same
<1>7. PendingOK' /\ \A u \in Threads : CauseOK(u)' /\ EarlyOK(u)'
  BY <1>2, <1>4, <1>5, <1>6, UnmovedGoroutines
<1>8. ASSUME NEW k \in DOMAIN jobs, NEW kind \in JobKinds, JobDone(kind, k)
      PROVE  JobDone(kind, k)'
  <2>1. CASE Same(k)
    BY <1>2, <1>8, <1>g, <2>1, DoneStays
  <2>2. CASE ~Same(k)
    <3>1. k = key /\ jobs[key].status = "running" /\ jobs[key].owner = Gone
      BY <1>3, <1>4, <2>2 DEF Same
    <3>2. ~ \E u \in Threads : thread[u].job = key /\ Holds(u)
      BY <1>1, <1>a, <3>1 DEF Holds
    <3>3. jobs[key].phase = "launched" /\ kind \in {"on_start", "on_attempts_exceeded"}
      BY <1>8, <3>1, <3>2 DEF JobDone
    <3>4. jobs'[key].phase = "launched"
      BY <1>3, <1>4, <3>3
    <3>5. QED BY <3>1, <3>3, <3>4 DEF JobDone
  <2>3. QED BY <2>1, <2>2
<1>9. \A b : BlockDone(b) => BlockDone(b)'
  BY <1>2 DEF BlockDone, Marked, Marking, Before
<1>10. PostsOK'
  BY <1>2, <1>8, <1>9, <1>g, CalmCounts
<1>11. QED BY <1>7, <1>10 DEF CommentsOK

LEMMA LoseComments ==
  ASSUME CommentInvariant, WorldGrows, NEW key \in DOMAIN jobs, LoseJob(key)
  PROVE  CommentsOK'
<1>g. /\ IssueOK /\ RowsOK /\ PendingOK /\ PostsOK
  BY InvariantParts
<1>1. RowOK(jobs[key])
  BY <1>g DEF RowsOK
<1>2. /\ thread' = thread /\ applied' = applied /\ comments' = comments
      /\ troubles' = troubles + 1 /\ jobs[key].status = "running"
  BY DEF LoseJob, Trouble, Running, routingVars, issueVars
<1>3. PICK row : row = [jobs[key] EXCEPT !.owner = Gone]
  OBVIOUS
<1>4. row.status = jobs[key].status /\ row.owner = Gone
  BY <1>1, <1>3, RowFields
<1>5. /\ DOMAIN jobs' = DOMAIN jobs /\ jobs'[key] = row
      /\ \A k \in DOMAIN jobs \ {key} : jobs'[k] = jobs[k]
  BY <1>3, WrittenRow DEF LoseJob
<1>6. /\ jobs'[key].status # "pending"
      /\ \A u \in Threads : jobs'[key].owner # u
  BY <1>2, <1>4, <1>5, WorkflowAssumption
<1>7. PendingOK' /\ \A u \in Threads : CauseOK(u)' /\ EarlyOK(u)'
  BY <1>2, <1>5, <1>6, UnmovedGoroutines
<1>8. PostsOK'
  BY <1>2, <1>g, TroubledCounts
<1>9. QED BY <1>7, <1>8 DEF CommentsOK

LEMMA CrashComments ==
  ASSUME CommentInvariant, WorldGrows, NEW t \in Threads, Crash(t)
  PROVE  CommentsOK'
<1>g. /\ WorkInvariant /\ ThreadsOK /\ IssueOK /\ RowsOK /\ PendingOK /\ PostsOK
      /\ \A u \in Threads : CauseOK(u) /\ EarlyOK(u)
  BY InvariantParts
<1>1. /\ thread' = [thread EXCEPT ![t] = Rest] /\ applied' = applied /\ comments' = comments
      /\ troubles' = troubles + 1
  BY <1>g, Prepared DEF Crash, Trouble, Drop, routingVars, issueVars
<1>2. /\ DOMAIN jobs' = DOMAIN jobs
      /\ \A key \in DOMAIN jobs :
           jobs'[key] = IF jobs[key].owner = t THEN [jobs[key] EXCEPT !.owner = Gone] ELSE jobs[key]
  BY DEF Crash
<1>3. ASSUME NEW key \in DOMAIN jobs
      PROVE  /\ jobs'[key].phase = jobs[key].phase /\ jobs'[key].status = jobs[key].status
             /\ Same(key) \/ jobs'[key].owner = Gone
  <2>1. RowOK(jobs[key])
    BY <1>g DEF RowsOK
  <2>2. CASE jobs[key].owner = t
    <3>1. PICK row : row = [jobs[key] EXCEPT !.owner = Gone]
      OBVIOUS
    <3>2. row.status = jobs[key].status /\ row.owner = Gone /\ row.phase = jobs[key].phase
      BY <2>1, <3>1, RowFields
    <3>3. QED BY <1>2, <2>2, <3>1, <3>2
  <2>3. CASE jobs[key].owner # t
    BY <1>2, <2>3 DEF Same
  <2>4. QED BY <2>2, <2>3
<1>4. PendingOK'
  BY <1>2, <1>3, <1>g DEF PendingOK
<1>5. \A key \in DOMAIN jobs : Same(key) \/ \A u \in Threads \ {t} : jobs'[key].owner # u
  BY <1>3, WorkflowAssumption
<1>6. \A u \in Threads : CauseOK(u)' /\ EarlyOK(u)'
  BY <1>1, <1>5, <1>g, RestFields, Stops
<1>7. PostsOK'
  BY <1>1, <1>g, TroubledCounts
<1>8. QED BY <1>4, <1>6, <1>7 DEF CommentsOK

\* A call that fails leads to the settlement of the job, or to nothing.
LEMMA FailureStops ==
  ASSUME ThreadsOK, NEW t \in Threads,
         PollFails(t) \/ RefreshFails(t) \/ LaunchFails(t) \/ ActionFails(t)
  PROVE  \E next : /\ thread' = [thread EXCEPT ![t] = next]
                   /\ next.stage \in {"idle", "settle"}
<1> DEFINE s == thread[t]
<1>s. Shape(s) /\ DOMAIN s = DOMAIN Rest
  BY Prepared DEF Shape
<1>1. CASE Become(t, Rest)
  BY <1>1, Prepared, RestFields
<1>2. CASE Become(t, Settle(s, "failed"))
  <2>1. PICK next : next = Settle(s, "failed")
    OBVIOUS
  <2>2. next.stage = "settle"
    BY <1>s, <2>1, RestFields DEF Settle
  <2>3. QED BY <1>2, <2>1, <2>2, Prepared
<1>3. PICK failed :
        failed = [s EXCEPT !.stage = s.orElse, !.action = NoAction, !.left = <<>>,
                           !.status = "failed"]
  OBVIOUS
<1>4. CASE Become(t, failed) /\ ActionFails(t) /\ s.orElse # "idle"
  <2>1. s.stage \in ActionStages
    BY <1>4 DEF ActionFails, ActionStages
  <2>2. s.orElse = "settle"
    BY <1>s, <1>4, <2>1 DEF Shape
  <2>3. failed.stage = "settle"
    BY <1>s, <1>3, <2>2, RestFields
  <2>4. QED BY <1>4, <2>3, Prepared
<1>5. QED BY <1>1, <1>2, <1>3, <1>4 DEF PollFails, RefreshFails, LaunchFails, ActionFails

\* A failed call of which nothing came, or that was not of an action.
LEMMA FailureComments ==
  ASSUME CommentInvariant, WorldGrows, NEW t \in Threads,
         \/ PollFails(t)
         \/ RefreshFails(t) \/ LaunchFails(t)
         \/ ActionFails(t) /\ UNCHANGED <<comments, routingVars>>
  PROVE  CommentsOK'
<1>g. /\ WorkInvariant /\ ThreadsOK /\ IssueOK /\ RowsOK /\ PendingOK /\ PostsOK
      /\ \A u \in Threads : CauseOK(u) /\ EarlyOK(u)
  BY InvariantParts
<1>1. /\ applied' = applied /\ comments' = comments /\ troubles' = troubles + 1 /\ jobs' = jobs
  BY DEF PollFails, RefreshFails, LaunchFails, ActionFails, Trouble, routingVars, issueVars
<1>2. PICK next : /\ thread' = [thread EXCEPT ![t] = next]
                  /\ next.stage \in {"idle", "settle"}
  BY <1>g, FailureStops
<1>3. PendingOK' /\ \A key \in DOMAIN jobs : Same(key)
  BY <1>1, <1>g, UnchangedJobs
<1>4. \A u \in Threads : CauseOK(u)' /\ EarlyOK(u)'
  BY <1>1, <1>2, <1>3, <1>g, Stops
<1>5. PostsOK'
  BY <1>1, <1>g, TroubledCounts
<1>6. QED BY <1>3, <1>4, <1>5 DEF CommentsOK

\* People post for no cause but theirs.
LEMMA EditComments ==
  ASSUME CommentInvariant, WorldGrows, Edit
  PROVE  CommentsOK'
<1>g. /\ IssueOK /\ RowsOK /\ PendingOK /\ PostsOK
      /\ \A u \in Threads : CauseOK(u) /\ EarlyOK(u)
  BY InvariantParts
<1>1. /\ jobs' = jobs /\ thread' = thread /\ applied' = applied /\ troubles' = troubles
      /\ comments' = comments \/ \E text : Comment(text, <<"user">>)
  BY DEF Edit, routingVars
<1>2. PendingOK'
  BY <1>1, <1>g, UnchangedJobs
<1>3. \A u \in Threads : CauseOK(u)' /\ EarlyOK(u)'
  BY <1>1, <1>g DEF CauseOK, Apt, Fresh, Marking, Before, ForJob, EarlyOK, Early, Launching, Holds
<1>4. \A key \in DOMAIN jobs, kind \in JobKinds : JobDone(kind, key) => JobDone(kind, key)'
  BY <1>1 DEF JobDone, Past, Before, Launching, Ending, ForJob, Holds
<1>5. \A b : BlockDone(b) => BlockDone(b)'
  BY <1>1 DEF BlockDone, Marked, Marking, Before
<1>6. PostsOK'
  <2>1. CASE comments' = comments
    BY <1>1, <1>4, <1>5, <1>g, <2>1, CalmCounts
  <2>2. ASSUME NEW text, Comment(text, <<"user">>) PROVE PostsOK'
    <3>1. /\ \A c : c # <<"user">> => Posts(c)' = Posts(c)
          /\ \A n \in DOMAIN comments' :
               \/ n \in DOMAIN comments /\ comments'[n] = comments[n]
               \/ comments'[n].cause = <<"user">>
      BY <1>g, <2>2, OneMorePost
    <3>2. Known(<<"user">>)
      BY DEF Known
    <3>3. ASSUME NEW c, c # <<"user">> PROVE (Few(c) => Few(c)') /\ (Fewer(c) => Fewer(c)')
      BY <1>1, <3>1, <3>3 DEF Few, Fewer
    <3>4. \A key \in DOMAIN jobs, kind \in JobKinds :
            Few(<<kind, key>>)' /\ (JobDone(kind, key)' \/ Fewer(<<kind, key>>)')
      BY <1>4, <1>g, <3>3, CausesDiffer DEF PostsOK
    <3>5. OneRouter => \A b \in blocks : Few(<<"block", b>>)' /\ (BlockDone(b)' \/ Fewer(<<"block", b>>)')
      BY <1>5, <1>g, <3>3, CausesDiffer DEF PostsOK
    <3>6. troubles' \in Nat /\ troubles <= troubles'
      BY <1>1, <1>g DEF PostsOK
    <3>7. QED BY <1>g, <3>1, <3>2, <3>4, <3>5, <3>6, CountsSuffice
  <2>3. QED BY <1>1, <2>1, <2>2
<1>7. QED BY <1>2, <1>3, <1>6 DEF CommentsOK

LEMMA StutterComments ==
  ASSUME CommentInvariant, WorldGrows, UNCHANGED workVars
  PROVE  CommentsOK'
<1>g. /\ IssueOK /\ PendingOK /\ PostsOK /\ \A u \in Threads : CauseOK(u) /\ EarlyOK(u)
  BY InvariantParts
<1>1. /\ jobs' = jobs /\ thread' = thread /\ applied' = applied /\ troubles' = troubles
      /\ comments' = comments
  BY DEF workVars, issueVars, routingVars
<1>2. PendingOK'
  BY <1>1, <1>g, UnchangedJobs
<1>3. \A u \in Threads : CauseOK(u)' /\ EarlyOK(u)'
  BY <1>1, <1>g DEF CauseOK, Apt, Fresh, Marking, Before, ForJob, EarlyOK, Early, Launching, Holds
<1>4. \A key \in DOMAIN jobs, kind \in JobKinds : JobDone(kind, key) => JobDone(kind, key)'
  BY <1>1 DEF JobDone, Past, Before, Launching, Ending, ForJob, Holds
<1>5. \A b : BlockDone(b) => BlockDone(b)'
  BY <1>1 DEF BlockDone, Marked, Marking, Before
<1>6. PostsOK'
  BY <1>1, <1>4, <1>5, <1>g, CalmCounts
<1>7. QED BY <1>2, <1>3, <1>6 DEF CommentsOK

-----------------------------------------------------------------------------
(* Steps that post *)

\* How a comment counts, without trouble and with it.
LEMMA CommentCounts ==
  ASSUME IssueOK, PostsOK, NEW text, NEW cause, Comment(text, cause)
  PROVE  /\ troubles' = troubles =>
              /\ Fewer(cause) => Few(cause)'
              /\ \A c : c # cause => (Few(c)' <=> Few(c)) /\ (Fewer(c)' <=> Fewer(c))
         /\ troubles' = troubles + 1 =>
              /\ Few(cause) => Few(cause)'
              /\ Fewer(cause) => Fewer(cause)'
              /\ \A c : c # cause /\ Few(c) => Few(c)' /\ Fewer(c)'
<1>1. /\ \A c : c # cause => Posts(c)' = Posts(c)
      /\ Cardinality(Posts(cause)') <= Cardinality(Posts(cause)) + 1
  BY OneMorePost
<1>3. troubles \in Nat /\ \A c : Cardinality(Posts(c)) \in Nat
  BY PostsAreFinite DEF PostsOK
<1>4. Cardinality(Posts(cause)') \in Nat
  <2>1. comments' \in Seq(Range(comments'))
    BY AppendGrows DEF IssueOK, Comment
  <2>2. DOMAIN comments' = 1..Len(comments') /\ Len(comments') \in Nat
    BY <2>1
  <2>3. IsFiniteSet(DOMAIN comments')
    BY <2>2, FS_Interval
  <2>4. IsFiniteSet(Posts(cause)')
    BY <2>3, FS_Subset DEF Posts
  <2>5. QED BY <2>4, FS_CardinalityType
<1>5. troubles' = troubles => (Fewer(cause) => Few(cause)')
  BY <1>1, <1>3, <1>4 DEF Few, Fewer
<1>6. troubles' = troubles + 1 => (Few(cause) => Few(cause)') /\ (Fewer(cause) => Fewer(cause)')
  BY <1>1, <1>3, <1>4 DEF Few, Fewer
<1>7. ASSUME NEW c, c # cause
      PROVE  /\ troubles' = troubles => (Few(c)' <=> Few(c)) /\ (Fewer(c)' <=> Fewer(c))
             /\ troubles' = troubles + 1 => (Few(c) => Few(c)' /\ Fewer(c)')
  <2>1. Posts(c)' = Posts(c) /\ Cardinality(Posts(c)) \in Nat
    BY <1>1, <1>3, <1>7
  <2>2. QED BY <1>3, <2>1 DEF Few, Fewer
<1>8. QED BY <1>5, <1>6, <1>7

\* What is about to be commented on: a block that is not applied, or the job in hand.
LEMMA CauseInHand ==
  ASSUME CommentInvariant, NEW t \in Threads, At(t, "actionComment")
  PROVE  \/ /\ Marking(thread[t]) /\ t \in Routers
            /\ \E b \in blocks : thread[t].cause = <<"block", b>> /\ (OneRouter => b \notin applied)
         \/ /\ ForJob(thread[t])
            /\ \E kind \in JobKinds : \E key \in DOMAIN jobs :
                 /\ thread[t].cause = <<kind, key>> /\ thread[t].job = key
                 /\ KindOK(kind, thread[t].then)
<1> DEFINE s == thread[t]
<1>g. ThreadsOK /\ CauseOK(t)
  BY InvariantParts
<1>1. s.stage = "actionComment" /\ s.stage \in ActionStages /\ Before(s)
  BY StagesOfActions DEF At, Before
<1>2. CASE s.then = "markApplied"
  <2>1. Marking(s) /\ t \in Routers /\ s.cause = <<"block", s.cause[2]>>
    BY <1>1, <1>2, <1>g DEF Marking, CauseOK, Apt
  <2>2. PICK b \in blocks : b = s.cause[2]
    BY <1>g, <2>1 DEF ThreadsOK, Linked
  <2>3. OneRouter => b \notin applied
    BY <1>1, <1>g, <2>1, <2>2 DEF CauseOK, Fresh
  <2>4. QED BY <2>1, <2>2, <2>3
<1>3. CASE s.then # "markApplied"
  <2>1. ForJob(s) /\ s.cause = <<s.cause[1], s.job>> /\ KindOK(s.cause[1], s.then)
    BY <1>1, <1>3, <1>g DEF ForJob, CauseOK, Apt
  <2>2. PICK key \in DOMAIN jobs : key = s.job
    BY <1>g, <2>1, EarlyHasJob
  <2>3. PICK kind \in JobKinds : kind = s.cause[1]
    BY <2>1 DEF KindOK
  <2>4. QED BY <2>1, <2>2, <2>3
<1>4. QED BY <1>2, <1>3

\* A goroutine that is yet to comment does not know its cause to be done.
LEMMA StillToCome ==
  ASSUME NEW s, NEW kind, NEW x, s.stage = "actionComment", s.cause = <<kind, x>>
  PROVE  ~Past(kind, s) /\ ~Marked(s)
BY DEF Past, Marked, Before

LEMMA JobCommentOnce ==
  ASSUME CommentInvariant, NEW t \in Threads, ActionComment(t), ForJob(thread[t]),
         NEW kind \in JobKinds, NEW key \in DOMAIN jobs, thread[t].cause = <<kind, key>>,
         thread[t].job = key, KindOK(kind, thread[t].then)
  PROVE  ~JobDone(kind, key) /\ JobDone(kind, key)'
<1> DEFINE s == thread[t]
<1>g. ThreadsOK /\ RowsOK /\ EarlyOK(t)
  BY InvariantParts
<1>s. /\ s.stage = "actionComment" /\ Holds(t) /\ Shape(s) /\ DOMAIN s = DOMAIN Rest
      /\ s.then \in {"started", "finished", "settle"}
  BY <1>g, Prepared, StagesOfActions DEF ActionComment, At, Shape, ForJob
<1>1. key # None /\ jobs[key].status = "running" /\ jobs[key].owner = t
  BY <1>g, <1>s, JobsHaveKeys DEF Holds
<1>2. kind \in {"on_start", "on_attempts_exceeded"} => Early(s)
  BY <1>s DEF Early, Launching, KindOK, ForJob
<1>3. kind \in {"on_start", "on_attempts_exceeded"} => jobs[key].phase = "claimed"
  BY <1>2, <1>s, <1>g DEF EarlyOK
<1>4. \A u \in Threads : thread[u].job = key /\ Holds(u) => u = t
  BY <1>1 DEF Holds
<1>5. ~Past(kind, s)
  BY <1>s, StillToCome
<1>6. ~JobDone(kind, key)
  BY <1>1, <1>3, <1>4, <1>5 DEF JobDone
<1>7. PICK next : next = [s EXCEPT !.stage = "actionReread"]
  OBVIOUS
<1>8. thread' = [thread EXCEPT ![t] = next] /\ jobs' = jobs
  BY <1>g, <1>7, Prepared DEF ActionComment
<1>9. thread'[t] = next
  BY <1>8, <1>g, AdvanceMovesOne
<1>10. /\ next.stage = "actionReread" /\ next.cause = <<kind, key>> /\ next.job = key
       /\ next.then = s.then /\ next.stage \in ActionStages
  BY <1>7, <1>s, RestFields, StagesOfActions
<1>11. ~Before(next)
  BY <1>10 DEF Before
<1>12. /\ kind = "on_start" => Launching(next)
       /\ kind \in {"on_attempts_exceeded", "final"} => Ending(next)
       /\ ForJob(next)
  BY <1>10, <1>s DEF Launching, Ending, ForJob, KindOK
<1>13. Past(kind, next)
  BY <1>10, <1>11, <1>12 DEF Past, JobKinds
<1>14. Holds(t)'
  BY <1>1, <1>8, <1>9, <1>10 DEF Holds
<1>15. thread'[t].job = key /\ Past(kind, thread'[t])
  BY <1>9, <1>10, <1>13
<1>16. Past(kind, thread[t])'
  BY <1>15 DEF Past, Before, Launching, Ending, ForJob
<1>17. JobDone(kind, key)'
  BY <1>14, <1>15, <1>16 DEF JobDone
<1>18. QED BY <1>6, <1>17

LEMMA BlockCommentOnce ==
  ASSUME CommentInvariant, OneRouter, NEW t \in Threads, ActionComment(t),
         Marking(thread[t]), t \in Routers, NEW b, thread[t].cause = <<"block", b>>, b \notin applied
  PROVE  ~BlockDone(b) /\ BlockDone(b)'
<1> DEFINE s == thread[t]
<1>g. ThreadsOK /\ \A u \in Threads : CauseOK(u)
  BY InvariantParts
<1>s. s.stage = "actionComment" /\ DOMAIN s = DOMAIN Rest /\ s.then = "markApplied"
  BY <1>g, Prepared DEF ActionComment, At, Shape, Marking
<1>1. \A u \in Threads : Marked(thread[u]) => u = t
  BY <1>g DEF Marked, CauseOK, Apt, OneRouter
<1>2. ~Marked(s)
  BY <1>s, StillToCome
<1>3. ~BlockDone(b)
  BY <1>1, <1>2 DEF BlockDone
<1>4. PICK next : next = [s EXCEPT !.stage = "actionReread"]
  OBVIOUS
<1>5. thread' = [thread EXCEPT ![t] = next]
  BY <1>g, <1>4, Prepared DEF ActionComment
<1>6. thread'[t] = next
  BY <1>5, <1>g, AdvanceMovesOne
<1>7. /\ next.stage = "actionReread" /\ next.cause = <<"block", b>>
      /\ next.then = "markApplied" /\ next.stage \in ActionStages
  BY <1>4, <1>s, RestFields, StagesOfActions
<1>8. Marked(next) /\ next.cause[2] = b
  BY <1>7 DEF Marked, Marking, Before
<1>9. Marked(thread'[t]) /\ thread'[t].cause[2] = b
  BY <1>6, <1>8
<1>10. Marked(thread[t])' /\ thread'[t].cause[2] = b
  BY <1>9 DEF Marked, Marking, Before
<1>11. BlockDone(b)'
  BY <1>10 DEF BlockDone
<1>12. QED BY <1>3, <1>11

LEMMA PostingComments ==
  ASSUME CommentInvariant, WorldGrows,
         NEW t \in Threads, ActionComment(t), UNCHANGED routingVars
  PROVE  CommentsOK'
<1> DEFINE s == thread[t]
<1>g. /\ WorkInvariant /\ ThreadsOK /\ IssueOK /\ RowsOK /\ PendingOK /\ PostsOK
      /\ \A u \in Threads : CauseOK(u) /\ EarlyOK(u)
  BY InvariantParts
<1>1. applied' = applied /\ jobs' = jobs /\ troubles' = troubles /\ At(t, "actionComment")
  BY DEF ActionComment, routingVars
<1>2. PendingOK' /\ \A key \in DOMAIN jobs : Same(key)
  BY <1>1, <1>g, UnchangedJobs
<1>3. PICK next : Advances(t, next)
  BY <1>1, <1>g, ActionSteps
<1>4. /\ \A u \in Threads : CauseOK(u)' /\ EarlyOK(u)'
      /\ \A key \in DOMAIN jobs, kind \in JobKinds : JobDone(kind, key) => JobDone(kind, key)'
      /\ \A b : BlockDone(b) => BlockDone(b)'
  BY <1>1, <1>2, <1>3, <1>g, GoroutineAdvances
<1>5. PICK text, cause : Comment(text, cause) /\ cause = s.cause
  BY DEF ActionComment
<1>6. /\ \A n \in DOMAIN comments' :
           \/ n \in DOMAIN comments /\ comments'[n] = comments[n]
           \/ comments'[n].cause = cause
      /\ \A c : c # cause => Posts(c)' = Posts(c)
  BY <1>5, <1>g, OneMorePost
<1>7. /\ Fewer(cause) => Few(cause)'
      /\ \A c : c # cause => (Few(c)' <=> Few(c)) /\ (Fewer(c)' <=> Fewer(c))
  BY <1>1, <1>5, <1>g, CommentCounts
<1>8. Known(cause)
  BY <1>1, <1>5, CauseInHand DEF Known
<1>9. ASSUME NEW key \in DOMAIN jobs, NEW kind \in JobKinds
      PROVE  Few(<<kind, key>>)' /\ (JobDone(kind, key)' \/ Fewer(<<kind, key>>)')
  <2>1. CASE <<kind, key>> = cause
    <3>1. ~JobDone(kind, key) /\ JobDone(kind, key)'
      <4>1. /\ ForJob(s) /\ s.job = key /\ KindOK(kind, s.then)
            /\ s.cause = <<kind, key>>
        BY <1>1, <1>5, <2>1, CauseInHand, CausesDiffer
      <4>2. QED BY <4>1, JobCommentOnce
    <3>2. QED BY <1>7, <1>g, <2>1, <3>1 DEF PostsOK
  <2>2. CASE <<kind, key>> # cause
    BY <1>4, <1>7, <1>g, <2>2 DEF PostsOK
  <2>3. QED BY <2>1, <2>2
<1>10. ASSUME OneRouter, NEW b \in blocks
       PROVE  Few(<<"block", b>>)' /\ (BlockDone(b)' \/ Fewer(<<"block", b>>)')
  <2>1. CASE <<"block", b>> = cause
    <3>1. ~BlockDone(b) /\ BlockDone(b)'
      <4>1. Marking(s) /\ t \in Routers /\ b \notin applied /\ s.cause = <<"block", b>>
        BY <1>1, <1>5, <1>10, <2>1, CauseInHand, CausesDiffer
      <4>2. QED BY <1>10, <4>1, BlockCommentOnce
    <3>2. QED BY <1>7, <1>10, <1>g, <2>1, <3>1 DEF PostsOK
  <2>2. CASE <<"block", b>> # cause
    BY <1>4, <1>7, <1>10, <1>g, <2>2 DEF PostsOK
  <2>3. QED BY <2>1, <2>2
<1>11. troubles' \in Nat /\ troubles <= troubles'
  BY <1>1, <1>g DEF PostsOK
<1>12. PostsOK'
  BY <1>6, <1>8, <1>9, <1>10, <1>11, <1>g, CountsSuffice
<1>13. QED BY <1>2, <1>4, <1>12 DEF CommentsOK

\* A comment that was posted although the call failed: the trouble allows for it.
LEMMA LostAnswerComments ==
  ASSUME CommentInvariant, WorldGrows, NEW t \in Threads, ActionFails(t), UNCHANGED routingVars,
         At(t, "actionComment"), Comment(thread[t].action.comment, thread[t].cause)
  PROVE  CommentsOK'
<1> DEFINE s == thread[t]
<1>g. /\ WorkInvariant /\ ThreadsOK /\ IssueOK /\ RowsOK /\ PendingOK /\ PostsOK
      /\ \A u \in Threads : CauseOK(u) /\ EarlyOK(u)
  BY InvariantParts
<1>1. /\ applied' = applied /\ jobs' = jobs /\ troubles' = troubles + 1
      /\ s.stage = "actionComment"
  BY DEF ActionFails, Trouble, routingVars, At
<1>2. PendingOK' /\ \A key \in DOMAIN jobs : Same(key)
  BY <1>1, <1>g, UnchangedJobs
<1>3. PICK next : /\ thread' = [thread EXCEPT ![t] = next]
                  /\ next.stage \in {"idle", "settle"}
  BY <1>g, FailureStops
<1>4. thread'[t] = next /\ \A u \in Threads \ {t} : thread'[u] = thread[u]
  BY <1>3, <1>g, AdvanceMovesOne
<1>5. \A u \in Threads : CauseOK(u)' /\ EarlyOK(u)'
  BY <1>1, <1>2, <1>3, <1>g, Stops
<1>6. PICK text, cause : Comment(text, cause) /\ cause = s.cause
  OBVIOUS
<1>7. /\ \A n \in DOMAIN comments' :
           \/ n \in DOMAIN comments /\ comments'[n] = comments[n]
           \/ comments'[n].cause = cause
      /\ \A c : c # cause => Posts(c)' = Posts(c)
  BY <1>6, <1>g, OneMorePost
<1>8. /\ Few(cause) => Few(cause)'
      /\ Fewer(cause) => Fewer(cause)'
      /\ \A c : c # cause /\ Few(c) => Few(c)' /\ Fewer(c)'
  BY <1>1, <1>6, <1>g, CommentCounts
<1>9. Known(cause)
  BY <1>6, CauseInHand DEF Known
<1>10. ASSUME NEW key \in DOMAIN jobs, NEW kind \in JobKinds
       PROVE  Few(<<kind, key>>)' /\ (JobDone(kind, key)' \/ Fewer(<<kind, key>>)')
  <2>1. CASE <<kind, key>> = cause
    <3>1. ~Past(kind, s)
      BY <1>1, <1>6, <2>1, StillToCome
    <3>2. JobDone(kind, key) => JobDone(kind, key)'
      BY <1>2, <1>4, <1>g, <3>1, DoneStays
    <3>3. QED BY <1>8, <1>g, <2>1, <3>2 DEF PostsOK
  <2>2. CASE <<kind, key>> # cause
    BY <1>8, <1>g, <2>2 DEF PostsOK
  <2>3. QED BY <2>1, <2>2
<1>11. ASSUME OneRouter, NEW b \in blocks
       PROVE  Few(<<"block", b>>)' /\ (BlockDone(b)' \/ Fewer(<<"block", b>>)')
  <2>1. ~Marked(s)
    BY <1>1 DEF Marked, Before
  <2>2. BlockDone(b) => BlockDone(b)'
    BY <1>1, <1>4, <1>g, <2>1, BlocksStay
  <2>3. QED BY <1>8, <1>11, <1>g, <2>2 DEF PostsOK
<1>12. troubles' \in Nat /\ troubles <= troubles'
  BY <1>1, <1>g DEF PostsOK
<1>13. PostsOK'
  BY <1>7, <1>9, <1>10, <1>11, <1>12, <1>g, CountsSuffice
<1>14. QED BY <1>2, <1>5, <1>13 DEF CommentsOK

-----------------------------------------------------------------------------
(* Every step *)

LEMMA InitComments == Init => CommentsOK
<1> SUFFICES ASSUME Init PROVE CommentsOK
  OBVIOUS
<1>1. DOMAIN jobs = {} /\ DOMAIN comments = {} /\ blocks = {} /\ troubles = 0
  BY DEF Init
<1>2. \A t \in Threads : thread[t] = Rest
  BY DEF Init
<1>3. Plain(Rest) /\ Rest.stage = "idle"
  BY RestFields, StagesOfActions DEF Plain
<1>4. ~Early(Rest) /\ ~Marking(Rest) /\ ~ForJob(Rest)
  BY <1>3, PlainKnowsNothing
<1>5. \A t \in Threads : CauseOK(t) /\ EarlyOK(t)
  BY <1>2, <1>3, <1>4 DEF CauseOK, Apt, Fresh, EarlyOK
<1>6. PendingOK /\ PostsOK
  BY <1>1 DEF PendingOK, PostsOK
<1>7. QED BY <1>5, <1>6 DEF CommentsOK

LEMMA StepKeepsComments ==
  ASSUME CommentInvariant, [Next]_workVars
  PROVE  CommentInvariant'
<1>g. WorkInvariant
  BY InvariantParts
<1>w. WorldGrows
  BY <1>g, StepGrows
<1>t. Routers \subseteq Threads /\ Workers \subseteq Threads
  BY RoutingAssumption, WorkflowAssumption
<1>1. ASSUME NEW t \in Threads, ActionStep(t), UNCHANGED routingVars
      PROVE  CommentsOK'
  <2>1. CASE ActionComment(t)
    BY <1>1, <1>w, <2>1, PostingComments
  <2>2. CASE ActionRefused(t)
    BY <1>1, <1>w, <2>2, RefusedComments
  <2>3. CASE ActionRead(t) \/ ActionRemove(t) \/ ActionAdd(t) \/ ActionReread(t) \/ ActionStore(t)
    BY <1>1, <1>w, <2>3, QuietComments
  <2>4. QED BY <1>1, <2>1, <2>2, <2>3 DEF ActionStep
<1>2. ASSUME NEW t \in Routers, RouterStep(t) \/ PollFails(t) PROVE CommentsOK'
  <2>t. t \in Threads
    BY <1>t
  <2>1. CASE \/ ListOpenIssues(t) \/ UpsertIssue(t) \/ ListIssueComments(t) \/ UpsertHandoff(t)
             \/ ListRoutableIssues(t) \/ CheckGate(t) \/ RecordGateBlock(t)
    BY <1>w, <2>t, <2>1, QuietComments
  <2>2. CASE EnqueueJob(t)
    BY <1>w, <2>t, <2>2, EnqueueComments
  <2>3. CASE MarkGateBlockActionApplied(t)
    BY <1>w, <2>t, <2>3, MarkComments
  <2>4. CASE ActionStep(t) /\ UNCHANGED routingVars
    BY <1>1, <2>t, <2>4
  <2>5. CASE PollFails(t)
    BY <1>w, <2>t, <2>5, FailureComments
  <2>6. QED BY <1>2, <2>1, <2>2, <2>3, <2>4, <2>5 DEF RouterStep
<1>3. ASSUME NEW t \in Workers, WorkerStep(t) \/ RefreshFails(t) \/ LaunchFails(t)
      PROVE  CommentsOK'
  <2>t. t \in Threads
    BY <1>t
  <2>1. CASE \/ RefreshClaimed(t) \/ RouteStillMatches(t) \/ AttemptScopeHash(t)
             \/ ActionDone(t) \/ IncrementTransitionsForJob(t) \/ FinalizeOwnedObservation(t)
    BY <1>w, <2>t, <2>1, QuietComments
  <2>2. CASE Claim(t)
    BY <1>w, <2>t, <2>2, ClaimComments
  <2>3. CASE IncrementAttemptsForJob(t)
    BY <1>w, <2>t, <2>3, ChargeComments
  <2>4. CASE Launch(t) \/ FinalizeJobOwned(t)
    BY <1>w, <2>t, <2>4, LaunchAndSettleComments
  <2>5. CASE Refused(t)
    BY <1>w, <2>t, <2>5, RefusedComments
  <2>6. CASE \E key \in DOMAIN jobs : Adopt(t, key)
    BY <1>w, <2>t, <2>6, RowComments
  <2>7. CASE ActionStep(t) /\ UNCHANGED <<routingVars, budgetVars>>
    BY <1>1, <2>t, <2>7
  <2>8. CASE RefreshFails(t) \/ LaunchFails(t)
    BY <1>w, <2>t, <2>8, FailureComments
  <2>9. QED BY <1>3, <2>1, <2>2, <2>3, <2>4, <2>5, <2>6, <2>7, <2>8 DEF WorkerStep, PrepareStep
<1>4. ASSUME NEW t \in Threads,
             (ActionFails(t) /\ UNCHANGED <<routingVars, budgetVars>>) \/ Crash(t)
      PROVE  CommentsOK'
  <2>1. CASE Crash(t)
    BY <1>w, <2>1, CrashComments
  <2>2. CASE ActionFails(t) /\ UNCHANGED <<routingVars, budgetVars>>
    <3>1. \/ UNCHANGED comments
          \/ At(t, "actionComment") /\ Comment(thread[t].action.comment, thread[t].cause)
      BY <2>2 DEF ActionFails, issueVars
    <3>2. QED BY <1>w, <2>2, <3>1, FailureComments, LostAnswerComments
  <2>3. QED BY <1>4, <2>1, <2>2
<1>5. ASSUME NEW key \in DOMAIN jobs, CommandEnds(key) \/ LoseJob(key) \/ Requeue(key)
      PROVE  CommentsOK'
  BY <1>w, <1>5, RowComments, LoseComments
<1>6. ASSUME Edit PROVE CommentsOK'
  BY <1>w, <1>6, EditComments
<1>7. ASSUME UNCHANGED workVars PROVE CommentsOK'
  BY <1>w, <1>7, StutterComments
<1>8. CommentsOK'
  BY <1>2, <1>3, <1>4, <1>5, <1>6, <1>7 DEF Next
<1>9. WorkInvariant'
  BY <1>g, StepKeepsWorkInvariant
<1>10. QED BY <1>8, <1>9 DEF CommentInvariant

LEMMA CommentInvariantHolds == Spec => []CommentInvariant
<1>1. Init => CommentInvariant
  BY InitHolds, InitComments DEF CommentInvariant
<1>2. CommentInvariant /\ [Next]_workVars => CommentInvariant'
  BY StepKeepsComments
<1>3. QED BY <1>1, <1>2, PTL DEF Spec

-----------------------------------------------------------------------------
(* Theorems *)

\* A job's comments: each of its actions has its comment posted at most once, and
\* once more for each failed call, lost job or crash.
JobCommentedOnce ==
  \A key \in DOMAIN jobs, kind \in JobKinds :
    Cardinality({n \in DOMAIN comments : comments[n].cause = <<kind, key>>}) <= 1 + troubles

\* However many daemons poll, prepare, adopt and finish, lifecycle.go comments once
\* on the start, the end and the limits of a job, unless there is trouble.
THEOREM JobsAreCommentedOnce == Spec => []JobCommentedOnce
<1>1. CommentInvariant => JobCommentedOnce
  <2> SUFFICES ASSUME CommentInvariant, NEW key \in DOMAIN jobs, NEW kind \in JobKinds
               PROVE  Cardinality(Posts(<<kind, key>>)) <= 1 + troubles
    BY DEF JobCommentedOnce, Posts
  <2>g. IssueOK /\ PostsOK
    BY InvariantParts
  <2>1. Cardinality(Posts(<<kind, key>>)) \in Nat /\ troubles \in Nat
    BY <2>g, PostsAreFinite DEF PostsOK
  <2>2. QED BY <2>g, <2>1 DEF PostsOK, Few
<1>2. QED BY <1>1, CommentInvariantHolds, PTL

\* With one poll/route goroutine this holds of gate blocks, too: what lifecycle.go
\* and router.go post for one cause is posted again only after trouble.
THEOREM CommentsAreOnce ==
  ASSUME OneRouter
  PROVE  Spec => []CommentedOnce
<1>1. CommentInvariant => CommentedOnce
  <2> SUFFICES ASSUME CommentInvariant, NEW n \in DOMAIN comments, NEW cause,
                      cause = comments[n].cause, cause # <<"user">>
               PROVE  Cardinality({m \in DOMAIN comments : comments[m].cause = cause})
                        <= 1 + troubles
    BY DEF CommentedOnce
  <2>g. IssueOK /\ PostsOK
    BY InvariantParts
  <2>1. Known(cause)
    BY <2>g DEF PostsOK
  <2>2. Few(cause)
    BY <2>g, <2>1 DEF Known, PostsOK
  <2>3. Cardinality(Posts(cause)) \in Nat /\ troubles \in Nat
    BY <2>g, PostsAreFinite DEF PostsOK
  <2>4. QED BY <2>2, <2>3 DEF Few, Posts
<1>2. QED BY <1>1, CommentInvariantHolds, PTL
=============================================================================
