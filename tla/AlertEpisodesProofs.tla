------------------------ MODULE AlertEpisodesProofs ------------------------
(***************************************************************************)
(* What TLAPS proves of AlertEpisodes for every registry, every number of  *)
(* threads, every verdict set, every duration and every set of faults.     *)
(***************************************************************************)
EXTENDS AlertEpisodes, SequenceTheorems, OrderFacts, TLAPS

Episode == [bad_since : MaybeTime, began : MaybeTime,
            alerted_at : MaybeTime, alerted_state : STATES \cup {None}]

-----------------------------------------------------------------------------
(* The operators a pass is made of                                         *)

\* db.to_iso rounds a reading down to a time.
LEMMA ToIsoType == \A t \in Nat : to_iso(t) \in Nat
<1> SUFFICES ASSUME NEW t \in Nat PROVE t - (t % ISO_S) \in Nat
  BY DEF to_iso
<1>1. t % ISO_S \in 0..(ISO_S - 1) /\ t % ISO_S <= t
  BY DurationAssumption
<1> QED BY <1>1

\* db.last_non_ok_state answers a state or nothing.
LEMMA LastNonOkType ==
    ASSUME NEW c \in Seq(Change)
    PROVE  last_non_ok_state(c) \in STATES \cup {None}
<1> DEFINE bad == {i \in DOMAIN c : c[i].to # "OK"}
           newest == {i \in bad : \A k \in bad :
                         \/ c[k].at < c[i].at
                         \/ c[k].at = c[i].at /\ k <= i}
           n == CHOOSE i \in newest : TRUE
<1>1. last_non_ok_state(c) = IF newest = {} THEN None ELSE c[n].to
  BY DEF last_non_ok_state
<1>2. CASE newest = {}
  BY <1>1, <1>2
<1>3. CASE newest # {}
  <2>1. n \in DOMAIN c
    BY <1>3
  <2>2. c[n] \in Change
    BY <2>1
  <2> QED BY <1>1, <1>3, <2>2 DEF Change
<1> QED BY <1>2, <1>3

\* _resolve_alerts heals a row into an episode of the right shape ...
LEMMA HealedEpisode ==
    ASSUME NEW r \in Row, ShapedRow(r), NEW now \in Nat
    PROVE  healed_episode(r, now) \in Episode /\ ShapedRow(healed_episode(r, now))
  BY DEF healed_episode, Row, Episode, ShapedRow, NoEpisode, MaybeTime, Time

\* ... which an alertable verdict opens if it is not open.
LEMMA OpenEpisode ==
    ASSUME NEW e \in Episode, ShapedRow(e), NEW now \in Nat
    PROVE  /\ open_episode(e, now) \in Episode
           /\ ShapedRow(open_episode(e, now))
           /\ open_episode(e, now).bad_since # None
<1>1. to_iso(now) \in Nat /\ to_iso(now) # None
  BY ToIsoType, NoneAssumption
<1> QED
  BY <1>1 DEF open_episode, Episode, ShapedRow, NoEpisode, MaybeTime, Time

\* Core._page moves only the page of the episode it is given.
LEMMA PageShape ==
    ASSUME NEW e \in Episode, ShapedRow(e), e.bad_since # None,
           NEW about \in STATES, NEW now \in Nat, NEW j, NEW v, NEW changes
    PROVE  /\ page(j, about, e, v, changes, now) \in Episode
           /\ ShapedRow(page(j, about, e, v, changes, now))
<1>1. to_iso(now) \in Nat /\ to_iso(now) # None
  BY ToIsoType, NoneAssumption
<1>2. CASE MayPage(j, about, e, v, changes, now)
  BY <1>1, <1>2 DEF page, Episode, ShapedRow, MaybeTime, Time
<1>3. CASE ~MayPage(j, about, e, v, changes, now) /\ RecordsPagedState(j, e)
  BY <1>3 DEF page, Episode, ShapedRow, RecordsPagedState
<1>4. CASE ~MayPage(j, about, e, v, changes, now) /\ ~RecordsPagedState(j, e)
  BY <1>4 DEF page
<1> QED BY <1>2, <1>3, <1>4

\* Whatever the verdict, the pass leaves the job a well-shaped episode.
LEMMA ResolveShape ==
    ASSUME NEW j \in Jobs, row[j] \in Row, ShapedRow(row[j]), NEW v,
           v[j] \in Verdict, NEW changes, changes[j] \in Seq(Change),
           NEW now \in Nat
    PROVE  LET out == resolve_alerts(j, v, changes, now)
           IN  out.ep \in Episode /\ ShapedRow(out.ep) /\ out.about \in STATES
<1> DEFINE e == healed_episode(row[j], now)
           out == resolve_alerts(j, v, changes, now)
<1>1. e \in Episode /\ ShapedRow(e)
  BY HealedEpisode
<1>2. NoEpisode \in Episode /\ ShapedRow(NoEpisode)
  BY DEF NoEpisode, Episode, ShapedRow, MaybeTime
<1>3. v[j].state \in STATES
  BY DEF Verdict
<1> HIDE DEF e
<1>4. CASE v[j].state \in ALERTABLE_STATES
  <2> DEFINE e1 == open_episode(e, now)
  <2>1. e1 \in Episode /\ ShapedRow(e1) /\ e1.bad_since # None
    BY <1>1, OpenEpisode
  <2>2. out = resolve_bad(j, e, v, changes, now)
    BY <1>4 DEF resolve_alerts, e, ALERTABLE_STATES
  <2>3. out.ep = page(j, v[j].state, e1, v, changes, now) /\ out.about = v[j].state
    BY <2>2 DEF resolve_bad
  <2> HIDE DEF e1, out
  <2> QED BY <2>1, <2>3, <1>3, PageShape DEF out
<1>5. CASE v[j].state = "OK" /\ e.bad_since # None
  <2> DEFINE about == about_of(j, changes[j])
             e2 == page(j, about, e, v, changes, now)
  <2>1. about \in STATES
    BY LastNonOkType DEF about_of, Row
  <2>2. e2 \in Episode /\ ShapedRow(e2)
    BY <1>1, <1>5, <2>1, PageShape
  <2>3. out = resolve_ok(j, e, v, changes, now)
    BY <1>5 DEF resolve_alerts, e, ALERTABLE_STATES
  <2>4. out.ep \in {e2, NoEpisode} /\ out.about = about
    BY <2>3 DEF resolve_ok
  <2> HIDE DEF e2, out, about
  <2> QED BY <2>1, <2>2, <2>4, <1>2 DEF out
<1>6. CASE v[j].state = "OK" /\ e.bad_since = None
  <2>1. out = Unmoved(e)
    BY <1>6 DEF resolve_alerts, e, ALERTABLE_STATES
  <2> QED BY <2>1, <1>1 DEF Unmoved, STATES
<1>7. CASE v[j].state \notin ALERTABLE_STATES \cup {"OK"}
  <2>1. out = Unmoved(NoEpisode)
    BY <1>7 DEF resolve_alerts
  <2> QED BY <2>1, <1>2 DEF Unmoved, STATES
<1> QED BY <1>3, <1>4, <1>5, <1>6, <1>7

\* The pushes decided for a job are intents, and its page names an episode.
LEMMA IntentsShape ==
    ASSUME NEW j \in Jobs, row[j] \in Row, ShapedRow(row[j]), NEW v, NEW out,
           out.about \in STATES, NEW now \in Nat
    PROVE  /\ intents_of(j, v, out, now) \in Seq(AlertIntent)
           /\ \A n \in DOMAIN intents_of(j, v, out, now) :
                 ShapedIntent(intents_of(j, v, out, now)[n])
<1> DEFINE e == episode_at(j, now)
           pg == [job |-> j, kind |-> IF e.alerted_at = None THEN "alert"
                                      ELSE "escalation",
                  state |-> out.about, bad_since |-> e.bad_since,
                  alerted_at |-> to_iso(now),
                  prev_paged_at |-> row[j].last_paged_at,
                  prev_alerted_at |-> e.alerted_at,
                  prev_alerted_state |-> e.alerted_state]
           named == IF out.paged THEN out.about
                    ELSE IF e.alerted_state # None THEN e.alerted_state
                    ELSE out.about
           rc == [job |-> j, kind |-> "recovery", state |-> named,
                  bad_since |-> None, alerted_at |-> None,
                  prev_paged_at |-> None, prev_alerted_at |-> None,
                  prev_alerted_state |-> None]
           first == IF out.paged THEN <<pg>> ELSE <<>>
           second == IF out.recovers THEN <<rc>> ELSE <<>>
<1>1. e \in Episode /\ ShapedRow(e) /\ e.bad_since # None
  BY HealedEpisode, OpenEpisode DEF episode_at
<1>2. to_iso(now) \in Nat /\ to_iso(now) # None
  BY ToIsoType, NoneAssumption
<1> HIDE DEF e
<1>3. pg \in AlertIntent /\ ShapedIntent(pg)
  BY <1>1, <1>2 DEF AlertIntent, ShapedIntent, ShapedRow, Episode, Row,
     PageKinds, MaybeTime, Time
<1>4. rc \in AlertIntent /\ ShapedIntent(rc)
  <2>1. named \in STATES
    BY <1>1 DEF Episode
  <2> HIDE DEF named
  <2> QED BY <2>1 DEF AlertIntent, ShapedIntent, PageKinds, MaybeTime
<1>5. intents_of(j, v, out, now) = first \o second
  BY DEF intents_of, e
<1> DEFINE S == {i \in AlertIntent : ShapedIntent(i)}
<1>6. pg \in S /\ rc \in S
  BY <1>3, <1>4
<1> HIDE DEF pg, rc, S
<1>7. first \in Seq(S) /\ second \in Seq(S)
  BY <1>6
<1>8. first \o second \in Seq(S)
  BY <1>7, ConcatProperties
<1> HIDE DEF first, second
<1>9. \A s \in Seq(S) : s \in Seq(AlertIntent)
                       /\ \A n \in DOMAIN s : ShapedIntent(s[n])
  <2>1. S \subseteq AlertIntent /\ \A i \in S : ShapedIntent(i)
    BY DEF S
  <2> QED BY <2>1, SeqMonotonic, ElementOfSeq, LenProperties
<1> QED BY <1>5, <1>8, <1>9

-----------------------------------------------------------------------------
(* The inductive invariant                                                 *)

IInv == TypeOK /\ EpisodeShape

\* Fresh rows and rows of an older version are well-shaped.
LEMMA InitIInv == Init => IInv
<1> SUFFICES ASSUME Init PROVE IInv
  OBVIOUS
<1>1. \A j \in Jobs : row[j] \in Row /\ ShapedRow(row[j])
  <2> SUFFICES ASSUME NEW j \in Jobs, NEW r \in InitialRows(j)
               PROVE  r \in Row /\ ShapedRow(r)
    BY DEF Init
  <2>1. CASE r = FreshRow
    BY <2>1 DEF FreshRow, Row, ShapedRow, MaybeTime, Time, STATES
  <2>2. ASSUME NEW st \in STATES, NEW p \in {None, 0}, r = UpgradedRow(st, p)
        PROVE  r \in Row /\ ShapedRow(r)
    <3>1. r = [state |-> st, since |-> 0, bad_since |-> 0, alerted_at |-> 0,
               alerted_state |-> None, last_paged_at |-> p]
      BY <2>2 DEF UpgradedRow, FreshRow
    <3> QED BY <3>1, NoneAssumption DEF Row, ShapedRow, MaybeTime, Time
  <2>3. \A w \in Verdicts[j] : w.state \in STATES
    BY ThreadAssumption DEF Verdict
  <2> QED BY <2>1, <2>2, <2>3 DEF InitialRows
<1>2. row \in [Jobs -> Row]
  BY <1>1 DEF Init
<1>3. log \in [Jobs -> Seq(Change)]
  <2>1. ASSUME NEW j \in Jobs PROVE [at |-> 0, to |-> row[j].state] \in Change
    BY <1>1 DEF Change, Row, Time
  <2> QED BY <2>1 DEF Init
<1>4. sent \in [Jobs -> Seq(Push)]
  <2>1. [kind |-> "alert", state |-> "UNKNOWN", bad_since |-> 0, at |-> 0,
         known |-> FALSE] \in Push
    BY DEF Push, PageKinds, STATES, MaybeTime, Time
  <2> QED BY <2>1 DEF Init
<1>5. /\ clock \in Nat
      /\ read \in [Threads -> Nat]
      /\ todo \in [Threads -> Seq(Passes)]
      /\ unsent \in [Threads -> SUBSET AlertIntent]
      /\ pc \in [Threads -> {"idle", "begin", "post", "give_back"}]
      /\ \A t \in Threads : pc[t] = "begin" => todo[t] # <<>>
  BY DEF Init
<1>6. attempted \in [Jobs -> Attempt]
  BY DEF Init, NoAttempt, Attempt, MaybeTime
<1>7. queue \in [Threads -> [Jobs -> Seq(AlertIntent)]]
  BY DEF Init, NoIntents
<1>8. EpisodeShape
  BY <1>1 DEF EpisodeShape, Init, NoIntents
<1> QED BY <1>2, <1>3, <1>4, <1>5, <1>6, <1>7, <1>8 DEF IInv, TypeOK

\* A thread starts a step or a ping: only its own control moves.
LEMMA EnterIInv == ASSUME IInv, NEW t \in Threads, Enter(t) PROVE IInv'
<1> USE DEF IInv
<1>1. \A plan \in StepPlans \cup {<<"ping">>} :
        plan \in Seq(Passes) /\ plan # <<>>
  <2>1. "ping" \in Passes
    BY DEF Passes
  <2>2. <<"ping">> \in Seq(Passes) /\ <<"ping">> # <<>>
    BY <2>1
  <2> QED BY <2>2, ThreadAssumption
<1>2. todo' \in [Threads -> Seq(Passes)]
  BY <1>1 DEF Enter, TypeOK
<1>3. read' \in [Threads -> Nat] /\ pc' \in [Threads -> {"idle", "begin", "post", "give_back"}]
  BY DEF Enter, TypeOK
<1>4. \A u \in Threads : pc'[u] = "begin" => todo'[u] # <<>>
  BY <1>1 DEF Enter, TypeOK
<1> QED BY <1>2, <1>3, <1>4 DEF Enter, TypeOK, EpisodeShape

\* What is noted of an attempt.
LEMMA AttemptType ==
    ASSUME IInv, NEW j \in Jobs, NEW out, NEW now \in Nat
    PROVE  attempted_after(j, out, now) \in Attempt
<1>1. row[j] \in Row /\ ShapedRow(row[j])
  BY DEF IInv, TypeOK, EpisodeShape
<1>2. episode_at(j, now).bad_since \in MaybeTime
  BY <1>1, HealedEpisode, OpenEpisode DEF episode_at, Episode
<1>3. alert_severity(out.about) \in 0..2
  BY DEF alert_severity
<1>4. /\ attempted[j] \in Attempt
      /\ attempted[j].when \in [0..2 -> MaybeTime] /\ NoAttempt.when \in [0..2 -> MaybeTime]
  BY DEF IInv, TypeOK, Attempt, NoAttempt, MaybeTime
<1> QED BY <1>2, <1>3, <1>4 DEF attempted_after, note_attempt, Attempt, MaybeTime, Time

\* A pass that failed: the tables are as they were, the thread goes on.
LEMMA FailedPass ==
    ASSUME IInv, NEW t \in Threads, RecomputeFails(t)
    PROVE  /\ pc[t] = "begin" /\ todo[t] # <<>> /\ todo[t] \in Seq(Passes)
           /\ todo'[t] = Tail(todo[t]) /\ todo'[t] \in Seq(Passes)
           /\ pc'[t] = after_pass(t, Tail(todo[t]))
           /\ \A u \in Threads : u # t => pc'[u] = pc[u] /\ todo'[u] = todo[u]
           /\ UNCHANGED <<clock, row, log, read, queue, unsent, sent>>
<1>1. todo[t] # <<>> /\ todo[t] \in Seq(Passes)
  BY DEF RecomputeFails, IInv, TypeOK
<1>2. Tail(todo[t]) \in Seq(Passes)
  BY <1>1, HeadTailProperties
<1> QED BY <1>1, <1>2 DEF RecomputeFails, IInv, TypeOK

LEMMA FailsIInv == ASSUME IInv, NEW t \in Threads, RecomputeFails(t) PROVE IInv'
<1>1. pass_clock(t) \in Nat
  BY DEF pass_clock, IInv, TypeOK
<1>2. PICK v \in [Jobs -> UNION {Verdicts[j] : j \in Jobs}], done \in SUBSET Jobs :
        LET changes == [j \in Jobs |-> set_state(j, v, pass_clock(t))]
            out == [j \in Jobs |-> resolve_alerts(j, v, changes, pass_clock(t))]
        IN  attempted' = [j \in Jobs |-> IF j \in done
                            THEN attempted_after(j, out[j], pass_clock(t)) ELSE attempted[j]]
  BY DEF RecomputeFails
<1> DEFINE changes == [j \in Jobs |-> set_state(j, v, pass_clock(t))]
           out == [j \in Jobs |-> resolve_alerts(j, v, changes, pass_clock(t))]
<1>3. attempted' \in [Jobs -> Attempt]
  <2>1. \A j \in Jobs : attempted_after(j, out[j], pass_clock(t)) \in Attempt
    <3> HIDE DEF out
    <3> QED BY <1>1, AttemptType
  <2>2. \A j \in Jobs : attempted[j] \in Attempt
    BY DEF IInv, TypeOK
  <2> QED BY <1>2, <2>1, <2>2
<1>4. todo' \in [Threads -> Seq(Passes)]
  BY FailedPass DEF RecomputeFails, IInv, TypeOK
<1>5. /\ pc' \in [Threads -> {"idle", "begin", "post", "give_back"}]
      /\ \A u \in Threads : pc'[u] = "begin" => todo'[u] # <<>>
  BY DEF RecomputeFails, IInv, TypeOK, after_pass
<1> QED BY <1>3, <1>4, <1>5, FailedPass DEF IInv, TypeOK, EpisodeShape

\* A committed pass.
LEMMA RecomputeIInv == ASSUME IInv, NEW t \in Threads, RecomputePass(t) PROVE IInv'
<1> USE DEF IInv
<1> DEFINE now == pass_clock(t)
<1>1. now \in Nat
  BY DEF pass_clock, TypeOK
<1>2. PICK v \in [Jobs -> UNION {Verdicts[j] : j \in Jobs}] :
        LET changes == [j \in Jobs |-> set_state(j, v, now)]
            out == [j \in Jobs |-> resolve_alerts(j, v, changes, now)]
            rest == Tail(todo[t])
        IN  /\ \A j \in Jobs : v[j] \in Verdicts[j] /\ Len(changes[j]) <= MaxLog
            /\ log' = changes
            /\ row' = [j \in Jobs |-> row_after(j, v, out[j], now)]
            /\ attempted' = [j \in Jobs |-> attempted_after(j, out[j], now)]
            /\ queue' = [queue EXCEPT ![t] =
                            [j \in Jobs |-> intents_of(j, v, out[j], now)]]
            /\ pc' = [pc EXCEPT ![t] = IF queue'[t] = NoIntents
                                      THEN after_pass(t, rest) ELSE "post"]
            /\ todo' = [todo EXCEPT ![t] = rest]
  BY DEF RecomputePass
<1> DEFINE changes == [j \in Jobs |-> set_state(j, v, now)]
           out == [j \in Jobs |-> resolve_alerts(j, v, changes, now)]
<1> HIDE DEF now
<1>3. \A j \in Jobs : v[j] \in Verdict /\ v[j].state \in STATES
  BY <1>2, ThreadAssumption DEF Verdict
<1>4. \A j \in Jobs : row[j] \in Row /\ ShapedRow(row[j])
  BY DEF TypeOK, EpisodeShape
<1>5. to_iso(now) \in Nat /\ to_iso(now) # None
  BY <1>1, ToIsoType, NoneAssumption
<1>6. changes \in [Jobs -> Seq(Change)]
  <2> SUFFICES ASSUME NEW j \in Jobs PROVE set_state(j, v, now) \in Seq(Change)
    OBVIOUS
  <2>1. [at |-> to_iso(now), to |-> v[j].state] \in Change
    BY <1>3, <1>5 DEF Change, Time
  <2>2. log[j] \in Seq(Change)
    BY DEF TypeOK
  <2> QED BY <2>1, <2>2, AppendProperties DEF set_state
<1> HIDE DEF changes
<1>7. ASSUME NEW j \in Jobs
      PROVE  /\ out[j].ep \in Episode /\ ShapedRow(out[j].ep)
             /\ out[j].about \in STATES
  <2>1. out[j] = resolve_alerts(j, v, changes, now)
    OBVIOUS
  <2>2. changes[j] \in Seq(Change)
    BY <1>6
  <2> HIDE DEF out
  <2> QED BY <2>1, <2>2, <1>1, <1>3, <1>4, ResolveShape
<1>8. /\ log' = changes
      /\ row' = [j \in Jobs |-> row_after(j, v, out[j], now)]
      /\ attempted' = [j \in Jobs |-> attempted_after(j, out[j], now)]
      /\ queue' = [queue EXCEPT ![t] =
                      [j \in Jobs |-> intents_of(j, v, out[j], now)]]
      /\ pc' = [pc EXCEPT ![t] = IF queue'[t] = NoIntents
                                THEN after_pass(t, Tail(todo[t])) ELSE "post"]
      /\ todo' = [todo EXCEPT ![t] = Tail(todo[t])]
  BY <1>2 DEF changes
<1> HIDE DEF out
<1>9. ASSUME NEW j \in Jobs
      PROVE  LET r == row_after(j, v, out[j], now) IN r \in Row /\ ShapedRow(r)
  <2>1. since_after(j, v, now) \in Time
    BY <1>4, <1>5 DEF since_after, Row, Time
  <2>2. healed_paged_at(row[j], now) \in MaybeTime
    BY <1>4 DEF healed_paged_at, Row, MaybeTime
  <2> QED
    BY <2>1, <2>2, <1>3, <1>5, <1>7 DEF row_after, Row, Episode, ShapedRow,
       MaybeTime, Time
<1>10. row' \in [Jobs -> Row] /\ \A j \in Jobs : ShapedRow(row'[j])
  BY <1>8, <1>9
<1>11. ASSUME NEW j \in Jobs
       PROVE  /\ intents_of(j, v, out[j], now) \in Seq(AlertIntent)
              /\ \A n \in DOMAIN intents_of(j, v, out[j], now) :
                    ShapedIntent(intents_of(j, v, out[j], now)[n])
  BY <1>1, <1>4, <1>7, IntentsShape
<1>12. /\ queue' \in [Threads -> [Jobs -> Seq(AlertIntent)]]
       /\ \A u \in Threads, j \in Jobs :
             \A n \in DOMAIN queue'[u][j] : ShapedIntent(queue'[u][j][n])
  BY <1>8, <1>11 DEF TypeOK, EpisodeShape
<1>13. attempted' \in [Jobs -> Attempt]
  BY <1>1, <1>8, AttemptType
<1>14. todo' \in [Threads -> Seq(Passes)]
  <2>1. Tail(todo[t]) \in Seq(Passes)
    BY HeadTailProperties DEF TypeOK, RecomputePass
  <2> QED BY <1>8, <2>1 DEF TypeOK
<1>15. pc' \in [Threads -> {"idle", "begin", "post", "give_back"}]
  BY <1>8 DEF TypeOK, after_pass
<1>15a. \A u \in Threads : pc'[u] = "begin" => todo'[u] # <<>>
  BY <1>8 DEF TypeOK, after_pass
<1>16. UNCHANGED <<clock, read, unsent, sent>>
  BY DEF RecomputePass
<1> QED
  BY <1>6, <1>8, <1>10, <1>12, <1>13, <1>14, <1>15, <1>15a,
     <1>16 DEF TypeOK, EpisodeShape

\* One POST.
LEMMA DispatchIInv == ASSUME IInv, NEW t \in Threads, Dispatch(t) PROVE IInv'
<1> USE DEF IInv
<1>1. PICK j \in Jobs, o \in Outcomes :
        LET i == Head(queue[t][j])
        IN  /\ is_next(t, j)
            /\ queue' = [queue EXCEPT ![t][j] = Tail(queue[t][j])]
            /\ unsent' = [unsent EXCEPT ![t] =
                  IF i.kind \in PageKinds /\ ~o.ok /\ NotifierEnabled
                  THEN @ \cup {i} ELSE @]
            /\ sent' = IF ~o.landed THEN sent
                       ELSE [sent EXCEPT ![j] = Append(@,
                          [kind |-> i.kind, state |-> i.state,
                           bad_since |-> i.bad_since, at |-> i.alerted_at,
                           known |-> o.ok])]
            /\ pc' = [pc EXCEPT ![t] =
                  IF queue'[t] # NoIntents THEN "post"
                  ELSE IF unsent'[t] # {} THEN "give_back"
                  ELSE after_pass(t, todo[t])]
  BY DEF Dispatch
<1> DEFINE q == queue[t][j]
           i == Head(q)
<1>2. q \in Seq(AlertIntent) /\ q # <<>>
  BY <1>1 DEF TypeOK, is_next
<1>3. /\ i \in AlertIntent /\ Tail(q) \in Seq(AlertIntent)
      /\ \A n \in DOMAIN Tail(q) : n + 1 \in DOMAIN q /\ Tail(q)[n] = q[n + 1]
      /\ i = q[1] /\ 1 \in DOMAIN q
  BY <1>2, HeadTailProperties, LenProperties, EmptySeq
<1>4. \A n \in DOMAIN q : ShapedIntent(q[n])
  BY DEF EpisodeShape
<1>5. ShapedIntent(i) /\ \A n \in DOMAIN Tail(q) : ShapedIntent(Tail(q)[n])
  BY <1>3, <1>4
<1>6. o.ok \in BOOLEAN
  BY DEF Outcomes
<1> HIDE DEF q
<1>7. /\ queue' = [queue EXCEPT ![t] = [queue[t] EXCEPT ![j] = Tail(q)]]
      /\ unsent' = [unsent EXCEPT ![t] =
            IF i.kind \in PageKinds /\ ~o.ok /\ NotifierEnabled
            THEN unsent[t] \cup {i} ELSE unsent[t]]
      /\ sent' = IF ~o.landed THEN sent
                 ELSE [sent EXCEPT ![j] = Append(sent[j],
                          [kind |-> i.kind, state |-> i.state,
                           bad_since |-> i.bad_since, at |-> i.alerted_at,
                           known |-> o.ok])]
      /\ pc' = [pc EXCEPT ![t] =
            IF queue'[t] # NoIntents THEN "post"
            ELSE IF unsent'[t] # {} THEN "give_back"
            ELSE after_pass(t, todo[t])]
  BY <1>1 DEF q
<1> HIDE DEF i
<1>8. /\ queue' \in [Threads -> [Jobs -> Seq(AlertIntent)]]
      /\ \A u \in Threads, k \in Jobs :
            \A n \in DOMAIN queue'[u][k] : ShapedIntent(queue'[u][k][n])
  BY <1>3, <1>5, <1>7 DEF TypeOK, EpisodeShape
<1>9. /\ unsent' \in [Threads -> SUBSET AlertIntent]
      /\ \A u \in Threads : \A k \in unsent'[u] :
            k.kind \in PageKinds /\ ShapedIntent(k)
  BY <1>3, <1>5, <1>7 DEF TypeOK, EpisodeShape
<1>10. sent' \in [Jobs -> Seq(Push)]
  <2>1. [kind |-> i.kind, state |-> i.state, bad_since |-> i.bad_since,
         at |-> i.alerted_at, known |-> o.ok] \in Push
    BY <1>3, <1>6 DEF AlertIntent, Push
  <2>2. sent[j] \in Seq(Push)
    BY DEF TypeOK
  <2> QED BY <2>1, <2>2, <1>7, AppendProperties DEF TypeOK
<1>11. /\ pc' \in [Threads -> {"idle", "begin", "post", "give_back"}]
       /\ \A u \in Threads : pc'[u] = "begin" => todo[u] # <<>>
  BY <1>7 DEF TypeOK, after_pass
<1> QED
  BY <1>8, <1>9, <1>10, <1>11 DEF Dispatch, TypeOK, EpisodeShape

\* The hand-back: the row it writes to is still in the intent's episode.
LEMMA ReturnIInv == ASSUME IInv, NEW t \in Threads, ReturnUnsentPages(t) PROVE IInv'
<1> USE DEF IInv
<1>1. ASSUME NEW j \in Jobs
      PROVE  row'[j] \in Row /\ ShapedRow(row'[j])
  <2>1. row[j] \in Row /\ ShapedRow(row[j])
    BY DEF TypeOK, EpisodeShape
  <2>2. CASE \E i \in unsent[t] : i.job = j /\ same_episode(i)
    <3> DEFINE i == CHOOSE k \in unsent[t] : k.job = j /\ same_episode(k)
    <3>1. i \in unsent[t] /\ i.job = j /\ same_episode(i)
      BY <2>2
    <3>2. row'[j] = row_given_back(row[j], i)
      BY <2>2 DEF ReturnUnsentPages
    <3> HIDE DEF i
    <3>3. i \in AlertIntent /\ i.kind \in PageKinds /\ ShapedIntent(i)
      BY <3>1 DEF TypeOK, EpisodeShape
    <3>4. row[j].bad_since # None
      BY <3>1, <3>3 DEF same_episode, ShapedIntent
    <3> QED
      BY <2>1, <3>2, <3>3, <3>4 DEF row_given_back, Row, AlertIntent,
         ShapedRow, ShapedIntent
  <2>3. CASE ~\E i \in unsent[t] : i.job = j /\ same_episode(i)
    BY <2>1, <2>3 DEF ReturnUnsentPages
  <2> QED BY <2>2, <2>3
<1>2. row' \in [Jobs -> Row]
  <2>1. DOMAIN row' = Jobs /\ row' = [j \in Jobs |-> row'[j]]
    BY DEF ReturnUnsentPages
  <2> QED BY <1>1, <2>1
<1>3. /\ pc' \in [Threads -> {"idle", "begin", "post", "give_back"}]
      /\ \A u \in Threads : pc'[u] = "begin" => todo[u] # <<>>
      /\ unsent' \in [Threads -> SUBSET AlertIntent]
      /\ \A u \in Threads : \A k \in unsent'[u] :
            k.kind \in PageKinds /\ ShapedIntent(k)
  BY DEF ReturnUnsentPages, TypeOK, EpisodeShape, after_pass
<1> QED BY <1>1, <1>2, <1>3 DEF ReturnUnsentPages, TypeOK, EpisodeShape

\* The hand-back that could not be written.
LEMMA ReturnFailsIInv == ASSUME IInv, NEW t \in Threads, ReturnUnsentFails(t) PROVE IInv'
<1>1. /\ pc' \in [Threads -> {"idle", "begin", "post", "give_back"}]
      /\ \A u \in Threads : pc'[u] = "begin" => todo[u] # <<>>
      /\ unsent' \in [Threads -> SUBSET AlertIntent]
      /\ \A u \in Threads : \A k \in unsent'[u] :
            k.kind \in PageKinds /\ ShapedIntent(k)
  BY DEF ReturnUnsentFails, IInv, TypeOK, EpisodeShape, after_pass
<1> QED BY <1>1 DEF ReturnUnsentFails, IInv, TypeOK, EpisodeShape

\* Time and the death of the process.
LEMMA SurroundingsIInv ==
    ASSUME IInv, Advance \/ ClockBack \/ Restart PROVE IInv'
<1> USE DEF IInv
<1>1. CASE Advance
  BY <1>1 DEF Advance, thread, TypeOK, EpisodeShape
<1>2. CASE ClockBack
  BY <1>2 DEF ClockBack, thread, TypeOK, EpisodeShape
<1>3. CASE Restart
  <2>1. attempted' \in [Jobs -> Attempt]
    BY <1>3 DEF Restart, NoAttempt, Attempt, MaybeTime
  <2>2. /\ queue' \in [Threads -> [Jobs -> Seq(AlertIntent)]]
        /\ \A u \in Threads, k \in Jobs :
              \A n \in DOMAIN queue'[u][k] : ShapedIntent(queue'[u][k][n])
    BY <1>3 DEF Restart, NoIntents
  <2>3. todo' \in [Threads -> Seq(Passes)]
    BY <1>3 DEF Restart
  <2> QED BY <1>3, <2>1, <2>2, <2>3 DEF Restart, TypeOK, EpisodeShape
<1> QED BY <1>1, <1>2, <1>3

\* Every step keeps the invariant.
LEMMA NextIInv == IInv /\ [Next]_vars => IInv'
<1> SUFFICES ASSUME IInv, [Next]_vars PROVE IInv'
  OBVIOUS
<1>1. CASE UNCHANGED vars
  BY <1>1 DEF vars, thread, IInv, TypeOK, EpisodeShape
<1>2. CASE Next
  BY <1>2, EnterIInv, RecomputeIInv, FailsIInv, DispatchIInv, ReturnIInv,
     ReturnFailsIInv, SurroundingsIInv DEF Next
<1> QED BY <1>1, <1>2

\* The jobs table, the transition log, the intents in flight and the push
\* history keep their types through every pass, POST, hand-back, restart and
\* clock step.
THEOREM TypeCorrect == Spec => []TypeOK
<1>1. IInv => TypeOK
  BY DEF IInv
<1> QED BY InitIInv, NextIInv, <1>1, PTL DEF Spec

\* No interleaving of any number of threads, with any of the faults, ever
\* writes the pair _resolve_alerts heals: a page without an open episode,
\* or a paged state without its page.
THEOREM EpisodesWellShaped == Spec => []EpisodeShape
<1>1. IInv => EpisodeShape
  BY DEF IInv
<1> QED BY InitIInv, NextIInv, <1>1, PTL DEF Spec

-----------------------------------------------------------------------------
(* One thread: a stamp is never left for a page nobody was sent            *)

\* Between passes nothing is in flight; during one, what a failed POST would
\* put back in the row is itself a page that reached the phone.
SInv ==
    /\ IInv
    /\ StampIsSpokenFor
    /\ \A t \in Threads :
          /\ pc[t] \in {"idle", "begin"} => queue[t] = NoIntents /\ unsent[t] = {}
          /\ pc[t] = "give_back" => queue[t] = NoIntents
    /\ \A t \in Threads, j \in Jobs :
          /\ \A n \in DOMAIN queue[t][j] : queue[t][j][n].job = j
          /\ \A i \in InFlight(t, j) :
                i.prev_alerted_at # None => Told(j, i.bad_since, i.prev_alerted_at)

\* A page is stamped only by the pass that decides it; otherwise the row
\* keeps the stamp its episode had.
LEMMA ResolveStamp ==
    ASSUME NEW j \in Jobs, row[j] \in Row, ShapedRow(row[j]), NEW v,
           v[j] \in Verdict, NEW changes, NEW now \in Nat
    PROVE  LET out == resolve_alerts(j, v, changes, now)
               e   == episode_at(j, now)
           IN  out.ep.alerted_at # None =>
                  /\ out.ep.bad_since = e.bad_since
                  /\ \/ out.paged /\ out.ep.alerted_at = to_iso(now)
                     \/ out.ep.alerted_at = e.alerted_at
<1> DEFINE e0 == healed_episode(row[j], now)
           e == open_episode(e0, now)
           out == resolve_alerts(j, v, changes, now)
<1>1. e0 \in Episode /\ ShapedRow(e0)
  BY HealedEpisode
<1>2. e \in Episode /\ episode_at(j, now) = e
  BY <1>1, OpenEpisode DEF episode_at
<1>3. ASSUME NEW about, NEW f \in Episode
      PROVE  LET g == page(j, about, f, v, changes, now)
             IN  /\ g.bad_since = f.bad_since
                 /\ \/ /\ MayPage(j, about, f, v, changes, now)
                       /\ g.alerted_at = to_iso(now)
                    \/ g.alerted_at = f.alerted_at
  BY DEF page, Episode
<1>4. NoEpisode.alerted_at = None
  BY DEF NoEpisode
<1> HIDE DEF e0
<1>5. CASE v[j].state \in ALERTABLE_STATES
  <2>1. out = resolve_bad(j, e0, v, changes, now)
    BY <1>5 DEF resolve_alerts, e0, ALERTABLE_STATES
  <2>2. /\ out.ep = page(j, v[j].state, e, v, changes, now)
        /\ out.paged = MayPage(j, v[j].state, e, v, changes, now)
    BY <2>1 DEF resolve_bad
  <2> HIDE DEF e, out
  <2> QED BY <1>2, <1>3, <2>2 DEF out
<1>6. CASE v[j].state = "OK" /\ e0.bad_since # None
  <2> DEFINE about == about_of(j, changes[j])
             e2 == page(j, about, e0, v, changes, now)
  <2>1. out = resolve_ok(j, e0, v, changes, now)
    BY <1>6 DEF resolve_alerts, e0, ALERTABLE_STATES
  <2>2. /\ out.ep \in {e2, NoEpisode}
        /\ out.paged = MayPage(j, about, e0, v, changes, now)
    BY <2>1 DEF resolve_ok
  <2>3. e = e0
    BY <1>6 DEF open_episode
  <2> HIDE DEF about, e, out
  <2> QED BY <1>1, <1>2, <1>3, <1>4, <2>2, <2>3 DEF out
<1>7. CASE v[j].state = "OK" /\ e0.bad_since = None
  <2>1. out = Unmoved(e0)
    BY <1>7 DEF resolve_alerts, e0, ALERTABLE_STATES
  <2> QED BY <2>1, <1>1, <1>7 DEF Unmoved, ShapedRow
<1>8. CASE v[j].state \notin ALERTABLE_STATES \cup {"OK"}
  <2>1. out = Unmoved(NoEpisode)
    BY <1>8 DEF resolve_alerts
  <2> QED BY <2>1, <1>4 DEF Unmoved
<1> QED BY <1>5, <1>6, <1>7, <1>8

\* The stamp an episode has when a pass takes it up is the row's.
LEMMA EpisodeStamp ==
    ASSUME NEW j \in Jobs, NEW now \in Nat, episode_at(j, now).alerted_at # None
    PROVE  /\ episode_at(j, now).bad_since = row[j].bad_since
           /\ episode_at(j, now).alerted_at = row[j].alerted_at
  BY DEF episode_at, open_episode, healed_episode, NoEpisode

\* The intents q hold a page of the episode that began at b, stamped a ...
HasPage(q, b, a) ==
    \E n \in DOMAIN q :
        q[n].kind \in PageKinds /\ q[n].bad_since = b /\ q[n].alerted_at = a

\* ... and are all about job j, their pages about its episode e.
BelongTo(q, j, e) ==
    \A n \in DOMAIN q :
        /\ q[n].job = j
        /\ q[n].kind \in PageKinds => /\ q[n].bad_since = e.bad_since
                                      /\ q[n].prev_alerted_at = e.alerted_at

\* A pass that pages queues a push with the stamp it wrote, and a page
\* carries the stamp the episode had before it.
LEMMA IntentsStamp ==
    ASSUME NEW j \in Jobs, NEW v, NEW out, NEW now \in Nat
    PROVE  /\ out.paged => HasPage(intents_of(j, v, out, now),
                                    episode_at(j, now).bad_since, to_iso(now))
           /\ BelongTo(intents_of(j, v, out, now), j, episode_at(j, now))
<1> DEFINE q == intents_of(j, v, out, now)
           e == episode_at(j, now)
           pg == [job |-> j, kind |-> IF e.alerted_at = None THEN "alert"
                                      ELSE "escalation",
                  state |-> out.about, bad_since |-> e.bad_since,
                  alerted_at |-> to_iso(now),
                  prev_paged_at |-> row[j].last_paged_at,
                  prev_alerted_at |-> e.alerted_at,
                  prev_alerted_state |-> e.alerted_state]
           named == IF out.paged THEN out.about
                    ELSE IF e.alerted_state # None THEN e.alerted_state
                    ELSE out.about
           rc == [job |-> j, kind |-> "recovery", state |-> named,
                  bad_since |-> None, alerted_at |-> None,
                  prev_paged_at |-> None, prev_alerted_at |-> None,
                  prev_alerted_state |-> None]
           first == IF out.paged THEN <<pg>> ELSE <<>>
           second == IF out.recovers THEN <<rc>> ELSE <<>>
           S == {pg, rc}
<1>1. q = first \o second
  BY DEF intents_of
<1>2. /\ pg.job = j /\ pg.kind \in PageKinds /\ pg.bad_since = e.bad_since
      /\ pg.alerted_at = to_iso(now) /\ pg.prev_alerted_at = e.alerted_at
      /\ rc.job = j /\ rc.kind \notin PageKinds
  BY DEF PageKinds
<1> HIDE DEF pg, rc, q, e
<1>3. first \in Seq(S) /\ second \in Seq(S)
  <2>1. pg \in S /\ rc \in S
    OBVIOUS
  <2> HIDE DEF S
  <2> QED BY <2>1
<1>4. q \in Seq(S) /\ \A n \in DOMAIN q : q[n] \in S
  <2>1. q \in Seq(S)
    BY <1>1, <1>3, ConcatProperties
  <2> QED BY <2>1, ElementOfSeq, LenProperties
<1>5. ASSUME out.paged PROVE 1 \in DOMAIN q /\ q[1] = pg
  <2>1. first = <<pg>> /\ Len(first) = 1 /\ first[1] = pg
    BY <1>5
  <2>2. Len(second) \in Nat
    BY <1>3, LenProperties
  <2>3. Len(q) = 1 + Len(second) /\ q[1] = first[1]
    <3> HIDE DEF first, second, S
    <3> QED BY <1>1, <1>3, <2>1, <2>2, ConcatProperties
  <2>4. DOMAIN q = 1..Len(q)
    BY <1>4, LenProperties
  <2> QED BY <2>1, <2>2, <2>3, <2>4
<1>6. out.paged => HasPage(q, e.bad_since, to_iso(now))
  BY <1>2, <1>5 DEF HasPage
<1>7. BelongTo(q, j, e)
  BY <1>2, <1>4 DEF BelongTo
<1> QED BY <1>6, <1>7 DEF q, e

OneReliableThread ==
    Threads = {SCHEDULER} /\ NotifierEnabled /\ Faults \cap {"restart", "db_error"} = {}

\* Rows of an older version come with the page they record.
LEMMA InitSInv == Init => SInv
<1> SUFFICES ASSUME Init PROVE SInv
  OBVIOUS
<1>1. IInv
  BY InitIInv
<1>2. \A t \in Threads : queue[t] = NoIntents /\ unsent[t] = {}
  BY DEF Init
<1>3. \A t \in Threads, j \in Jobs : queue[t][j] = <<>> /\ InFlight(t, j) = {}
  BY <1>2 DEF NoIntents, InFlight
<1>4. ASSUME NEW j \in Jobs, row[j].alerted_at # None
      PROVE  Told(j, row[j].bad_since, row[j].alerted_at)
  <2>1. row[j] # FreshRow /\ row[j] \in InitialRows(j)
    BY <1>4 DEF Init, FreshRow
  <2>2. row[j].bad_since = 0 /\ row[j].alerted_at = 0
    <3>1. PICK st, p : row[j] = UpgradedRow(st, p)
      BY <2>1 DEF InitialRows
    <3>2. row[j] = [state |-> st, since |-> 0, bad_since |-> 0, alerted_at |-> 0,
                    alerted_state |-> None, last_paged_at |-> p]
      BY <3>1 DEF UpgradedRow, FreshRow
    <3> QED BY <3>2
  <2> DEFINE p == [kind |-> "alert", state |-> "UNKNOWN", bad_since |-> 0,
                   at |-> 0, known |-> FALSE]
  <2>3. sent[j] = <<p>>
    BY <2>1 DEF Init
  <2>4. p.kind \in PageKinds /\ p.bad_since = 0 /\ p.at = 0
    BY DEF PageKinds
  <2> HIDE DEF p
  <2>5. p \in Delivered(j)
    <3>1. 1 \in DOMAIN sent[j] /\ sent[j][1] = p
      BY <2>3
    <3> QED BY <3>1, <2>4 DEF Delivered
  <2> QED BY <2>2, <2>4, <2>5 DEF Told
<1>5. StampIsSpokenFor
  BY <1>4 DEF StampIsSpokenFor
<1> QED BY <1>1, <1>2, <1>3, <1>5 DEF SInv

\* What reached the phone stays there.
LEMMA ToldStays ==
    ASSUME NEW j \in Jobs, sent[j] \in Seq(Push), NEW p \in Push,
           sent'[j] = sent[j] \/ sent'[j] = Append(sent[j], p), NEW b, NEW a,
           Told(j, b, a)
    PROVE  Told(j, b, a)'
<1>1. \A n \in DOMAIN sent[j] : n \in DOMAIN sent'[j] /\ sent'[j][n] = sent[j][n]
  <2>1. CASE sent'[j] = sent[j]
    BY <2>1
  <2>2. CASE sent'[j] = Append(sent[j], p)
    <3>1. /\ Append(sent[j], p) \in Seq(Push)
          /\ Len(Append(sent[j], p)) = Len(sent[j]) + 1
          /\ \A i \in 1..Len(sent[j]) : Append(sent[j], p)[i] = sent[j][i]
      BY AppendProperties
    <3>2. /\ Len(sent[j]) \in Nat /\ DOMAIN sent[j] = 1..Len(sent[j])
          /\ DOMAIN Append(sent[j], p) = 1..Len(Append(sent[j], p))
      BY <3>1, LenProperties
    <3> QED BY <2>2, <3>1, <3>2
  <2> QED BY <2>1, <2>2
<1>2. Delivered(j) \subseteq Delivered(j)'
  BY <1>1 DEF Delivered
<1> QED BY <1>2 DEF Told

\* A pass begins with nothing in flight, so every stamp it finds was told.
LEMMA RecomputeSInv ==
    ASSUME SInv, OneReliableThread, NEW t \in Threads, RecomputePass(t)
    PROVE  SInv'
<1> DEFINE now == pass_clock(t)
<1>1. IInv'
  BY RecomputeIInv DEF SInv
<1>2. now \in Nat
  BY DEF pass_clock, SInv, IInv, TypeOK
<1>3. PICK v \in [Jobs -> UNION {Verdicts[j] : j \in Jobs}] :
        LET changes == [j \in Jobs |-> set_state(j, v, now)]
            out == [j \in Jobs |-> resolve_alerts(j, v, changes, now)]
        IN  /\ \A j \in Jobs : v[j] \in Verdicts[j]
            /\ row' = [j \in Jobs |-> row_after(j, v, out[j], now)]
            /\ queue' = [queue EXCEPT ![t] =
                            [j \in Jobs |-> intents_of(j, v, out[j], now)]]
            /\ pc' = [pc EXCEPT ![t] = IF queue'[t] = NoIntents
                            THEN after_pass(t, Tail(todo[t])) ELSE "post"]
  BY DEF RecomputePass
<1> DEFINE changes == [j \in Jobs |-> set_state(j, v, now)]
           out == [j \in Jobs |-> resolve_alerts(j, v, changes, now)]
<1> HIDE DEF now
<1>4. /\ row' = [j \in Jobs |-> row_after(j, v, out[j], now)]
      /\ queue' = [queue EXCEPT ![t] =
                      [j \in Jobs |-> intents_of(j, v, out[j], now)]]
      /\ pc' = [pc EXCEPT ![t] = IF queue'[t] = NoIntents
                      THEN after_pass(t, Tail(todo[t])) ELSE "post"]
      /\ \A j \in Jobs : out[j] = resolve_alerts(j, v, changes, now)
      /\ \A j \in Jobs : v[j] \in Verdict
  BY <1>3, ThreadAssumption
<1> HIDE DEF out, changes
<1>5. /\ \A u \in Threads : u = t
      /\ queue[t] = NoIntents /\ unsent[t] = {}
      /\ unsent' = unsent /\ sent' = sent
  BY DEF OneReliableThread, SInv, RecomputePass
<1>6. \A j \in Jobs : row[j].alerted_at # None =>
                        Told(j, row[j].bad_since, row[j].alerted_at)
  <2>1. \A j \in Jobs, u \in Threads : InFlight(u, j) = {}
    BY <1>5 DEF InFlight, NoIntents
  <2> QED BY <2>1 DEF SInv, StampIsSpokenFor
<1>7. ASSUME NEW j \in Jobs
      PROVE  episode_at(j, now).alerted_at # None =>
                Told(j, episode_at(j, now).bad_since, episode_at(j, now).alerted_at)
  BY <1>2, <1>6, EpisodeStamp
<1>8. \A j \in Jobs : \A b, a : Told(j, b, a) => Told(j, b, a)'
  BY <1>5 DEF Told, Delivered
<1>9. ASSUME NEW j \in Jobs
      PROVE  queue'[t][j] = intents_of(j, v, out[j], now)
  BY <1>4 DEF SInv, IInv, TypeOK
<1>10. StampIsSpokenFor'
  <2> SUFFICES ASSUME NEW j \in Jobs, NEW b, NEW a, a # None,
                      b = row'[j].bad_since, a = row'[j].alerted_at
               PROVE  \/ Told(j, b, a)'
                      \/ \E i \in InFlight(t, j)' :
                            i.bad_since = b /\ i.alerted_at = a
    BY DEF StampIsSpokenFor, Told
  <2> DEFINE e == episode_at(j, now)
             q == intents_of(j, v, out[j], now)
  <2>1. /\ row'[j].alerted_at = out[j].ep.alerted_at
        /\ row'[j].bad_since = out[j].ep.bad_since
    BY <1>4 DEF row_after
  <2>2. /\ b = e.bad_since
        /\ \/ out[j].paged /\ a = to_iso(now)
           \/ a = e.alerted_at
    <3>1. row[j] \in Row /\ ShapedRow(row[j])
      BY DEF SInv, IInv, TypeOK, EpisodeShape
    <3> HIDE DEF e
    <3> QED BY <2>1, <3>1, <1>2, <1>4, ResolveStamp DEF e
  <2>3. CASE out[j].paged /\ a = to_iso(now)
    <3>1. PICK n \in DOMAIN q : /\ q[n].kind \in PageKinds
                                /\ q[n].bad_since = e.bad_since
                                /\ q[n].alerted_at = to_iso(now)
                                /\ q[n].job = j
      <4>1. HasPage(q, e.bad_since, to_iso(now)) /\ BelongTo(q, j, e)
        BY <2>3, <1>2, IntentsStamp
      <4> HIDE DEF q, e
      <4> QED BY <4>1 DEF HasPage, BelongTo
    <3>2. q[n] \in InFlight(t, j)'
      <4> HIDE DEF q
      <4> QED BY <3>1, <1>9 DEF InFlight, q
    <3> QED BY <2>2, <2>3, <3>1, <3>2
  <2>4. CASE a = e.alerted_at
    BY <2>2, <2>4, <1>7, <1>8
  <2> QED BY <2>2, <2>3, <2>4
<1>11. ASSUME NEW u \in Threads
       PROVE  /\ pc'[u] \in {"idle", "begin"} =>
                    queue'[u] = NoIntents /\ unsent'[u] = {}
              /\ pc'[u] = "give_back" => queue'[u] = NoIntents
  BY <1>4, <1>5 DEF after_pass, SInv, IInv, TypeOK
<1>12. ASSUME NEW u \in Threads, NEW j \in Jobs
       PROVE  /\ \A n \in DOMAIN queue'[u][j] : queue'[u][j][n].job = j
              /\ \A i \in InFlight(u, j)' : i.prev_alerted_at # None =>
                    Told(j, i.bad_since, i.prev_alerted_at)'
  <2> DEFINE q == intents_of(j, v, out[j], now)
  <2>1. u = t /\ queue'[u][j] = q /\ unsent'[u] = {}
    BY <1>5, <1>9
  <2>2. BelongTo(q, j, episode_at(j, now))
    BY <1>2, IntentsStamp
  <2> HIDE DEF q
  <2>3. \A i \in InFlight(u, j)' :
          /\ i.bad_since = episode_at(j, now).bad_since
          /\ i.prev_alerted_at = episode_at(j, now).alerted_at
    BY <2>1, <2>2 DEF InFlight, BelongTo
  <2>4. ASSUME NEW i \in InFlight(u, j)', i.prev_alerted_at # None
        PROVE  Told(j, i.bad_since, i.prev_alerted_at)'
    <3>1. Told(j, i.bad_since, i.prev_alerted_at)
      BY <2>3, <2>4, <1>7
    <3> QED BY <3>1, <1>8
  <2>5. \A n \in DOMAIN queue'[u][j] : queue'[u][j][n].job = j
    BY <2>1, <2>2 DEF BelongTo
  <2> QED BY <2>4, <2>5
<1> QED BY <1>1, <1>10, <1>11, <1>12 DEF SInv

\* A page answered 2xx reached the phone; any other stays in flight.
LEMMA DispatchSInv ==
    ASSUME SInv, OneReliableThread, NEW t \in Threads, Dispatch(t)
    PROVE  SInv'
<1>1. IInv'
  BY DispatchIInv DEF SInv
<1>2. PICK j \in Jobs, o \in Outcomes :
        LET i == Head(queue[t][j])
        IN  /\ is_next(t, j)
            /\ queue' = [queue EXCEPT ![t][j] = Tail(queue[t][j])]
            /\ unsent' = [unsent EXCEPT ![t] =
                  IF i.kind \in PageKinds /\ ~o.ok /\ NotifierEnabled
                  THEN @ \cup {i} ELSE @]
            /\ sent' = IF ~o.landed THEN sent
                       ELSE [sent EXCEPT ![j] = Append(@,
                          [kind |-> i.kind, state |-> i.state,
                           bad_since |-> i.bad_since, at |-> i.alerted_at,
                           known |-> o.ok])]
            /\ pc' = [pc EXCEPT ![t] =
                  IF queue'[t] # NoIntents THEN "post"
                  ELSE IF unsent'[t] # {} THEN "give_back"
                  ELSE after_pass(t, todo[t])]
  BY DEF Dispatch
<1> DEFINE q == queue[t][j]
<1>2a. PICK i : i = Head(q)
  OBVIOUS
<1> DEFINE p == [kind |-> i.kind, state |-> i.state, bad_since |-> i.bad_since,
                 at |-> i.alerted_at, known |-> o.ok]
<1>3. q \in Seq(AlertIntent) /\ q # <<>>
  BY <1>2 DEF SInv, IInv, TypeOK, is_next
<1>4. /\ i \in AlertIntent /\ Tail(q) \in Seq(AlertIntent)
      /\ \A n \in DOMAIN Tail(q) : n + 1 \in DOMAIN q /\ Tail(q)[n] = q[n + 1]
      /\ \A n \in DOMAIN q : n = 1 \/ (n - 1 \in DOMAIN Tail(q) /\ q[n] = Tail(q)[n - 1])
      /\ i = q[1] /\ 1 \in DOMAIN q
  <2>1. /\ Head(q) \in AlertIntent /\ Tail(q) \in Seq(AlertIntent)
        /\ Len(Tail(q)) = Len(q) - 1
        /\ \A n \in 1..Len(Tail(q)) : Tail(q)[n] = q[n + 1]
    BY <1>3, HeadTailProperties
  <2>2. /\ Len(q) \in Nat \ {0} /\ DOMAIN q = 1..Len(q)
        /\ DOMAIN Tail(q) = 1..Len(Tail(q)) /\ Head(q) = q[1]
    BY <1>3, <2>1, LenProperties, EmptySeq
  <2> HIDE DEF q
  <2>3. ASSUME NEW n \in DOMAIN q, n # 1
        PROVE  n - 1 \in DOMAIN Tail(q) /\ q[n] = Tail(q)[n - 1]
    <3>1. n - 1 \in 1..Len(Tail(q)) /\ (n - 1) + 1 = n
      BY <2>1, <2>2, <2>3
    <3> QED BY <2>1, <2>2, <3>1
  <2> QED BY <1>2a, <2>1, <2>2, <2>3 DEF q
<1>5. i.job = j
  BY <1>4 DEF SInv
<1>6. o.ok \in BOOLEAN /\ (o.ok => o.landed)
  BY DEF Outcomes
<1> HIDE DEF q
<1>7. /\ queue' = [queue EXCEPT ![t] = [queue[t] EXCEPT ![j] = Tail(q)]]
      /\ unsent' = [unsent EXCEPT ![t] =
            IF i.kind \in PageKinds /\ ~o.ok THEN unsent[t] \cup {i} ELSE unsent[t]]
      /\ sent' = IF ~o.landed THEN sent
                 ELSE [sent EXCEPT ![j] = Append(sent[j], p)]
      /\ pc' = [pc EXCEPT ![t] =
            IF queue'[t] # NoIntents THEN "post"
            ELSE IF unsent'[t] # {} THEN "give_back"
            ELSE after_pass(t, todo[t])]
      /\ row' = row
  BY <1>2, <1>2a DEF q, OneReliableThread, Dispatch
<1>8. p \in Push
  BY <1>4, <1>6 DEF AlertIntent, Push
<1>9. p.kind = i.kind /\ p.bad_since = i.bad_since /\ p.at = i.alerted_at
  OBVIOUS
<1> HIDE DEF p
<1>10. sent \in [Jobs -> Seq(Push)]
  BY DEF SInv, IInv, TypeOK
<1>11. ASSUME NEW k \in Jobs, NEW b, NEW a, Told(k, b, a) PROVE Told(k, b, a)'
  <2>1. sent'[k] = sent[k] \/ sent'[k] = Append(sent[k], p)
    BY <1>7, <1>10
  <2>2. sent[k] \in Seq(Push)
    BY <1>10
  <2> QED BY <1>8, <1>11, <2>1, <2>2, ToldStays
<1>12. ASSUME o.ok, i.kind \in PageKinds
       PROVE  Told(j, i.bad_since, i.alerted_at)'
  <2>1. sent'[j] = Append(sent[j], p) /\ sent[j] \in Seq(Push)
    BY <1>6, <1>7, <1>10, <1>12
  <2>2. \E n \in DOMAIN sent'[j] : sent'[j][n] = p
    <3>1. /\ Append(sent[j], p) \in Seq(Push)
          /\ Len(Append(sent[j], p)) = Len(sent[j]) + 1
          /\ Append(sent[j], p)[Len(sent[j]) + 1] = p
      BY <2>1, <1>8, AppendProperties
    <3>2. /\ Len(sent[j]) \in Nat
          /\ DOMAIN Append(sent[j], p) = 1..Len(Append(sent[j], p))
      BY <2>1, <3>1, LenProperties
    <3>3. Len(sent[j]) + 1 \in DOMAIN Append(sent[j], p)
      BY <3>1, <3>2
    <3> QED BY <2>1, <3>1, <3>3
  <2>3. p \in Delivered(j)'
    BY <2>2, <1>9, <1>12 DEF Delivered
  <2> QED BY <1>9, <2>3 DEF Told
<1>13. ASSUME NEW u \in Threads, NEW k \in Jobs
       PROVE  /\ InFlight(u, k)' \subseteq InFlight(u, k)
              /\ \A x \in InFlight(u, k) : x \in InFlight(u, k)' \/ (x = i /\ k = j /\ o.ok)
  <2>1. queue[u][k] = IF u = t /\ k = j THEN q ELSE queue[u][k]
    BY DEF q
  <2>2. /\ queue'[u][k] = IF u = t /\ k = j THEN Tail(q) ELSE queue[u][k]
        /\ unsent'[u] = IF u = t /\ i.kind \in PageKinds /\ ~o.ok
                        THEN unsent[u] \cup {i} ELSE unsent[u]
    BY <1>7 DEF SInv, IInv, TypeOK
  <2>3. InFlight(u, k)' \subseteq InFlight(u, k)
    BY <1>4, <1>5, <2>1, <2>2 DEF InFlight
  <2>4. ASSUME NEW x \in InFlight(u, k), ~(x = i /\ k = j /\ o.ok)
        PROVE  x \in InFlight(u, k)'
    <3>1. CASE x \in unsent[u]
      BY <2>2, <3>1 DEF InFlight
    <3>2. CASE x \notin unsent[u]
      <4>1. PICK n \in DOMAIN queue[u][k] : x = queue[u][k][n]
        BY <3>2 DEF InFlight
      <4>2. CASE u = t /\ k = j
        <5>1. CASE n = 1
          BY <1>4, <1>6, <2>1, <2>2, <2>4, <4>1, <4>2, <5>1 DEF InFlight
        <5>2. CASE n # 1
          <6>1. n - 1 \in DOMAIN Tail(q) /\ x = Tail(q)[n - 1]
            BY <1>4, <2>1, <4>1, <4>2, <5>2
          <6> QED BY <2>2, <4>2, <6>1 DEF InFlight
        <5> QED BY <5>1, <5>2
      <4>3. CASE ~(u = t /\ k = j)
        BY <2>2, <4>1, <4>3 DEF InFlight
      <4> QED BY <4>2, <4>3
    <3> QED BY <3>1, <3>2
  <2> QED BY <2>3, <2>4
<1>14. StampIsSpokenFor'
  <2> SUFFICES ASSUME NEW k \in Jobs, NEW b, NEW a, a # None,
                      b = row[k].bad_since, a = row[k].alerted_at
               PROVE  \/ Told(k, b, a)'
                      \/ \E u \in Threads : \E x \in InFlight(u, k)' :
                            x.bad_since = b /\ x.alerted_at = a
    BY <1>7 DEF StampIsSpokenFor, Told
  <2>1. CASE Told(k, b, a)
    BY <2>1, <1>11
  <2>2. ASSUME NEW u \in Threads, NEW x \in InFlight(u, k),
               x.bad_since = b, x.alerted_at = a
        PROVE  \/ Told(k, b, a)'
               \/ \E y \in InFlight(u, k)' : y.bad_since = b /\ y.alerted_at = a
    <3>1. CASE x \in InFlight(u, k)'
      BY <2>2, <3>1
    <3>2. CASE x = i /\ k = j /\ o.ok
      <4>1. i.kind \in PageKinds
        BY <3>2 DEF InFlight
      <4> QED BY <2>2, <3>2, <4>1, <1>12
    <3> QED BY <3>1, <3>2, <1>13
  <2> QED BY <2>1, <2>2 DEF SInv, StampIsSpokenFor
<1>15. ASSUME NEW u \in Threads
       PROVE  /\ pc'[u] \in {"idle", "begin"} =>
                    queue'[u] = NoIntents /\ unsent'[u] = {}
              /\ pc'[u] = "give_back" => queue'[u] = NoIntents
  <2>1. u = t
    BY DEF OneReliableThread
  <2> QED BY <2>1, <1>7 DEF after_pass, SInv, IInv, TypeOK
<1>16. ASSUME NEW u \in Threads, NEW k \in Jobs
       PROVE  /\ \A n \in DOMAIN queue'[u][k] : queue'[u][k][n].job = k
              /\ \A x \in InFlight(u, k)' : x.prev_alerted_at # None =>
                    Told(k, x.bad_since, x.prev_alerted_at)'
  <2>1. \A n \in DOMAIN queue'[u][k] : queue'[u][k][n].job = k
    BY <1>4, <1>7, SMTT(40) DEF SInv, IInv, TypeOK, q
  <2> QED BY <2>1, <1>11, <1>13 DEF SInv
<1> QED BY <1>1, <1>14, <1>15, <1>16 DEF SInv

\* The hand-back restores the pair of a page that was told, or none.
LEMMA ReturnSInv ==
    ASSUME SInv, OneReliableThread, NEW t \in Threads, ReturnUnsentPages(t)
    PROVE  SInv'
<1>1. IInv'
  BY ReturnIInv DEF SInv
<1>2. /\ \A u \in Threads : u = t
      /\ queue[t] = NoIntents /\ queue' = queue /\ unsent'[t] = {} /\ sent' = sent
  BY DEF OneReliableThread, SInv, IInv, TypeOK, ReturnUnsentPages
<1>3. \A u \in Threads, k \in Jobs :
        /\ queue'[u][k] = <<>> /\ InFlight(u, k)' = {}
        /\ \A i \in InFlight(u, k) : i \in unsent[t]
  BY <1>2 DEF InFlight, NoIntents
<1>4. \A k \in Jobs : \A b, a : Told(k, b, a) => Told(k, b, a)'
  BY <1>2 DEF Told, Delivered
<1>5. StampIsSpokenFor'
  <2> SUFFICES ASSUME NEW j \in Jobs, NEW b, NEW a, a # None,
                      b = row'[j].bad_since, a = row'[j].alerted_at
               PROVE  Told(j, b, a)
    <3>1. ASSUME NEW j \in Jobs, row'[j].alerted_at # None
          PROVE  Told(j, row[j].bad_since, row[j].alerted_at)'
      <4>1. Delivered(j)' = Delivered(j)
        BY <1>2 DEF Delivered
      <4>2. PICK p \in Delivered(j) : p.bad_since = row'[j].bad_since /\ p.at = row'[j].alerted_at
        BY <3>1 DEF Told
      <4> QED BY <4>1, <4>2 DEF Told
    <3> QED BY <3>1 DEF StampIsSpokenFor
  <2>1. CASE \E i \in unsent[t] : i.job = j /\ same_episode(i)
    <3>1. PICK i \in unsent[t] : i.job = j /\ same_episode(i)
                                 /\ row'[j] = row_given_back(row[j], i)
      BY <2>1 DEF ReturnUnsentPages
    <3>2. i \in InFlight(t, j)
      BY <3>1 DEF InFlight, SInv, IInv, EpisodeShape
    <3>3. a = i.prev_alerted_at /\ b = i.bad_since
      <4>1. row[j] \in Row
        BY DEF SInv, IInv, TypeOK
      <4> QED BY <3>1, <4>1 DEF row_given_back, same_episode, Row
    <3> QED BY <3>2, <3>3 DEF SInv
  <2>2. CASE ~\E i \in unsent[t] : i.job = j /\ same_episode(i)
    <3>1. row'[j] = row[j]
      BY <2>2 DEF ReturnUnsentPages
    <3>2. \A u \in Threads : \A i \in InFlight(u, j) :
            ~(i.bad_since = row[j].bad_since /\ i.alerted_at = row[j].alerted_at)
      BY <2>2, <1>3 DEF same_episode, InFlight
    <3> QED BY <3>1, <3>2 DEF SInv, StampIsSpokenFor
  <2> QED BY <2>1, <2>2
<1>6. \A u \in Threads : queue'[u] = NoIntents /\ unsent'[u] = {}
  BY <1>2
<1> QED BY <1>1, <1>3, <1>5, <1>6 DEF SInv

\* Every step of one thread that cannot die between its transactions.
LEMMA NextSInv == ASSUME OneReliableThread PROVE SInv /\ [Next]_vars => SInv'
<1> SUFFICES ASSUME SInv, [Next]_vars PROVE SInv'
  OBVIOUS
<1>1. IInv'
  BY NextIInv DEF SInv
<1>2. ASSUME UNCHANGED <<row, queue, unsent, sent>>,
             \A t \in Threads : \/ pc'[t] = pc[t]
                                \/ pc[t] \in {"idle", "begin"} /\ pc'[t] \in {"idle", "begin"}
      PROVE  SInv'
  <2>1. StampIsSpokenFor'
    BY <1>2 DEF SInv, StampIsSpokenFor, Told, Delivered, InFlight
  <2>2. \A t \in Threads, j \in Jobs :
          /\ InFlight(t, j)' = InFlight(t, j)
          /\ \A b, a : Told(j, b, a) => Told(j, b, a)'
    BY <1>2 DEF InFlight, Told, Delivered
  <2>3. \A t \in Threads :
          /\ pc'[t] \in {"idle", "begin"} => queue'[t] = NoIntents /\ unsent'[t] = {}
          /\ pc'[t] = "give_back" => queue'[t] = NoIntents
    BY <1>2 DEF SInv
  <2>4. \A t \in Threads, j \in Jobs :
          \A n \in DOMAIN queue'[t][j] : queue'[t][j][n].job = j
    BY <1>2 DEF SInv
  <2>5. \A t \in Threads, j \in Jobs : \A i \in InFlight(t, j)' :
          i.prev_alerted_at # None => Told(j, i.bad_since, i.prev_alerted_at)'
    BY <2>2 DEF SInv
  <2> QED BY <1>1, <2>1, <2>3, <2>4, <2>5 DEF SInv
<1>3. CASE UNCHANGED vars
  BY <1>2, <1>3 DEF vars, thread
<1>4. ASSUME NEW t \in Threads, Enter(t) PROVE SInv'
  BY <1>2, <1>4 DEF Enter, SInv, IInv, TypeOK
<1>5. ASSUME NEW t \in Threads, RecomputePass(t) PROVE SInv'
  BY <1>5, RecomputeSInv
<1>5a. ASSUME NEW t \in Threads, RecomputeFails(t) PROVE SInv'
  BY <1>2, <1>5a, FailedPass DEF SInv, after_pass
<1>6. ASSUME NEW t \in Threads, Dispatch(t) PROVE SInv'
  BY <1>6, DispatchSInv
<1>7. ASSUME NEW t \in Threads, ReturnUnsentPages(t) PROVE SInv'
  BY <1>7, ReturnSInv
<1>8. \A t \in Threads : ~ReturnUnsentFails(t)
  BY DEF OneReliableThread, ReturnUnsentFails
<1>9. CASE Advance \/ ClockBack
  BY <1>2, <1>9 DEF Advance, ClockBack, thread
<1>10. ~Restart
  BY DEF OneReliableThread, Restart
<1> QED BY <1>3, <1>4, <1>5, <1>5a, <1>6, <1>7, <1>8, <1>9, <1>10 DEF Next

\* With one thread, a notifier that is switched on and neither a restart nor
\* a failing hand-back, a row is never left marked as paged for a push that
\* reached nobody, whichever passes and POSTs fail and however the clock is
\* stepped: _return_unsent_pages gives back exactly the undelivered pages.
THEOREM StampsAreSpokenFor ==
    ASSUME OneReliableThread PROVE Spec => []StampIsSpokenFor
<1>1. SInv => StampIsSpokenFor
  BY DEF SInv
<1> QED BY InitSInv, NextSInv, <1>1, PTL DEF Spec

-----------------------------------------------------------------------------
(* A steady clock: an episode that reads OK is over after its hold         *)

\* No hold is shorter than the dwell, so an OK that may end is not held past it.
LEMMA HoldBounds ==
    ASSUME NEW j \in Jobs
    PROVE  ok_hold_s(j) \in Nat /\ ok_dwell_s(j) \in Nat /\ ok_dwell_s(j) <= ok_hold_s(j)
<1>1. \A x, y \in Nat : /\ Max({x, y}) \in {x, y} /\ x <= Max({x, y}) /\ y <= Max({x, y})
                        /\ Min({x, y}) \in {x, y}
  <2> SUFFICES ASSUME NEW x \in Nat, NEW y \in Nat
               PROVE  /\ Max({x, y}) \in {x, y} /\ x <= Max({x, y}) /\ y <= Max({x, y})
                      /\ Min({x, y}) \in {x, y}
    OBVIOUS
  <2>1. \E m \in {x, y} : \A n \in {x, y} : m >= n
    OBVIOUS
  <2>2. \E m \in {x, y} : \A n \in {x, y} : m <= n
    OBVIOUS
  <2> QED BY <2>1, <2>2 DEF Max, Min
<1>2. alert_after_s[j] \in Nat /\ cadence_s[j] \in Nat /\ MAX_OK_DWELL_S \in Nat
  BY RegistryAssumption, DurationAssumption
<1>3. alert_after_s[j] \div DWELL_DIVISOR \in Nat
  BY <1>2, DurationAssumption
<1>4. CADENCE_DWELL_SAMPLES * cadence_s[j] \in Nat /\ MAX_CADENCE_DWELL_S \in Nat
  BY <1>2, DurationAssumption
<1>5. ok_dwell_s(j) \in Nat
  <2> DEFINE a == Min({MAX_OK_DWELL_S, alert_after_s[j] \div DWELL_DIVISOR})
             b == Min({CADENCE_DWELL_SAMPLES * cadence_s[j], MAX_CADENCE_DWELL_S})
  <2>1. a \in Nat /\ b \in Nat
    BY <1>1, <1>2, <1>3, <1>4
  <2> HIDE DEF a, b
  <2>2. Max({a, b}) \in Nat
    BY <1>1, <2>1
  <2> QED BY <2>1, <2>2 DEF ok_dwell_s, a, b
<1>6. ASSUME NEW x \in Nat, NEW y \in Nat, NEW z \in Nat
      PROVE  Max({x, y, z}) \in Nat /\ y <= Max({x, y, z})
  <2>1. \E m \in {x, y, z} : \A n \in {x, y, z} : m >= n
    OBVIOUS
  <2> QED BY <2>1 DEF Max
<1> QED BY <1>2, <1>5, <1>6 DEF ok_hold_s

\* Storing a reading loses less than a second of it.
LEMMA ToIsoBounds == \A t \in Nat : to_iso(t) <= t /\ t < to_iso(t) + ISO_S
<1> SUFFICES ASSUME NEW t \in Nat
             PROVE  t - (t % ISO_S) <= t /\ t < t - (t % ISO_S) + ISO_S
  BY DEF to_iso
<1>1. t % ISO_S \in 0..(ISO_S - 1)
  BY DurationAssumption
<1> QED BY <1>1, DurationAssumption

\* An OK verdict opens no episode, and leaves one open only within its hold.
LEMMA OkWithinHold ==
    ASSUME NEW j \in Jobs, row[j] \in Row, ShapedRow(row[j]), NEW v, v[j] \in Verdict,
           NEW changes, NEW now \in Nat, v[j].state = "OK",
           resolve_alerts(j, v, changes, now).ep.bad_since # None
    PROVE  /\ row[j].bad_since # None
           /\ ok_held_s(row[j].state, row[j].since, now) < ok_hold_s(j)
<1> DEFINE e == healed_episode(row[j], now)
           held == ok_held_s(row[j].state, row[j].since, now)
           about == about_of(j, changes[j])
           out == resolve_alerts(j, v, changes, now)
<1>1. NoEpisode.bad_since = None
  BY DEF NoEpisode
<1>2. e.bad_since # None
  <2>1. CASE e.bad_since = None
    <3>1. out = Unmoved(e)
      BY <2>1 DEF resolve_alerts, ALERTABLE_STATES
    <3> QED BY <3>1, <2>1 DEF Unmoved
  <2> QED BY <2>1
<1>3. row[j].bad_since # None
  BY <1>1, <1>2 DEF healed_episode
<1>4. out = resolve_ok(j, e, v, changes, now)
  BY <1>2 DEF resolve_alerts, ALERTABLE_STATES
<1>5. held \in Nat
  BY DEF ok_held_s, Row, Time
<1>6. CASE holding(v[j], about)
  <2>1. ~(held < ok_hold_s(j)) => out.ep = NoEpisode
    <3> HIDE DEF e
    <3> QED BY <1>4, <1>6 DEF resolve_ok
  <2> QED BY <2>1, <1>1, <1>3
<1>7. CASE ~holding(v[j], about)
  <2>1. ~(held < ok_dwell_s(j)) => out.ep = NoEpisode
    <3> HIDE DEF e
    <3> QED BY <1>4, <1>7 DEF resolve_ok
  <2>2. held < ok_dwell_s(j)
    BY <2>1, <1>1
  <2> HIDE DEF held
  <2> QED BY <2>2, <1>3, <1>5, HoldBounds DEF held
<1> QED BY <1>6, <1>7

\* How far the scheduler's reading may be ahead of the start of an OK that
\* still keeps its episode: a hold, and one more tick while a pass is due.
Slack(j) == ok_hold_s(j) + (IF pc[SCHEDULER] = "begin" THEN TICK_GAP ELSE 0)

\* Readings are not ahead of the clock nor too far behind it, a ping is one
\* pass, and every OK that keeps an episode is young.
EInv ==
    /\ IInv
    /\ clock <= read[SCHEDULER] + TICK_GAP
    /\ \A t \in Threads : read[t] <= clock
    /\ \A t \in Threads \ {SCHEDULER} :
          /\ pc[t] = "begin" => todo[t] = <<"ping">> /\ clock <= read[t] + READING_AGE
          /\ pc[t] \in {"post", "give_back"} => todo[t] = <<>>
    /\ \A j \in Jobs : row[j].state = "OK" /\ row[j].bad_since # None =>
          read[SCHEDULER] < row[j].since + Slack(j)

\* The clock is not stepped back, the process does not die, its passes commit
\* and a hold is longer than a reading can be old when its pass commits (half an hour
\* against the ten seconds a transaction waits for its lock).
SteadyClock ==
    /\ Faults \cap {"clock_back", "restart", "pass_fails"} = {}
    /\ \A j \in Jobs : ISO_S + READING_AGE <= ok_hold_s(j)

\* What a committed pass leaves of a job that reads OK with its episode open.
LEMMA PassKeepsYoungOk ==
    ASSUME IInv, NEW t \in Threads, RecomputePass(t), NEW j \in Jobs,
           row'[j].state = "OK", row'[j].bad_since # None
    PROVE  /\ row[j].bad_since # None
           /\ row[j].state = "OK" =>
                 /\ row'[j].since = row[j].since
                 /\ \/ pass_clock(t) < row[j].since
                    \/ pass_clock(t) - row[j].since < ok_hold_s(j)
           /\ row[j].state # "OK" => row'[j].since = to_iso(pass_clock(t))
<1> DEFINE now == pass_clock(t)
<1>1. now \in Nat
  BY DEF pass_clock, IInv, TypeOK
<1>2. PICK v \in [Jobs -> UNION {Verdicts[k] : k \in Jobs}] :
        LET changes == [k \in Jobs |-> set_state(k, v, now)]
            out == [k \in Jobs |-> resolve_alerts(k, v, changes, now)]
        IN  /\ \A k \in Jobs : v[k] \in Verdicts[k]
            /\ row' = [k \in Jobs |-> row_after(k, v, out[k], now)]
  BY DEF RecomputePass
<1> DEFINE changes == [k \in Jobs |-> set_state(k, v, now)]
           out == resolve_alerts(j, v, changes, now)
<1> HIDE DEF now
<1>3. row'[j] = row_after(j, v, out, now)
  BY <1>2
<1> HIDE DEF changes
<1>4. v[j] \in Verdict /\ row[j] \in Row /\ ShapedRow(row[j])
  BY <1>2, ThreadAssumption DEF IInv, TypeOK, EpisodeShape
<1>5. /\ v[j].state = "OK" /\ out.ep.bad_since # None
      /\ row'[j].since = since_after(j, v, now)
  <2> HIDE DEF out
  <2> QED BY <1>3 DEF row_after
<1>6. row[j].bad_since # None /\ ok_held_s(row[j].state, row[j].since, now) < ok_hold_s(j)
  <2>1. resolve_alerts(j, v, changes, now).ep.bad_since # None
    BY <1>5
  <2> QED BY <2>1, <1>1, <1>4, <1>5, OkWithinHold
<1>7. CASE row[j].state = "OK"
  <2>1. row[j].since \in Nat /\ row[j].since # None
    BY <1>4, NoneAssumption DEF Row, Time
  <2>2. row'[j].since = row[j].since
    BY <1>5, <1>7 DEF since_after
  <2>3. now < row[j].since \/ now - row[j].since < ok_hold_s(j)
    BY <1>1, <1>6, <1>7, <2>1 DEF ok_held_s
  <2> QED BY <1>6, <1>7, <2>2, <2>3 DEF now
<1>8. CASE row[j].state # "OK"
  BY <1>5, <1>6, <1>8 DEF since_after, now
<1> QED BY <1>7, <1>8

\* A fresh process has no episode that reads OK.
LEMMA InitEInv == Init => EInv
<1> SUFFICES ASSUME Init PROVE EInv
  OBVIOUS
<1>1. IInv
  BY InitIInv
<1>2. ASSUME NEW j \in Jobs PROVE row[j].state # "OK"
  <2>1. row[j] \in InitialRows(j)
    BY DEF Init
  <2>2. CASE row[j] = FreshRow
    BY <2>2 DEF FreshRow
  <2>3. CASE row[j] # FreshRow
    <3>1. PICK w, p : row[j] = UpgradedRow(w.state, p) /\ w.state \in ALERTABLE_STATES
      BY <2>1, <2>3 DEF InitialRows
    <3>2. row[j].state = w.state
      BY <3>1 DEF UpgradedRow, FreshRow
    <3> QED BY <3>1, <3>2 DEF ALERTABLE_STATES
  <2> QED BY <2>2, <2>3
<1>3. clock = 0 /\ \A t \in Threads : read[t] = 0 /\ pc[t] = "idle"
  BY DEF Init
<1> QED BY <1>1, <1>2, <1>3, ThreadAssumption DEF EInv

\* A committed pass: the scheduler's own is as new as its reading, a ping's
\* at most READING_AGE older than the clock.
LEMMA RecomputeEInv ==
    ASSUME EInv, SteadyClock, NEW t \in Threads, RecomputePass(t)
    PROVE  EInv'
<1>1. IInv'
  BY RecomputeIInv DEF EInv
<1> DEFINE now == pass_clock(t)
<1>2. /\ clock' = clock /\ read' = read /\ clock \in Nat /\ TICK_GAP \in Nat
      /\ READING_AGE \in Nat /\ ISO_S \in Nat
      /\ \A u \in Threads : read[u] \in Nat /\ read[u] <= clock
      /\ SCHEDULER \in Threads
  BY ThreadAssumption, DurationAssumption DEF RecomputePass, EInv, IInv, TypeOK
<1>3. /\ todo' = [todo EXCEPT ![t] = Tail(todo[t])]
      /\ pc[t] = "begin"
      /\ \A u \in Threads : u # t => pc'[u] = pc[u] /\ todo'[u] = todo[u]
      /\ todo'[t] = Tail(todo[t])
      /\ pc'[t] \in {"post", after_pass(t, Tail(todo[t]))}
  BY DEF RecomputePass, EInv, IInv, TypeOK
<1>4. ASSUME NEW u \in Threads \ {SCHEDULER}
      PROVE  /\ pc'[u] = "begin" => todo'[u] = <<"ping">> /\ clock' <= read'[u] + READING_AGE
             /\ pc'[u] \in {"post", "give_back"} => todo'[u] = <<>>
  <2>1. CASE u # t
    BY <1>2, <1>3, <2>1 DEF EInv
  <2>2. CASE u = t
    <3>1. todo[t] = <<"ping">>
      BY <2>2, <1>3 DEF EInv
    <3>2. Tail(todo[t]) = <<>>
      <4>1. <<"ping">> \in Seq({"ping"}) /\ Len(<<"ping">>) = 1
        OBVIOUS
      <4>2. Tail(<<"ping">>) \in Seq({"ping"}) /\ Len(Tail(<<"ping">>)) = 0
        BY <4>1, HeadTailProperties, EmptySeq
      <4> QED BY <3>1, <4>2, EmptySeq
    <3> QED BY <2>2, <3>2, <1>3 DEF after_pass
  <2> QED BY <2>1, <2>2
<1>5. now \in Nat /\ (t = SCHEDULER => read[SCHEDULER] <= now)
      /\ (t # SCHEDULER => clock <= now + READING_AGE)
  <2>1. CASE t = SCHEDULER
    BY <2>1, <1>2 DEF pass_clock
  <2>2. CASE t # SCHEDULER
    <3>1. todo[t] = <<"ping">> /\ clock <= read[t] + READING_AGE
      BY <2>2, <1>3 DEF EInv
    <3> QED BY <2>2, <3>1, <1>2 DEF pass_clock
  <2> QED BY <2>1, <2>2
<1> HIDE DEF now
<1>6. to_iso(now) \in Nat /\ now < to_iso(now) + ISO_S
  BY <1>5, ToIsoType, ToIsoBounds
<1>7. ASSUME NEW j \in Jobs, row'[j].state = "OK", row'[j].bad_since # None
      PROVE  read'[SCHEDULER] < row'[j].since + Slack(j)'
  <2>1. ok_hold_s(j) \in Nat /\ ISO_S + READING_AGE <= ok_hold_s(j)
    BY HoldBounds DEF SteadyClock
  <2>2. row[j].since \in Nat
    BY DEF EInv, IInv, TypeOK, Row, Time
  <2>3. /\ row[j].bad_since # None
        /\ row[j].state = "OK" => /\ row'[j].since = row[j].since
                                  /\ now < row[j].since \/ now - row[j].since < ok_hold_s(j)
        /\ row[j].state # "OK" => row'[j].since = to_iso(now)
    BY <1>7, PassKeepsYoungOk DEF EInv, now
  <2>4. Slack(j)' = ok_hold_s(j) + (IF pc'[SCHEDULER] = "begin" THEN TICK_GAP ELSE 0)
    BY DEF Slack
  <2>5. CASE row[j].state # "OK"
    <3>1. read[SCHEDULER] <= now + READING_AGE
      BY <1>2, <1>5
    <3>2. read[SCHEDULER] < to_iso(now) + ok_hold_s(j)
      BY <1>2, <1>5, <1>6, <2>1, <3>1
    <3>3. ok_hold_s(j) <= Slack(j)' /\ Slack(j)' \in Nat
      BY <1>2, <2>1, <2>4
    <3>4. row'[j].since = to_iso(now)
      BY <2>3, <2>5
    <3> QED BY <1>2, <1>6, <2>1, <3>2, <3>3, <3>4
  <2>6. CASE row[j].state = "OK" /\ t = SCHEDULER
    <3>1. read[SCHEDULER] <= now /\ row'[j].since = row[j].since
      BY <1>5, <2>3, <2>6
    <3>2. read[SCHEDULER] < row[j].since + ok_hold_s(j)
      BY <1>2, <1>5, <2>1, <2>2, <2>3, <2>6, <3>1
    <3>3. ok_hold_s(j) <= Slack(j)' /\ Slack(j)' \in Nat
      BY <1>2, <2>1, <2>4
    <3> QED BY <1>2, <2>1, <2>2, <3>1, <3>2, <3>3
  <2>7. CASE row[j].state = "OK" /\ t # SCHEDULER
    <3>1. Slack(j)' = Slack(j)
      BY <1>2, <1>3, <2>4, <2>7 DEF Slack
    <3>2. read[SCHEDULER] < row[j].since + Slack(j)
      BY <2>3, <2>7 DEF EInv
    <3> QED BY <1>2, <2>3, <2>7, <3>1, <3>2
  <2> QED BY <2>5, <2>6, <2>7
<1> QED BY <1>1, <1>2, <1>4, <1>7 DEF EInv

\* Sending and handing back move neither the state nor the episode's start.
LEMMA SettleEInv ==
    ASSUME EInv, NEW t \in Threads, pc[t] \in {"post", "give_back"}, IInv',
           UNCHANGED <<clock, read, todo>>,
           \A u \in Threads : u # t => pc'[u] = pc[u],
           pc'[t] \in {"post", "give_back", after_pass(t, todo[t])},
           \A j \in Jobs : /\ row'[j].state = row[j].state
                           /\ row'[j].since = row[j].since
                           /\ row'[j].bad_since = row[j].bad_since
    PROVE  EInv'
<1>1. /\ TICK_GAP \in Nat /\ SCHEDULER \in Threads
      /\ read[SCHEDULER] \in Nat
  BY ThreadAssumption DEF EInv, IInv, TypeOK
<1>2. ASSUME NEW u \in Threads \ {SCHEDULER}
      PROVE  /\ pc'[u] = "begin" => todo'[u] = <<"ping">> /\ clock' <= read'[u] + READING_AGE
             /\ pc'[u] \in {"post", "give_back"} => todo'[u] = <<>>
  <2>1. CASE u # t
    BY <2>1 DEF EInv
  <2>2. CASE u = t
    BY <2>2 DEF EInv, after_pass
  <2> QED BY <2>1, <2>2
<1>3. ASSUME NEW j \in Jobs, row'[j].state = "OK", row'[j].bad_since # None
      PROVE  read'[SCHEDULER] < row'[j].since + Slack(j)'
  <2>1. ok_hold_s(j) \in Nat /\ row[j].since \in Nat
    BY HoldBounds DEF EInv, IInv, TypeOK, Row, Time
  <2>2. read[SCHEDULER] < row[j].since + Slack(j)
    BY <1>3 DEF EInv
  <2>3. Slack(j) <= Slack(j)' /\ Slack(j) \in Nat /\ Slack(j)' \in Nat
    BY <1>1, <2>1 DEF Slack
  <2> QED BY <1>1, <2>1, <2>2, <2>3
<1> QED BY <1>2, <1>3 DEF EInv

\* Every step under a steady clock.
LEMMA NextEInv == ASSUME SteadyClock PROVE EInv /\ [Next]_vars => EInv'
<1> SUFFICES ASSUME EInv, [Next]_vars PROVE EInv'
  OBVIOUS
<1>1. IInv' /\ IInv
  BY NextIInv DEF EInv
<1>2. /\ TICK_GAP \in Nat /\ READING_AGE \in Nat /\ SCHEDULER \in Threads /\ clock \in Nat
      /\ \A u \in Threads : read[u] \in Nat
  BY <1>1, ThreadAssumption DEF IInv, TypeOK
<1>3. CASE UNCHANGED vars
  BY <1>1, <1>3 DEF EInv, vars, thread, Slack
<1>4. ASSUME NEW t \in Threads, Enter(t) PROVE EInv'
  <2>1. /\ clock' = clock /\ row' = row
        /\ read'[t] = clock /\ pc'[t] = "begin" /\ pc[t] = "idle"
        /\ \A u \in Threads : u # t => /\ read'[u] = read[u] /\ pc'[u] = pc[u]
                                       /\ todo'[u] = todo[u]
        /\ t # SCHEDULER => todo'[t] = <<"ping">>
    BY <1>1, <1>4 DEF Enter, IInv, TypeOK
  <2>2. ASSUME NEW u \in Threads \ {SCHEDULER}
        PROVE  /\ pc'[u] = "begin" => todo'[u] = <<"ping">> /\ clock' <= read'[u] + READING_AGE
               /\ pc'[u] \in {"post", "give_back"} => todo'[u] = <<>>
    BY <1>2, <2>1 DEF EInv
  <2>3. ASSUME NEW j \in Jobs, row[j].state = "OK", row[j].bad_since # None
        PROVE  read'[SCHEDULER] < row[j].since + Slack(j)'
    <3>1. ok_hold_s(j) \in Nat /\ row[j].since \in Nat
      BY <1>1, HoldBounds DEF IInv, TypeOK, Row, Time
    <3>2. read[SCHEDULER] < row[j].since + Slack(j)
      BY <2>3 DEF EInv
    <3>3. CASE t = SCHEDULER
      <4>1. Slack(j) = ok_hold_s(j) /\ Slack(j)' = ok_hold_s(j) + TICK_GAP
        BY <2>1, <3>1, <3>3 DEF Slack
      <4>2. clock <= read[SCHEDULER] + TICK_GAP
        BY DEF EInv
      <4> QED BY <1>2, <2>1, <3>1, <3>2, <3>3, <4>1, <4>2
    <3>4. CASE t # SCHEDULER
      <4>1. Slack(j)' = Slack(j) /\ read'[SCHEDULER] = read[SCHEDULER]
        BY <1>2, <2>1, <3>4 DEF Slack
      <4> QED BY <3>2, <4>1
    <3> QED BY <3>3, <3>4
  <2>4. /\ clock' <= read'[SCHEDULER] + TICK_GAP
        /\ \A u \in Threads : read'[u] <= clock'
    BY <1>2, <2>1 DEF EInv
  <2> QED BY <1>1, <2>1, <2>2, <2>3, <2>4 DEF EInv
<1>5. ASSUME NEW t \in Threads, RecomputePass(t) PROVE EInv'
  BY <1>5, RecomputeEInv
<1>6. ASSUME NEW t \in Threads, Dispatch(t) PROVE EInv'
  <2>1. /\ pc[t] = "post" /\ UNCHANGED <<clock, read, todo, row>>
        /\ \A u \in Threads : u # t => pc'[u] = pc[u]
        /\ pc'[t] \in {"post", "give_back", after_pass(t, todo[t])}
    BY <1>1, <1>6 DEF Dispatch, IInv, TypeOK
  <2> QED BY <1>1, <2>1, SettleEInv
<1>7. ASSUME NEW t \in Threads, ReturnUnsentPages(t) PROVE EInv'
  <2>1. /\ pc[t] = "give_back" /\ UNCHANGED <<clock, read, todo>>
        /\ \A u \in Threads : u # t => pc'[u] = pc[u]
        /\ pc'[t] \in {"post", "give_back", after_pass(t, todo[t])}
    BY <1>1, <1>7 DEF ReturnUnsentPages, IInv, TypeOK
  <2>2. ASSUME NEW j \in Jobs
        PROVE  /\ row'[j].state = row[j].state /\ row'[j].since = row[j].since
               /\ row'[j].bad_since = row[j].bad_since
    <3>1. row'[j] = row[j] \/ \E i : row'[j] = row_given_back(row[j], i)
      BY <1>7 DEF ReturnUnsentPages
    <3>2. row[j] \in Row
      BY <1>1 DEF IInv, TypeOK
    <3> QED BY <3>1, <3>2 DEF row_given_back, Row
  <2> QED BY <1>1, <2>1, <2>2, SettleEInv
<1>8. ASSUME NEW t \in Threads, ReturnUnsentFails(t) PROVE EInv'
  <2>1. /\ pc[t] = "give_back" /\ UNCHANGED <<clock, read, todo, row>>
        /\ \A u \in Threads : u # t => pc'[u] = pc[u]
        /\ pc'[t] \in {"post", "give_back", after_pass(t, todo[t])}
    BY <1>1, <1>8 DEF ReturnUnsentFails, IInv, TypeOK
  <2> QED BY <1>1, <2>1, SettleEInv
<1>9. CASE Advance
  <2>1. /\ clock' = clock + 1 /\ UNCHANGED <<row, pc, read, todo>>
        /\ clock - read[SCHEDULER] < TICK_GAP
        /\ \A u \in Threads : pc[u] = "begin" => clock - read[u] < READING_AGE
    BY <1>9 DEF Advance, thread
  <2>2. \A u \in Threads : pc[u] = "begin" => clock' <= read'[u] + READING_AGE
    BY <1>2, <2>1
  <2>3. /\ clock' <= read'[SCHEDULER] + TICK_GAP
        /\ \A u \in Threads : read'[u] <= clock'
    BY <1>2, <2>1 DEF EInv
  <2>4. \A j \in Jobs : Slack(j)' = Slack(j)
    BY <2>1 DEF Slack
  <2> QED BY <1>1, <2>1, <2>2, <2>3, <2>4 DEF EInv
<1>10. ~ClockBack /\ ~Restart /\ \A t \in Threads : ~RecomputeFails(t)
  BY DEF SteadyClock, ClockBack, Restart, RecomputeFails
<1> QED BY <1>3, <1>4, <1>5, <1>6, <1>7, <1>8, <1>9, <1>10 DEF Next

\* However unverifiable its OK and whatever the pings, failed POSTs and
\* failed hand-backs, an episode is over two ticks after its hold: the next
\* pass of the scheduler ends it, for every registry and every number of
\* threads, while the process lives, its passes commit and its clock is not
\* stepped back.
THEOREM EpisodesAlwaysEnd == ASSUME SteadyClock PROVE Spec => []EpisodesEnd
<1>1. EInv => EpisodesEnd
  <2> SUFFICES ASSUME EInv, NEW j \in Jobs, row[j].state = "OK", row[j].bad_since # None
               PROVE  clock < row[j].since + ok_hold_s(j) + 2 * TICK_GAP
    <3>1. ASSUME EInv, NEW j \in Jobs PROVE /\ row[j].since \in Nat /\ ok_hold_s(j) \in Nat
                                           /\ TICK_GAP \in Nat /\ clock \in Nat
      BY <3>1, HoldBounds, ThreadAssumption DEF EInv, IInv, TypeOK, Row, Time
    <3> QED BY <3>1 DEF EpisodesEnd
  <2>1. /\ row[j].since \in Nat /\ ok_hold_s(j) \in Nat /\ TICK_GAP \in Nat
        /\ clock \in Nat /\ read[SCHEDULER] \in Nat
    BY HoldBounds, ThreadAssumption DEF EInv, IInv, TypeOK, Row, Time
  <2>2. clock <= read[SCHEDULER] + TICK_GAP /\ read[SCHEDULER] < row[j].since + Slack(j)
    BY DEF EInv
  <2>3. Slack(j) \in Nat /\ Slack(j) <= ok_hold_s(j) + TICK_GAP
    BY <2>1 DEF Slack
  <2> QED BY <2>1, <2>2, <2>3
<1> QED BY InitEInv, NextEInv, <1>1, PTL DEF Spec

-----------------------------------------------------------------------------
(* No episode that crossed its bar ends unpaged                            *)

\* Core._page: an unpaged episode that ran its threshold, with nothing to
\* hold the page back, is paged for, whatever state the page would be about.
LEMMA UnhinderedPages ==
    ASSUME NEW j \in Jobs, row[j] \in Row, attempted[j] \in Attempt,
           NEW about \in STATES, NEW v, NEW changes, NEW now \in Nat,
           Unhindered(j, now), row[j].bad_since # None, row[j].alerted_at = None,
           now - row[j].bad_since >= alert_after_s[j]
    PROVE  MayPage(j, about, healed_episode(row[j], now), v, changes, now)
<1> DEFINE e == healed_episode(row[j], now)
           rank == alert_severity(about)
<1>1. row[j].bad_since \in Nat /\ alert_after_s[j] \in Nat
  BY RegistryAssumption DEF Row, MaybeTime, Time
<1>2. /\ e.bad_since = row[j].bad_since /\ e.began = row[j].bad_since
      /\ e.alerted_at = None
  BY <1>1 DEF healed_episode
<1> HIDE DEF e
<1>3. past_bar(j, about, e.began, changes[j], now)
  BY <1>2 DEF past_bar
<1>4. ~suppressed_offline(j, about, v, changes, now)
  BY DEF Unhindered, suppressed_offline
<1>5. rank \in 0..2
  BY DEF alert_severity, ALERTABLE_STATES, HIGH_PRIORITY_STATES
<1> HIDE DEF rank
<1>6. retry_due(j, e.bad_since, rank, now)
  <2>1. CASE attempted[j].bad_since # row[j].bad_since
    BY <2>1, <1>2 DEF retry_due
  <2>2. CASE attempted[j].bad_since = row[j].bad_since
    <3> DEFINE w == attempted[j].when[rank]
    <3>1. w = None \/ w \in Nat
      BY <1>5 DEF Attempt, MaybeTime, Time
    <3>2. w # None => now - w \notin 0..(ALERT_RETRY_MIN_S - 1)
      BY <1>5, <2>2 DEF Unhindered
    <3> HIDE DEF w
    <3>3. w = None \/ now - w >= ALERT_RETRY_MIN_S \/ now < w
      BY <3>1, <3>2, DurationAssumption
    <3> QED BY <3>3 DEF retry_due, w
  <2> QED BY <2>1, <2>2
<1>7. ~alert_never[j] /\ ~cooling(j, row[j].last_paged_at, now)
  BY DEF Unhindered
<1> QED BY <1>2, <1>3, <1>4, <1>6, <1>7 DEF MayPage, rank, e

\* The pass that finds such an episode under an OK decides its page.
LEMMA OkPassPages ==
    ASSUME NEW j \in Jobs, row[j] \in Row, ShapedRow(row[j]),
           attempted[j] \in Attempt, NEW v, v[j] \in Verdict, v[j].state = "OK",
           NEW changes, changes[j] \in Seq(Change), NEW now \in Nat,
           Unhindered(j, now), row[j].bad_since # None, row[j].alerted_at = None,
           now - row[j].bad_since >= alert_after_s[j]
    PROVE  /\ resolve_alerts(j, v, changes, now).paged
           /\ episode_at(j, now).bad_since = row[j].bad_since
<1> DEFINE e == healed_episode(row[j], now)
           about == about_of(j, changes[j])
           out == resolve_alerts(j, v, changes, now)
<1>1. about \in STATES
  BY LastNonOkType DEF about_of, Row
<1>2. e.bad_since = row[j].bad_since
  <2>1. row[j].bad_since \in Nat /\ alert_after_s[j] \in Nat
    BY RegistryAssumption DEF Row, MaybeTime, Time
  <2> QED BY <2>1 DEF healed_episode
<1>3. MayPage(j, about, e, v, changes, now)
  <2> HIDE DEF about
  <2> QED BY <1>1, UnhinderedPages
<1> HIDE DEF e
<1>4. out = resolve_ok(j, e, v, changes, now)
  BY <1>2 DEF resolve_alerts, e, ALERTABLE_STATES
<1>5. out.paged = MayPage(j, about, e, v, changes, now)
  BY <1>4 DEF resolve_ok
<1>6. episode_at(j, now).bad_since = row[j].bad_since
  BY <1>2 DEF episode_at, open_episode, e
<1> QED BY <1>3, <1>5, <1>6

\* What one step can do to an unpaged episode past its bar.
LEMMA StepNeverEndsUnpaged ==
    ASSUME IInv, [Next]_vars, NEW j \in Jobs,
           row[j].bad_since # None, row'[j].bad_since = None,
           row[j].alerted_at = None, row'[j].state = "OK",
           \A t \in Threads : pc[t] = "begin" /\ todo'[t] # todo[t] =>
                /\ Unhindered(j, pass_clock(t))
                /\ pass_clock(t) - row[j].bad_since >= alert_after_s[j]
    PROVE  \E t \in Threads : \E i \in InFlight(t, j)' :
                i.bad_since = row[j].bad_since
<1>1. CASE \E t \in Threads : RecomputePass(t)
  <2> PICK t \in Threads : RecomputePass(t)
    BY <1>1
  <2> DEFINE now == pass_clock(t)
  <2>1. now \in Nat
    BY DEF pass_clock, IInv, TypeOK
  <2>2. PICK v \in [Jobs -> UNION {Verdicts[k] : k \in Jobs}] :
          LET changes == [k \in Jobs |-> set_state(k, v, now)]
              out == [k \in Jobs |-> resolve_alerts(k, v, changes, now)]
          IN  /\ \A k \in Jobs : v[k] \in Verdicts[k]
              /\ log' = changes
              /\ row' = [k \in Jobs |-> row_after(k, v, out[k], now)]
              /\ queue' = [queue EXCEPT ![t] =
                              [k \in Jobs |-> intents_of(k, v, out[k], now)]]
    BY DEF RecomputePass
  <2>3. Unhindered(j, now) /\ now - row[j].bad_since >= alert_after_s[j]
    <3>1. todo[t] \in Seq(Passes) /\ todo[t] # <<>> /\ pc[t] = "begin"
      BY DEF IInv, TypeOK, RecomputePass
    <3>2. todo'[t] = Tail(todo[t])
      BY DEF IInv, TypeOK, RecomputePass
    <3>3. Len(Tail(todo[t])) = Len(todo[t]) - 1 /\ Len(todo[t]) \in Nat
      BY <3>1, HeadTailProperties, LenProperties
    <3>4. Tail(todo[t]) # todo[t]
      <4>1. ASSUME NEW n \in Nat PROVE n # n - 1
        OBVIOUS
      <4>2. Len(todo[t]) # Len(Tail(todo[t]))
        BY <3>3, <4>1
      <4> QED BY <4>2, Zenon
    <3>5. todo'[t] # todo[t]
      BY <3>2, <3>4
    <3> QED BY <3>1, <3>5
  <2> DEFINE changes == [k \in Jobs |-> set_state(k, v, now)]
             out == resolve_alerts(j, v, changes, now)
             q == intents_of(j, v, out, now)
  <2> HIDE DEF now
  <2>4. /\ row'[j] = row_after(j, v, out, now)
        /\ queue'[t][j] = q
        /\ changes[j] = log'[j]
    BY <2>2 DEF IInv, TypeOK
  <2>5. v[j] \in Verdict /\ row[j] \in Row /\ ShapedRow(row[j]) /\ attempted[j] \in Attempt
    BY <2>2, ThreadAssumption DEF IInv, TypeOK, EpisodeShape
  <2>6. changes[j] \in Seq(Change)
    BY <2>4, RecomputeIInv DEF IInv, TypeOK
  <2> HIDE DEF changes
  <2>7. v[j].state = "OK"
    <3> HIDE DEF out
    <3> QED BY <2>4 DEF row_after
  <2>8. out.paged /\ episode_at(j, now).bad_since = row[j].bad_since
    BY <2>1, <2>3, <2>5, <2>6, <2>7, OkPassPages
  <2> HIDE DEF out
  <2>9. HasPage(q, row[j].bad_since, to_iso(now)) /\ BelongTo(q, j, episode_at(j, now))
    BY <2>1, <2>8, IntentsStamp
  <2> HIDE DEF q
  <2>10. PICK n \in DOMAIN q : /\ q[n].kind \in PageKinds
                               /\ q[n].bad_since = row[j].bad_since
                               /\ q[n].job = j
    BY <2>9 DEF HasPage, BelongTo
  <2>11. q[n] \in InFlight(t, j)'
    BY <2>4, <2>10 DEF InFlight
  <2> QED BY <2>10, <2>11
<1>2. CASE ~\E t \in Threads : RecomputePass(t)
  <2>1. row'[j].bad_since = row[j].bad_since
    <3>1. CASE \E t \in Threads : ReturnUnsentPages(t)
      <4>1. row'[j] = row[j] \/ \E i : row'[j] = row_given_back(row[j], i)
        BY <3>1 DEF ReturnUnsentPages
      <4> QED BY <4>1 DEF row_given_back, IInv, TypeOK, Row
    <3>2. CASE ~\E t \in Threads : ReturnUnsentPages(t)
      BY <1>2, <3>2 DEF Next, vars, Enter, RecomputeFails, Dispatch, ReturnUnsentFails,
         Advance, ClockBack, Restart
    <3> QED BY <3>1, <3>2
  <2> QED BY <2>1
<1> QED BY <1>1, <1>2

\* For every registry, number of threads, set of faults and order of
\* readings: no pass ends an episode on an OK, a whole threshold after it
\* began, without a page for it, unless the page is held back.
THEOREM EpisodesNeverEndUnpaged == Spec => NeverEndsUnpaged
<1>1. ASSUME IInv, [Next]_vars
      PROVE  \A j \in Jobs :
               (/\ row[j].bad_since # None /\ row'[j].bad_since = None
                /\ row[j].alerted_at = None /\ row'[j].state = "OK"
                /\ \A t \in Threads : pc[t] = "begin" /\ todo'[t] # todo[t] =>
                      /\ Unhindered(j, pass_clock(t))
                      /\ pass_clock(t) - row[j].bad_since >= alert_after_s[j])
               => \E t \in Threads : \E i \in InFlight(t, j)' :
                     i.bad_since = row[j].bad_since
  BY <1>1, StepNeverEndsUnpaged
<1> QED BY <1>1, InitIInv, NextIInv, PTL DEF Spec, NeverEndsUnpaged

-----------------------------------------------------------------------------
(* Readings in order: the first pages of two episodes are a cooldown apart *)

WholeSeconds == {ISO_S * n : n \in Nat}

\* One thread runs the passes, its readings never go back, and neither do
\* those of one step: a probe cycle is the last pass of its step.  Cooldowns
\* are whole seconds, as jobs.yml and COOLDOWN_FLOOR_S give them.
InOrderReadings ==
    /\ Threads = {SCHEDULER} /\ "clock_back" \notin Faults
    /\ \A plan \in StepPlans : \A n \in DOMAIN plan : plan[n] = "probe" => n = Len(plan)
    /\ \A j \in Jobs : cooldown_s(j) \in WholeSeconds

\* The pages about job j that were delivered and acknowledged.
Known(j) == {p \in Delivered(j) : p.known}

\* No later pass works with an older reading.
Horizon == IF todo[SCHEDULER] # <<>> THEN read[SCHEDULER] ELSE clock

Stamped(at) == at \in WholeSeconds /\ at <= Horizon

\* A page at that time is a cooldown after the first pages of the episodes
\* of job j other than the one that began at b.
Apart(j, b, at) ==
    \A q \in Known(j) : q.kind = "alert" /\ q.bad_since # b =>
                           q.at + cooldown_s(j) <= at

RowApart(j) ==
    /\ row[j].last_paged_at # None => Stamped(row[j].last_paged_at)
    /\ row[j].alerted_at # None => /\ Stamped(row[j].alerted_at)
                                   /\ Apart(j, row[j].bad_since, row[j].alerted_at)
    /\ \A p \in Known(j) : /\ p.at \in Nat /\ row[j].last_paged_at # None
                           /\ p.at <= row[j].last_paged_at

\* A page in flight: delivered, it is apart from the known ones; returned, it
\* leaves a row that remembers them.
PageApart(j, i) ==
    /\ i.alerted_at = row[j].last_paged_at
    /\ row[j].alerted_at # None => row[j].bad_since = i.bad_since
    /\ i.prev_paged_at # None => /\ i.prev_paged_at \in WholeSeconds
                                 /\ i.prev_paged_at <= i.alerted_at
    /\ \A p \in Known(j) : /\ i.prev_paged_at # None /\ p.at <= i.prev_paged_at
                           /\ i.kind = "alert" => p.at + cooldown_s(j) <= i.alerted_at
    /\ Apart(j, i.bad_since, i.alerted_at)
    /\ i.prev_alerted_at # None => /\ i.prev_alerted_at \in WholeSeconds
                                   /\ i.prev_alerted_at <= i.alerted_at
                                   /\ Apart(j, i.bad_since, i.prev_alerted_at)

\* The thread's readings and its pages in flight, of which a job has one.
InTurn ==
    /\ read[SCHEDULER] <= clock
    /\ \A n \in DOMAIN todo[SCHEDULER] :
          todo[SCHEDULER][n] = "probe" => n = Len(todo[SCHEDULER])
    /\ pc[SCHEDULER] = "idle" => todo[SCHEDULER] = <<>>
    /\ pc[SCHEDULER] \in {"idle", "begin"} =>
          queue[SCHEDULER] = NoIntents /\ unsent[SCHEDULER] = {}
    /\ pc[SCHEDULER] = "give_back" => queue[SCHEDULER] = NoIntents
    /\ \A j \in Jobs : \A n \in DOMAIN queue[SCHEDULER][j] :
          /\ queue[SCHEDULER][j][n].job = j
          /\ queue[SCHEDULER][j][n].kind \in PageKinds =>
                n = 1 /\ \A i \in unsent[SCHEDULER] : i.job # j

CInv ==
    /\ IInv /\ InTurn /\ PagesCooldownApart
    /\ \A j \in Jobs : RowApart(j) /\ \A i \in InFlight(SCHEDULER, j) : PageApart(j, i)

\* A whole second that is past when the clock is read is past when the
\* reading has been rounded down.
LEMMA WholeSecondsKeep ==
    /\ WholeSeconds \subseteq Nat
    /\ \A t \in Nat : to_iso(t) \in WholeSeconds
    /\ \A a, b \in WholeSeconds : a + b \in WholeSeconds
    /\ \A a \in WholeSeconds, t \in Nat : a <= t => a <= to_iso(t)
<1>1. ISO_S \in Nat /\ ISO_S > 0
  BY DurationAssumption
<1>2. \A m, n \in Nat : ISO_S * n \in Nat /\ ISO_S * m + ISO_S * n = ISO_S * (m + n)
  BY <1>1
<1>3. ASSUME NEW t \in Nat
      PROVE  t \div ISO_S \in Nat /\ to_iso(t) = ISO_S * (t \div ISO_S)
  BY <1>1 DEF to_iso
<1>4. WholeSeconds \subseteq Nat
  BY <1>2 DEF WholeSeconds
<1>5. ASSUME NEW a \in WholeSeconds, NEW t \in Nat, a <= t
      PROVE  a <= to_iso(t)
  <2>1. PICK n \in Nat : a = ISO_S * n
    BY DEF WholeSeconds
  <2> DEFINE m == t \div ISO_S
  <2>2. m \in Nat /\ to_iso(t) = ISO_S * m /\ t < ISO_S * m + ISO_S
    BY <1>3, ToIsoBounds
  <2> HIDE DEF m
  <2>3. ASSUME n > m PROVE FALSE
    <3>1. PICK d \in Nat : n = (m + 1) + d
      <4>1. n - (m + 1) \in Nat
        BY <2>2, <2>3
      <4> QED BY <4>1, <2>2
    <3>2. ISO_S * n = ISO_S * m + ISO_S + ISO_S * d
      BY <3>1, <1>1, <2>2
    <3>3. ISO_S * d \in Nat /\ ISO_S * m \in Nat
      BY <1>2, <2>2
    <3> QED BY <2>1, <2>2, <3>2, <3>3, <1>5, <1>1
  <2>4. n <= m
    BY <2>2, <2>3
  <2>5. PICK d \in Nat : m = n + d
    <3>1. m - n \in Nat
      BY <2>2, <2>4
    <3> QED BY <3>1, <2>2
  <2>6. ISO_S * m = ISO_S * n + ISO_S * d
    BY <2>5, <1>2
  <2>7. ISO_S * d \in Nat /\ ISO_S * n \in Nat
    BY <1>2
  <2> QED BY <2>1, <2>2, <2>6, <2>7
<1>6. ASSUME NEW a \in WholeSeconds, NEW b \in WholeSeconds
      PROVE  a + b \in WholeSeconds
  <2>1. PICK m \in Nat, n \in Nat : a = ISO_S * m /\ b = ISO_S * n
    BY DEF WholeSeconds
  <2>2. m + n \in Nat /\ a + b = ISO_S * (m + n)
    BY <2>1, <1>2
  <2> QED BY <2>2 DEF WholeSeconds
<1>7. \A t \in Nat : to_iso(t) \in WholeSeconds
  BY <1>3 DEF WholeSeconds
<1> QED BY <1>4, <1>5, <1>6, <1>7

\* A pass pages only when MayPage says so of the episode it took up.
LEMMA PagedMayPage ==
    ASSUME NEW j \in Jobs, NEW v, v[j] \in Verdict, NEW changes, NEW now \in Nat,
           NEW out, out = resolve_alerts(j, v, changes, now)
    PROVE  out.paged => \E about : MayPage(j, about, episode_at(j, now), v, changes, now)
<1> DEFINE e0 == healed_episode(row[j], now)
           e == open_episode(e0, now)
<1>1. episode_at(j, now) = e
  BY DEF episode_at
<1> HIDE DEF e0
<1>2. CASE v[j].state \in ALERTABLE_STATES
  <2>1. out = resolve_bad(j, e0, v, changes, now)
    BY <1>2 DEF resolve_alerts, e0, ALERTABLE_STATES
  <2>2. out.paged = MayPage(j, v[j].state, e, v, changes, now)
    BY <2>1 DEF resolve_bad
  <2> HIDE DEF e
  <2> QED BY <1>1, <2>2
<1>3. CASE v[j].state = "OK" /\ e0.bad_since # None
  <2>1. out = resolve_ok(j, e0, v, changes, now)
    BY <1>3 DEF resolve_alerts, e0, ALERTABLE_STATES
  <2>2. out.paged = MayPage(j, about_of(j, changes[j]), e0, v, changes, now)
    BY <2>1 DEF resolve_ok
  <2>3. e = e0
    BY <1>3 DEF open_episode
  <2> HIDE DEF e
  <2> QED BY <1>1, <2>2, <2>3
<1>4. CASE v[j].state = "OK" /\ e0.bad_since = None
  <2>1. out = Unmoved(e0)
    BY <1>4 DEF resolve_alerts, e0, ALERTABLE_STATES
  <2> QED BY <2>1 DEF Unmoved
<1>5. CASE v[j].state \notin ALERTABLE_STATES \cup {"OK"}
  <2>1. out = Unmoved(NoEpisode)
    BY <1>5 DEF resolve_alerts
  <2> QED BY <2>1 DEF Unmoved
<1> QED BY <1>2, <1>3, <1>4, <1>5

\* The page of a pass is its first intent, and remembers what the row said.
LEMMA IntentsPage ==
    ASSUME NEW j \in Jobs, NEW v, NEW out, NEW now \in Nat,
           NEW n \in DOMAIN intents_of(j, v, out, now),
           intents_of(j, v, out, now)[n].kind \in PageKinds
    PROVE  LET i == intents_of(j, v, out, now)[n]
               e == episode_at(j, now)
           IN  /\ n = 1 /\ out.paged
               /\ i.alerted_at = to_iso(now) /\ i.bad_since = e.bad_since
               /\ i.prev_paged_at = row[j].last_paged_at
               /\ i.prev_alerted_at = e.alerted_at
               /\ i.prev_alerted_state = e.alerted_state /\ i.state = out.about
               /\ (i.kind = "alert") = (e.alerted_at = None)
<1> DEFINE q == intents_of(j, v, out, now)
           e == episode_at(j, now)
           pg == [job |-> j, kind |-> IF e.alerted_at = None THEN "alert"
                                      ELSE "escalation",
                  state |-> out.about, bad_since |-> e.bad_since,
                  alerted_at |-> to_iso(now),
                  prev_paged_at |-> row[j].last_paged_at,
                  prev_alerted_at |-> e.alerted_at,
                  prev_alerted_state |-> e.alerted_state]
           named == IF out.paged THEN out.about
                    ELSE IF e.alerted_state # None THEN e.alerted_state
                    ELSE out.about
           rc == [job |-> j, kind |-> "recovery", state |-> named,
                  bad_since |-> None, alerted_at |-> None,
                  prev_paged_at |-> None, prev_alerted_at |-> None,
                  prev_alerted_state |-> None]
<1>1. q = (IF out.paged THEN <<pg>> ELSE <<>>) \o (IF out.recovers THEN <<rc>> ELSE <<>>)
  BY DEF intents_of
<1>2. /\ pg.kind \in PageKinds /\ pg.bad_since = e.bad_since
      /\ pg.alerted_at = to_iso(now) /\ pg.prev_alerted_at = e.alerted_at
      /\ pg.prev_paged_at = row[j].last_paged_at
      /\ pg.prev_alerted_state = e.alerted_state /\ pg.state = out.about
      /\ (pg.kind = "alert") = (e.alerted_at = None)
      /\ rc.kind \notin PageKinds
  BY DEF PageKinds
<1>3. n \in DOMAIN q /\ q[n].kind \in PageKinds
  OBVIOUS
<1> HIDE DEF pg, rc, q, e
<1>4. CASE out.paged /\ out.recovers
  <2>1. DOMAIN q = 1..2 /\ q[1] = pg /\ q[2] = rc
    <3>1. q = <<pg>> \o <<rc>>
      BY <1>1, <1>4
    <3>2. <<pg>> \in Seq({pg, rc}) /\ <<rc>> \in Seq({pg, rc})
      OBVIOUS
    <3>3. /\ q \in Seq({pg, rc}) /\ Len(q) = Len(<<pg>>) + Len(<<rc>>)
          /\ \A k \in 1..Len(q) : q[k] = IF k <= Len(<<pg>>) THEN <<pg>>[k]
                                         ELSE <<rc>>[k - Len(<<pg>>)]
      BY <3>1, <3>2, ConcatProperties
    <3>4. Len(<<pg>>) = 1 /\ Len(<<rc>>) = 1 /\ <<pg>>[1] = pg /\ <<rc>>[1] = rc
      OBVIOUS
    <3>5. DOMAIN q = 1..Len(q)
      BY <3>3, LenProperties
    <3> QED BY <3>3, <3>4, <3>5
  <2> QED BY <1>2, <1>3, <1>4, <2>1 DEF q, e
<1>5. CASE out.paged /\ ~out.recovers
  <2>1. q = <<pg>>
    BY <1>1, <1>5
  <2> QED BY <1>2, <1>3, <1>5, <2>1 DEF q, e
<1>6. CASE ~out.paged /\ out.recovers
  <2>1. q = <<rc>>
    BY <1>1, <1>6
  <2> QED BY <1>2, <1>3, <1>6, <2>1
<1>7. CASE ~out.paged /\ ~out.recovers
  <2>1. q = <<>>
    BY <1>1, <1>7
  <2> QED BY <1>3, <2>1
<1> QED BY <1>4, <1>5, <1>6, <1>7

\* What a pass makes of a row whose stamps are not ahead of it.  The page it
\* decides is apart from the known ones: a first page because the cooldown of
\* last_paged_at is over, an escalation because the page it escalates was.
LEMMA PassApart ==
    ASSUME InOrderReadings, NEW j \in Jobs, row[j] \in Row, ShapedRow(row[j]),
           RowApart(j), NEW now \in Nat, Horizon <= now, Horizon \in Nat,
           NEW v, v[j] \in Verdict, NEW changes,
           NEW out, out = resolve_alerts(j, v, changes, now)
    PROVE  LET e == episode_at(j, now)
               r == row_after(j, v, out, now)
           IN  /\ r.last_paged_at = IF out.paged THEN to_iso(now) ELSE row[j].last_paged_at
               /\ row[j].last_paged_at # None => /\ row[j].last_paged_at \in WholeSeconds
                                                 /\ row[j].last_paged_at <= to_iso(now)
               /\ e.alerted_at # None => /\ e.alerted_at \in WholeSeconds
                                         /\ e.alerted_at <= to_iso(now)
                                         /\ Apart(j, e.bad_since, e.alerted_at)
               /\ r.alerted_at # None => /\ r.bad_since = e.bad_since
                                         /\ \/ out.paged /\ r.alerted_at = to_iso(now)
                                            \/ r.alerted_at = e.alerted_at
               /\ out.paged => Apart(j, e.bad_since, to_iso(now))
               /\ out.paged /\ e.alerted_at = None =>
                     \A p \in Known(j) : p.at + cooldown_s(j) <= to_iso(now)
<1> DEFINE e == episode_at(j, now)
           r == row_after(j, v, out, now)
           lp == row[j].last_paged_at
<1>1. to_iso(now) \in Nat /\ to_iso(now) \in WholeSeconds
  BY WholeSecondsKeep
<1>2. cooldown_s(j) \in WholeSeconds /\ cooldown_s(j) \in Nat
  BY WholeSecondsKeep DEF InOrderReadings
<1>3. lp # None => lp \in WholeSeconds /\ lp \in Nat /\ lp <= now /\ lp <= to_iso(now)
  <2>1. ASSUME lp # None PROVE lp \in WholeSeconds /\ lp <= Horizon
    BY <2>1 DEF RowApart, Stamped
  <2>2. ASSUME lp # None PROVE lp \in Nat /\ lp <= now
    <3>1. lp \in Nat /\ lp <= Horizon
      BY <2>1, <2>2, WholeSecondsKeep
    <3> HIDE DEF lp
    <3> QED BY <3>1
  <2> QED BY <2>1, <2>2, WholeSecondsKeep
<1>4. r.last_paged_at = IF out.paged THEN to_iso(now) ELSE lp
  <2>1. healed_paged_at(row[j], now) = lp
    BY <1>3 DEF healed_paged_at
  <2> QED BY <2>1 DEF row_after
<1>5. e.alerted_at # None => /\ e.alerted_at \in WholeSeconds
                             /\ e.alerted_at <= to_iso(now)
                             /\ Apart(j, e.bad_since, e.alerted_at)
  <2> SUFFICES ASSUME e.alerted_at # None
               PROVE  /\ e.alerted_at \in WholeSeconds /\ e.alerted_at <= to_iso(now)
                      /\ Apart(j, e.bad_since, e.alerted_at)
    OBVIOUS
  <2>1. e.alerted_at = row[j].alerted_at /\ e.bad_since = row[j].bad_since
    BY EpisodeStamp
  <2> HIDE DEF e
  <2>2. e.alerted_at \in WholeSeconds /\ e.alerted_at <= Horizon
    BY <2>1 DEF RowApart, Stamped
  <2>3. e.alerted_at <= now
    <3>1. e.alerted_at \in Nat
      BY <2>2, WholeSecondsKeep
    <3> QED BY <2>2, <3>1
  <2>4. Apart(j, e.bad_since, e.alerted_at)
    BY <2>1 DEF RowApart
  <2> QED BY <2>2, <2>3, <2>4, WholeSecondsKeep
<1>6. r.alerted_at # None => /\ r.bad_since = e.bad_since
                             /\ \/ out.paged /\ r.alerted_at = to_iso(now)
                                \/ r.alerted_at = e.alerted_at
  <2>1. r.alerted_at = out.ep.alerted_at /\ r.bad_since = out.ep.bad_since
    BY DEF row_after
  <2> HIDE DEF e, r
  <2> QED BY <2>1, ResolveStamp DEF e
<1>7. ASSUME out.paged, e.alerted_at = None, NEW p \in Known(j)
      PROVE  p.at \in Nat /\ p.at + cooldown_s(j) <= to_iso(now)
  <2>1. ~alert_never[j] /\ ~cooling(j, lp, now)
    <3>1. PICK about : MayPage(j, about, e, v, changes, now)
      BY <1>7, PagedMayPage
    <3> QED BY <3>1, <1>7 DEF MayPage
  <2>2. lp # None /\ p.at \in Nat /\ p.at <= lp
    BY DEF RowApart
  <2>3. lp + cooldown_s(j) <= now
    BY <2>1, <2>2, <1>2, <1>3 DEF cooling
  <2>4. lp + cooldown_s(j) \in WholeSeconds
    BY <1>2, <1>3, <2>2, WholeSecondsKeep
  <2>5. lp + cooldown_s(j) <= to_iso(now)
    BY <2>3, <2>4, WholeSecondsKeep
  <2> HIDE DEF lp
  <2> QED BY <2>2, <2>5, <1>1, <1>2, <1>3
<1>8. ASSUME out.paged PROVE Apart(j, e.bad_since, to_iso(now))
  <2>1. CASE e.alerted_at = None
    BY <1>7, <1>8, <2>1 DEF Apart
  <2>2. CASE e.alerted_at # None
    <3>1. e.alerted_at \in Nat /\ e.alerted_at <= to_iso(now)
      BY <1>5, <2>2, WholeSecondsKeep
    <3>2. \A q \in Known(j) : q.kind = "alert" /\ q.bad_since # e.bad_since =>
            q.at \in Nat /\ q.at + cooldown_s(j) <= e.alerted_at
      BY <1>5, <2>2 DEF Apart, RowApart
    <3> HIDE DEF e
    <3> QED BY <3>1, <3>2, <1>1, <1>2 DEF Apart
  <2> QED BY <2>1, <2>2
<1> HIDE DEF e, r, lp
<1> QED BY <1>3, <1>4, <1>5, <1>6, <1>7, <1>8 DEF e, r, lp

\* A committed pass: nothing was in flight, and what it queues is apart.
LEMMA RecomputeCInv ==
    ASSUME CInv, InOrderReadings, NEW t \in Threads, RecomputePass(t)
    PROVE  CInv'
<1> DEFINE now == pass_clock(t)
<1>1. IInv'
  BY RecomputeIInv DEF CInv
<1>2. now \in Nat
  BY DEF pass_clock, CInv, IInv, TypeOK
<1>3. PICK v \in [Jobs -> UNION {Verdicts[j] : j \in Jobs}] :
        LET changes == [j \in Jobs |-> set_state(j, v, now)]
            out == [j \in Jobs |-> resolve_alerts(j, v, changes, now)]
        IN  /\ \A j \in Jobs : v[j] \in Verdicts[j]
            /\ row' = [j \in Jobs |-> row_after(j, v, out[j], now)]
            /\ queue' = [queue EXCEPT ![t] =
                            [j \in Jobs |-> intents_of(j, v, out[j], now)]]
            /\ pc' = [pc EXCEPT ![t] = IF queue'[t] = NoIntents
                            THEN after_pass(t, Tail(todo[t])) ELSE "post"]
  BY DEF RecomputePass
<1> DEFINE changes == [j \in Jobs |-> set_state(j, v, now)]
           out == [j \in Jobs |-> resolve_alerts(j, v, changes, now)]
<1>4. /\ t = SCHEDULER /\ pc[t] = "begin" /\ todo' = [todo EXCEPT ![t] = Tail(todo[t])]
      /\ unsent' = unsent /\ sent' = sent /\ clock' = clock /\ read' = read
      /\ queue[t] = NoIntents /\ unsent[t] = {}
  BY DEF InOrderReadings, CInv, InTurn, RecomputePass
<1>5. /\ todo[t] \in Seq(Passes) /\ todo[t] # <<>> /\ todo'[t] = Tail(todo[t])
      /\ read[t] \in Nat /\ clock \in Nat /\ read[t] <= clock
  BY <1>4 DEF CInv, InTurn, IInv, TypeOK
<1>6. /\ Len(todo[t]) \in Nat \ {0} /\ DOMAIN todo[t] = 1..Len(todo[t])
      /\ todo'[t] \in Seq(Passes) /\ Len(todo'[t]) = Len(todo[t]) - 1
      /\ DOMAIN todo'[t] = 1..Len(todo'[t])
      /\ \A n \in DOMAIN todo'[t] : todo'[t][n] = todo[t][n + 1]
      /\ Head(todo[t]) = todo[t][1]
  BY <1>5, HeadTailProperties, LenProperties, EmptySeq
<1>7. \A n \in DOMAIN todo'[t] : todo'[t][n] = "probe" => n = Len(todo'[t])
  <2> SUFFICES ASSUME NEW n \in DOMAIN todo'[t], todo'[t][n] = "probe"
               PROVE  n = Len(todo'[t])
    OBVIOUS
  <2>1. n + 1 \in DOMAIN todo[t] /\ todo[t][n + 1] = "probe"
    BY <1>6
  <2>2. n + 1 = Len(todo[t])
    BY <2>1, <1>4 DEF CInv, InTurn
  <2> QED BY <2>2, <1>6
<1>8. /\ Horizon \in Nat /\ Horizon <= now
      /\ Horizon' \in Nat /\ now <= Horizon'
  <2>1. Horizon = read[t]
    BY <1>4, <1>5 DEF Horizon
  <2>2. Horizon' = IF todo'[t] # <<>> THEN read[t] ELSE clock
    BY <1>4 DEF Horizon
  <2>3. CASE Head(todo[t]) = "probe"
    <3>1. 1 = Len(todo[t])
      <4>1. 1 \in DOMAIN todo[t] /\ todo[t][1] = "probe"
        BY <2>3, <1>6
      <4> QED BY <4>1, <1>4 DEF CInv, InTurn
    <3>2. Len(todo'[t]) = 0
      BY <3>1, <1>6
    <3>3. todo'[t] = <<>>
      BY <3>2, <1>6, EmptySeq
    <3> QED BY <2>1, <2>2, <2>3, <3>3, <1>5 DEF pass_clock
  <2>4. CASE Head(todo[t]) # "probe"
    BY <2>1, <2>2, <2>4, <1>5 DEF pass_clock
  <2> QED BY <2>3, <2>4
<1> HIDE DEF now
<1>9. /\ row' = [j \in Jobs |-> row_after(j, v, out[j], now)]
      /\ queue' = [queue EXCEPT ![t] =
                      [j \in Jobs |-> intents_of(j, v, out[j], now)]]
      /\ pc' = [pc EXCEPT ![t] = IF queue'[t] = NoIntents
                      THEN after_pass(t, Tail(todo[t])) ELSE "post"]
      /\ \A j \in Jobs : out[j] = resolve_alerts(j, v, changes, now)
      /\ \A j \in Jobs : v[j] \in Verdict
  BY <1>3, ThreadAssumption
<1> HIDE DEF out, changes
<1>10. \A j \in Jobs : /\ row'[j] = row_after(j, v, out[j], now)
                       /\ queue'[t][j] = intents_of(j, v, out[j], now)
                       /\ Known(j)' = Known(j)
  BY <1>4, <1>9 DEF CInv, IInv, TypeOK, Known, Delivered
<1>11. InTurn'
  <2>1. read'[t] <= clock'
    BY <1>4, <1>5
  <2>2. /\ pc'[t] = "idle" => todo'[t] = <<>>
        /\ pc'[t] \in {"idle", "begin"} => queue'[t] = NoIntents /\ unsent'[t] = {}
        /\ pc'[t] # "give_back"
    BY <1>4, <1>5, <1>9 DEF after_pass, CInv, IInv, TypeOK
  <2>3. ASSUME NEW j \in Jobs, NEW n \in DOMAIN queue'[t][j]
        PROVE  /\ queue'[t][j][n].job = j
               /\ queue'[t][j][n].kind \in PageKinds =>
                     n = 1 /\ \A i \in unsent'[t] : i.job # j
    <3>1. BelongTo(queue'[t][j], j, episode_at(j, now))
      BY <1>2, <1>10, IntentsStamp
    <3>2. queue'[t][j][n].kind \in PageKinds => n = 1
      BY <1>2, <1>10, <2>3, IntentsPage
    <3> QED BY <2>3, <3>1, <3>2, <1>4 DEF BelongTo
  <2> QED BY <1>4, <1>7, <2>1, <2>2, <2>3 DEF InTurn
<1>12. PagesCooldownApart'
  BY <1>4 DEF CInv, PagesCooldownApart, Delivered
<1>13. ASSUME NEW j \in Jobs
       PROVE  RowApart(j)' /\ \A i \in InFlight(SCHEDULER, j)' : PageApart(j, i)'
  <2>1. PICK e : e = episode_at(j, now)
    OBVIOUS
  <2>2. PICK r : r = row'[j]
    OBVIOUS
  <2>3. PICK old : old = row[j].last_paged_at
    OBVIOUS
  <2>4. to_iso(now) \in Nat /\ to_iso(now) \in WholeSeconds /\ to_iso(now) <= Horizon'
    <3>1. to_iso(now) \in Nat /\ to_iso(now) \in WholeSeconds /\ to_iso(now) <= now
      BY <1>2, WholeSecondsKeep, ToIsoBounds
    <3> QED BY <3>1, <1>2, <1>8
  <2>5. /\ r.last_paged_at = IF out[j].paged THEN to_iso(now) ELSE old
        /\ old # None => old \in WholeSeconds /\ old <= to_iso(now)
        /\ e.alerted_at # None => /\ e.alerted_at \in WholeSeconds
                                  /\ e.alerted_at <= to_iso(now)
                                  /\ Apart(j, e.bad_since, e.alerted_at)
        /\ r.alerted_at # None => /\ r.bad_since = e.bad_since
                                  /\ \/ out[j].paged /\ r.alerted_at = to_iso(now)
                                     \/ r.alerted_at = e.alerted_at
        /\ out[j].paged => Apart(j, e.bad_since, to_iso(now))
        /\ out[j].paged /\ e.alerted_at = None =>
              \A p \in Known(j) : p.at + cooldown_s(j) <= to_iso(now)
    <3>1. row[j] \in Row /\ ShapedRow(row[j]) /\ RowApart(j)
      BY DEF CInv, IInv, TypeOK, EpisodeShape
    <3> QED BY <3>1, <1>2, <1>8, <1>9, <1>10, <2>1, <2>2, <2>3, PassApart
  <2>6. \A p \in Known(j) : p.at \in Nat /\ old # None /\ p.at <= old
    BY <2>3 DEF CInv, RowApart
  <2>7. \A at \in WholeSeconds : at \in Nat
    BY WholeSecondsKeep
  <2>8. \A at \in WholeSeconds : at <= to_iso(now) => at <= Horizon'
    BY <2>4, <2>7, <1>8
  <2>9. RowApart(j)'
    <3>1. ASSUME row'[j].last_paged_at # None
          PROVE  /\ row'[j].last_paged_at \in WholeSeconds
                 /\ row'[j].last_paged_at <= Horizon'
      BY <2>2, <2>4, <2>5, <2>8, <3>1
    <3>2. ASSUME row'[j].alerted_at # None
          PROVE  /\ row'[j].alerted_at \in WholeSeconds
                 /\ row'[j].alerted_at <= Horizon'
                 /\ Apart(j, row'[j].bad_since, row'[j].alerted_at)
      BY <2>2, <2>4, <2>5, <2>8, <3>2
    <3>3. ASSUME NEW p \in Known(j)
          PROVE  /\ p.at \in Nat /\ row'[j].last_paged_at # None
                 /\ p.at <= row'[j].last_paged_at
      <4>1. old \in Nat /\ old <= to_iso(now) /\ p.at \in Nat /\ p.at <= old
        BY <2>5, <2>6, <2>7
      <4>2. p.at <= to_iso(now) /\ to_iso(now) # None /\ old # None
        BY <4>1, <2>4, NoneAssumption
      <4> QED BY <2>2, <2>5, <4>1, <4>2
    <3> QED BY <3>1, <3>2, <3>3, <1>10 DEF RowApart, Stamped, Apart
  <2>10. ASSUME NEW i \in InFlight(SCHEDULER, j)' PROVE PageApart(j, i)'
    <3>1. /\ out[j].paged
          /\ i.alerted_at = to_iso(now) /\ i.bad_since = e.bad_since
          /\ i.prev_paged_at = old /\ i.prev_alerted_at = e.alerted_at
          /\ (i.kind = "alert") = (e.alerted_at = None)
      <4>1. PICK n \in DOMAIN queue'[t][j] : i = queue'[t][j][n] /\ i.kind \in PageKinds
        BY <1>4 DEF InFlight
      <4> QED BY <4>1, <1>2, <1>10, <2>1, <2>3, IntentsPage
    <3>2. row'[j].last_paged_at = to_iso(now)
      BY <2>2, <2>5, <3>1
    <3>3. row'[j].alerted_at # None => row'[j].bad_since = i.bad_since
      BY <2>2, <2>5, <3>1
    <3>4. i.prev_paged_at # None => /\ i.prev_paged_at \in WholeSeconds
                                    /\ i.prev_paged_at <= i.alerted_at
      BY <2>5, <3>1
    <3>5. \A p \in Known(j) : /\ i.prev_paged_at # None /\ p.at <= i.prev_paged_at
                              /\ i.kind = "alert" => p.at + cooldown_s(j) <= i.alerted_at
      BY <2>5, <2>6, <3>1
    <3>6. Apart(j, i.bad_since, i.alerted_at)
      BY <2>5, <3>1
    <3>7. i.prev_alerted_at # None => /\ i.prev_alerted_at \in WholeSeconds
                                      /\ i.prev_alerted_at <= i.alerted_at
                                      /\ Apart(j, i.bad_since, i.prev_alerted_at)
      BY <2>5, <3>1
    <3> QED BY <3>1, <3>2, <3>3, <3>4, <3>5, <3>6, <3>7, <1>10 DEF PageApart, Apart
  <2> QED BY <2>9, <2>10
<1> QED BY <1>1, <1>11, <1>12, <1>13 DEF CInv

\* A step that sends nothing, leaves the rows and takes nothing up.
LEMMA QuietCInv ==
    ASSUME CInv, IInv', InTurn', UNCHANGED <<row, sent>>, Horizon \in Nat,
           Horizon' \in Nat, Horizon <= Horizon',
           \A j \in Jobs : InFlight(SCHEDULER, j)' \subseteq InFlight(SCHEDULER, j)
    PROVE  CInv'
<1>1. PagesCooldownApart'
  BY DEF CInv, PagesCooldownApart, Delivered
<1>2. ASSUME NEW j \in Jobs PROVE Known(j)' = Known(j)
  BY DEF Known, Delivered
<1>3. \A at : Stamped(at) => at \in WholeSeconds /\ at <= Horizon'
  <2> SUFFICES ASSUME NEW at, Stamped(at) PROVE at \in WholeSeconds /\ at <= Horizon'
    OBVIOUS
  <2>1. at \in WholeSeconds /\ at \in Nat /\ at <= Horizon
    BY WholeSecondsKeep DEF Stamped
  <2> QED BY <2>1
<1>4. ASSUME NEW j \in Jobs PROVE RowApart(j)'
  <2>1. RowApart(j) /\ row'[j] = row[j]
    BY DEF CInv
  <2> QED BY <2>1, <1>2, <1>3 DEF RowApart, Stamped, Apart
<1>5. ASSUME NEW j \in Jobs, NEW i \in InFlight(SCHEDULER, j)' PROVE PageApart(j, i)'
  <2>1. PageApart(j, i) /\ row'[j] = row[j]
    BY DEF CInv
  <2> QED BY <2>1, <1>2 DEF PageApart, Apart
<1> QED BY <1>1, <1>4, <1>5 DEF CInv

\* What one more push adds to the known pages.
LEMMA KnownAppend ==
    ASSUME NEW j \in Jobs, sent[j] \in Seq(Push), NEW p \in Push,
           sent'[j] = Append(sent[j], p)
    PROVE  /\ p.kind \in PageKinds /\ p.known => Known(j)' = Known(j) \cup {p}
           /\ ~(p.kind \in PageKinds /\ p.known) => Known(j)' = Known(j)
<1>1. /\ Append(sent[j], p) \in Seq(Push)
      /\ Len(Append(sent[j], p)) = Len(sent[j]) + 1
      /\ \A i \in 1..Len(sent[j]) : Append(sent[j], p)[i] = sent[j][i]
      /\ Append(sent[j], p)[Len(sent[j]) + 1] = p
  BY AppendProperties
<1>2. /\ Len(sent[j]) \in Nat /\ DOMAIN sent[j] = 1..Len(sent[j])
      /\ DOMAIN Append(sent[j], p) = 1..Len(Append(sent[j], p))
  BY <1>1, LenProperties
<1>3. /\ \A n \in DOMAIN sent[j] : n \in DOMAIN sent'[j] /\ sent'[j][n] = sent[j][n]
      /\ \E n \in DOMAIN sent'[j] : sent'[j][n] = p
      /\ \A n \in DOMAIN sent'[j] : \/ sent'[j][n] = p
                                    \/ n \in DOMAIN sent[j] /\ sent'[j][n] = sent[j][n]
  BY <1>1, <1>2
<1>4. {sent'[j][n] : n \in DOMAIN sent'[j]} = {sent[j][n] : n \in DOMAIN sent[j]} \cup {p}
  BY <1>3
<1> QED BY <1>4 DEF Known, Delivered

\* One POST: the page that is acknowledged was apart from the known ones.
LEMMA DispatchCInv ==
    ASSUME CInv, InOrderReadings, NEW t \in Threads, Dispatch(t)
    PROVE  CInv'
<1>1. IInv'
  BY DispatchIInv DEF CInv
<1>2. PICK j \in Jobs, o \in Outcomes :
        LET i == Head(queue[t][j])
        IN  /\ is_next(t, j)
            /\ queue' = [queue EXCEPT ![t][j] = Tail(queue[t][j])]
            /\ unsent' = [unsent EXCEPT ![t] =
                  IF i.kind \in PageKinds /\ ~o.ok /\ NotifierEnabled
                  THEN @ \cup {i} ELSE @]
            /\ sent' = IF ~o.landed THEN sent
                       ELSE [sent EXCEPT ![j] = Append(@,
                          [kind |-> i.kind, state |-> i.state,
                           bad_since |-> i.bad_since, at |-> i.alerted_at,
                           known |-> o.ok])]
            /\ pc' = [pc EXCEPT ![t] =
                  IF queue'[t] # NoIntents THEN "post"
                  ELSE IF unsent'[t] # {} THEN "give_back"
                  ELSE after_pass(t, todo[t])]
  BY DEF Dispatch
<1> DEFINE q == queue[t][j]
<1>2a. PICK i : i = Head(q)
  OBVIOUS
<1> DEFINE p == [kind |-> i.kind, state |-> i.state, bad_since |-> i.bad_since,
                 at |-> i.alerted_at, known |-> o.ok]
<1>3. q \in Seq(AlertIntent) /\ q # <<>>
  BY <1>2 DEF CInv, IInv, TypeOK, is_next
<1>4. /\ i \in AlertIntent /\ i = q[1] /\ 1 \in DOMAIN q
      /\ \A n \in DOMAIN Tail(q) : /\ n + 1 \in DOMAIN q /\ n + 1 # 1
                                   /\ Tail(q)[n] = q[n + 1]
  <2>1. /\ Head(q) \in AlertIntent /\ Tail(q) \in Seq(AlertIntent)
        /\ Len(Tail(q)) = Len(q) - 1
        /\ \A n \in 1..Len(Tail(q)) : Tail(q)[n] = q[n + 1]
    BY <1>3, HeadTailProperties
  <2>2. /\ Len(q) \in Nat \ {0} /\ DOMAIN q = 1..Len(q)
        /\ DOMAIN Tail(q) = 1..Len(Tail(q)) /\ Head(q) = q[1]
    BY <1>3, <2>1, LenProperties, EmptySeq
  <2> HIDE DEF q
  <2> QED BY <1>2a, <2>1, <2>2 DEF q
<1>5. t = SCHEDULER /\ \A n \in DOMAIN q : q[n].job = j
  BY DEF InOrderReadings, CInv, InTurn
<1>6. \A n \in DOMAIN q : q[n].kind \in PageKinds =>
                             n = 1 /\ \A x \in unsent[t] : x.job # j
  BY <1>5 DEF CInv, InTurn
<1>7. o.ok \in BOOLEAN /\ (o.ok => o.landed)
  BY DEF Outcomes
<1>8. /\ row' = row /\ read' = read /\ todo' = todo /\ clock' = clock
      /\ pc[t] = "post"
  BY DEF Dispatch
<1> HIDE DEF q
<1>9. /\ queue' = [queue EXCEPT ![t] = [queue[t] EXCEPT ![j] = Tail(q)]]
      /\ unsent' = [unsent EXCEPT ![t] =
            IF i.kind \in PageKinds /\ ~o.ok /\ NotifierEnabled
            THEN unsent[t] \cup {i} ELSE unsent[t]]
      /\ sent' = IF ~o.landed THEN sent
                 ELSE [sent EXCEPT ![j] = Append(sent[j], p)]
      /\ pc' = [pc EXCEPT ![t] =
            IF queue'[t] # NoIntents THEN "post"
            ELSE IF unsent'[t] # {} THEN "give_back"
            ELSE after_pass(t, todo[t])]
  BY <1>2, <1>2a DEF q
<1>10. p \in Push
  BY <1>4, <1>7 DEF AlertIntent, Push
<1>11. /\ p.kind = i.kind /\ p.bad_since = i.bad_since /\ p.at = i.alerted_at
       /\ p.known = o.ok
  OBVIOUS
<1> HIDE DEF p
<1>12. \A k \in Jobs : queue'[t][k] = IF k = j THEN Tail(q) ELSE queue[t][k]
  BY <1>9 DEF CInv, IInv, TypeOK
<1>13. unsent'[t] = IF i.kind \in PageKinds /\ ~o.ok /\ NotifierEnabled
                    THEN unsent[t] \cup {i} ELSE unsent[t]
  BY <1>9 DEF CInv, IInv, TypeOK
<1>14. i.job = j /\ queue[t][j] = q
  BY <1>4, <1>5 DEF q
<1>15. \A k \in Jobs : InFlight(t, k)' \subseteq InFlight(t, k)
  <2> SUFFICES ASSUME NEW k \in Jobs, NEW x \in InFlight(t, k)'
               PROVE  x \in InFlight(t, k)
    OBVIOUS
  <2>1. CASE x \in unsent'[t]
    BY <2>1, <1>4, <1>13, <1>14 DEF InFlight
  <2>2. CASE x \notin unsent'[t]
    <3>1. PICK n \in DOMAIN queue'[t][k] : x = queue'[t][k][n]
      BY <2>2 DEF InFlight
    <3>2. \E m \in DOMAIN queue[t][k] : x = queue[t][k][m]
      <4>1. CASE k = j
        <5>1. queue'[t][k] = Tail(q) /\ queue[t][k] = q
          BY <4>1, <1>12, <1>14
        <5> QED BY <3>1, <5>1, <1>4
      <4>2. CASE k # j
        BY <3>1, <4>2, <1>12
      <4> QED BY <4>1, <4>2
    <3> QED BY <3>2 DEF InFlight
  <2> QED BY <2>1, <2>2
<1>16. ASSUME i.kind \in PageKinds, o.ok
       PROVE  InFlight(t, j)' = {} /\ i \in InFlight(t, j)
  <2>1. \A n \in DOMAIN queue'[t][j] : queue'[t][j][n].kind \notin PageKinds
    BY <1>4, <1>6, <1>12
  <2>2. \A x \in unsent'[t] : x.job # j
    BY <1>4, <1>6, <1>13, <1>16
  <2>3. InFlight(t, j)' = {}
    BY <2>1, <2>2 DEF InFlight
  <2> QED BY <2>3, <1>4, <1>14, <1>16 DEF InFlight
<1>17. InTurn'
  <2>1. /\ pc'[t] = "idle" => todo'[t] = <<>>
        /\ pc'[t] \in {"idle", "begin"} => queue'[t] = NoIntents /\ unsent'[t] = {}
        /\ pc'[t] = "give_back" => queue'[t] = NoIntents
    BY <1>8, <1>9 DEF after_pass, CInv, IInv, TypeOK
  <2>2. ASSUME NEW k \in Jobs, NEW n \in DOMAIN queue'[t][k]
        PROVE  /\ queue'[t][k][n].job = k
               /\ queue'[t][k][n].kind \in PageKinds =>
                     n = 1 /\ \A x \in unsent'[t] : x.job # k
    <3>1. CASE k = j
      <4>1. queue'[t][k] = Tail(q)
        BY <3>1, <1>12
      <4>2. /\ n + 1 \in DOMAIN q /\ n + 1 # 1
            /\ queue'[t][k][n] = q[n + 1]
        BY <2>2, <4>1, <1>4
      <4> QED BY <3>1, <4>2, <1>5, <1>6
    <3>2. CASE k # j
      <4>1. queue'[t][k] = queue[t][k] /\ \A x \in unsent'[t] : x \in unsent[t] \/ x.job = j
        BY <3>2, <1>12, <1>13, <1>14
      <4> QED BY <2>2, <3>2, <4>1, <1>5 DEF CInv, InTurn
    <3> QED BY <3>1, <3>2
  <2>3. /\ read'[t] <= clock'
        /\ \A n \in DOMAIN todo'[t] : todo'[t][n] = "probe" => n = Len(todo'[t])
    BY <1>5, <1>8 DEF CInv, InTurn
  <2> QED BY <1>5, <2>1, <2>2, <2>3 DEF InTurn
<1>18. Horizon' = Horizon /\ Horizon \in Nat
  BY <1>5, <1>8 DEF Horizon, CInv, IInv, TypeOK
<1>19. sent \in [Jobs -> Seq(Push)]
  BY DEF CInv, IInv, TypeOK
<1>20. \A k \in Jobs : k # j => sent'[k] = sent[k]
  BY <1>9, <1>19
<1>21. o.landed => sent'[j] = Append(sent[j], p)
  BY <1>9, <1>19
<1>22. ~o.landed => sent' = sent
  BY <1>9
<1>23. \A k \in Jobs : k # j => Known(k)' = Known(k)
  BY <1>20 DEF Known, Delivered
<1>24. /\ i.kind \in PageKinds /\ o.ok => Known(j)' = Known(j) \cup {p}
       /\ ~(i.kind \in PageKinds /\ o.ok) => Known(j)' = Known(j)
  <2>1. CASE o.landed
    <3>1. /\ p.kind \in PageKinds /\ p.known => Known(j)' = Known(j) \cup {p}
          /\ ~(p.kind \in PageKinds /\ p.known) => Known(j)' = Known(j)
      BY <2>1, <1>10, <1>19, <1>21, KnownAppend
    <3> QED BY <3>1, <1>11
  <2>2. CASE ~o.landed
    BY <2>2, <1>7, <1>22 DEF Known, Delivered
  <2> QED BY <2>1, <2>2
<1>25. ASSUME NEW k \in Jobs, Known(k)' = Known(k)
       PROVE  /\ RowApart(k)' /\ \A x \in InFlight(SCHEDULER, k)' : PageApart(k, x)'
              /\ \A a, b \in Known(k)' :
                    b.kind = "alert" /\ a.bad_since # b.bad_since /\ a.at <= b.at
                    => b.at - a.at >= cooldown_s(k)
  <2>1. RowApart(k)'
    <3>1. RowApart(k)
      BY DEF CInv
    <3> QED BY <3>1, <1>8, <1>18, <1>25 DEF RowApart, Stamped, Apart
  <2>2. ASSUME NEW x \in InFlight(SCHEDULER, k)' PROVE PageApart(k, x)'
    <3>1. PageApart(k, x)
      BY <1>5, <1>15 DEF CInv
    <3> QED BY <3>1, <1>8, <1>25 DEF PageApart, Apart
  <2>3. \A a, b \in Known(k) :
          b.kind = "alert" /\ a.bad_since # b.bad_since /\ a.at <= b.at
          => b.at - a.at >= cooldown_s(k)
    BY DEF CInv, PagesCooldownApart, Known
  <2> QED BY <2>1, <2>2, <2>3, <1>25
<1>26. ASSUME i.kind \in PageKinds, o.ok
       PROVE  /\ RowApart(j)' /\ \A x \in InFlight(SCHEDULER, j)' : PageApart(j, x)'
              /\ \A a, b \in Known(j)' :
                    b.kind = "alert" /\ a.bad_since # b.bad_since /\ a.at <= b.at
                    => b.at - a.at >= cooldown_s(j)
  <2>1. /\ Known(j)' = Known(j) \cup {p} /\ InFlight(SCHEDULER, j)' = {}
        /\ PageApart(j, i) /\ RowApart(j)
    BY <1>5, <1>16, <1>24, <1>26 DEF CInv
  <2>2. i.alerted_at \in Nat /\ i.alerted_at # None
    <3>1. i.alerted_at # None
      <4>1. ShapedIntent(i)
        BY <1>4, <1>14 DEF CInv, IInv, EpisodeShape
      <4> QED BY <4>1, <1>26 DEF ShapedIntent
    <3> QED BY <3>1, <1>4 DEF AlertIntent, MaybeTime, Time
  <2>3. cooldown_s(j) \in Nat
    BY WholeSecondsKeep DEF InOrderReadings
  <2>4. RowApart(j)'
    <3>1. /\ row'[j] = row[j] /\ i.alerted_at = row[j].last_paged_at
          /\ row[j].alerted_at # None => row[j].bad_since = i.bad_since
      BY <1>8, <2>1 DEF PageApart
    <3>2. \A a \in Known(j)' : /\ a.at \in Nat /\ row'[j].last_paged_at # None
                               /\ a.at <= row'[j].last_paged_at
      BY <1>11, <2>1, <2>2, <3>1 DEF RowApart
    <3>3. row'[j].alerted_at # None =>
            \A a \in Known(j)' : a.kind = "alert" /\ a.bad_since # row'[j].bad_since =>
                                    a.at + cooldown_s(j) <= row'[j].alerted_at
      BY <1>11, <2>1, <3>1 DEF RowApart, Apart
    <3>4. /\ row'[j].last_paged_at # None => Stamped(row'[j].last_paged_at)
          /\ row'[j].alerted_at # None => Stamped(row'[j].alerted_at)
      BY <2>1, <3>1 DEF RowApart
    <3> QED BY <3>2, <3>3, <3>4, <1>18 DEF RowApart, Stamped, Apart
  <2>5. ASSUME NEW a \in Known(j), NEW b \in Known(j)
        PROVE  b.kind = "alert" /\ a.bad_since # b.bad_since /\ a.at <= b.at
               => b.at - a.at >= cooldown_s(j)
    BY DEF CInv, PagesCooldownApart, Known
  <2>6. ASSUME NEW a \in Known(j), p.kind = "alert", a.at <= p.at
        PROVE  p.at - a.at >= cooldown_s(j)
    <3>1. a.at \in Nat /\ a.at + cooldown_s(j) <= i.alerted_at
      BY <2>1, <2>6, <1>11 DEF PageApart, RowApart
    <3> QED BY <3>1, <2>2, <2>3, <1>11
  <2>7. ASSUME NEW b \in Known(j), b.kind = "alert", p.bad_since # b.bad_since, p.at <= b.at
        PROVE  b.at - p.at >= cooldown_s(j)
    <3>1. b.at \in Nat /\ b.at + cooldown_s(j) <= i.alerted_at
      BY <2>1, <2>7, <1>11 DEF PageApart, RowApart, Apart
    <3> QED BY <3>1, <2>2, <2>3, <2>7, <1>11
  <2>8. \A a, b \in Known(j)' :
          b.kind = "alert" /\ a.bad_since # b.bad_since /\ a.at <= b.at
          => b.at - a.at >= cooldown_s(j)
    <3> SUFFICES ASSUME NEW a \in Known(j)', NEW b \in Known(j)', b.kind = "alert",
                        a.bad_since # b.bad_since, a.at <= b.at
                 PROVE  b.at - a.at >= cooldown_s(j)
      OBVIOUS
    <3>1. CASE a = p /\ b = p
      BY <3>1
    <3>2. CASE a # p /\ b = p
      BY <3>2, <2>1, <2>6
    <3>3. CASE a = p /\ b # p
      BY <3>3, <2>1, <2>7
    <3>4. CASE a # p /\ b # p
      BY <3>4, <2>1, <2>5
    <3> QED BY <3>1, <3>2, <3>3, <3>4
  <2> QED BY <2>1, <2>4, <2>8
<1>27. \A k \in Jobs :
         /\ RowApart(k)' /\ \A x \in InFlight(SCHEDULER, k)' : PageApart(k, x)'
         /\ \A a, b \in Known(k)' :
               b.kind = "alert" /\ a.bad_since # b.bad_since /\ a.at <= b.at
               => b.at - a.at >= cooldown_s(k)
  BY <1>23, <1>24, <1>25, <1>26
<1>28. PagesCooldownApart'
  BY <1>27 DEF PagesCooldownApart, Known
<1> QED BY <1>1, <1>17, <1>27, <1>28 DEF CInv

\* The hand-back leaves the stamps from before the page it takes back.
LEMMA ReturnCInv ==
    ASSUME CInv, InOrderReadings, NEW t \in Threads, ReturnUnsentPages(t)
    PROVE  CInv'
<1>1. IInv'
  BY ReturnIInv DEF CInv
<1>2. /\ t = SCHEDULER /\ queue[t] = NoIntents /\ queue' = queue /\ unsent'[t] = {}
      /\ sent' = sent /\ read' = read /\ todo' = todo /\ clock' = clock
      /\ pc'[t] = after_pass(t, todo[t])
  BY DEF InOrderReadings, CInv, InTurn, IInv, TypeOK, ReturnUnsentPages
<1>3. \A j \in Jobs : /\ queue'[t][j] = <<>> /\ InFlight(t, j)' = {}
                      /\ Known(j)' = Known(j)
  BY <1>2 DEF InFlight, NoIntents, Known, Delivered
<1>4. InTurn'
  BY <1>2, <1>3 DEF InTurn, CInv, after_pass
<1>5. PagesCooldownApart'
  BY <1>2 DEF CInv, PagesCooldownApart, Delivered
<1>6. Horizon' = Horizon /\ Horizon \in Nat
  BY <1>2 DEF Horizon, CInv, IInv, TypeOK
<1>7. ASSUME NEW j \in Jobs PROVE RowApart(j)'
  <2>1. CASE \E i \in unsent[t] : i.job = j /\ same_episode(i)
    <3>1. PICK i \in unsent[t] : i.job = j /\ same_episode(i)
                                 /\ row'[j] = row_given_back(row[j], i)
      BY <2>1 DEF ReturnUnsentPages
    <3>2. i \in InFlight(SCHEDULER, j)
      BY <1>2, <3>1 DEF InFlight, CInv, IInv, EpisodeShape
    <3>3. PageApart(j, i) /\ RowApart(j)
      BY <3>2 DEF CInv
    <3>4. /\ row'[j].last_paged_at = i.prev_paged_at
          /\ row'[j].alerted_at = i.prev_alerted_at /\ row'[j].bad_since = i.bad_since
      <4>1. row[j] \in Row
        BY DEF CInv, IInv, TypeOK
      <4> QED BY <3>1, <4>1 DEF row_given_back, same_episode, Row
    <3>5. i.alerted_at \in Nat /\ i.alerted_at <= Horizon
      <4>1. i.alerted_at = row[j].last_paged_at
        BY <3>3 DEF PageApart
      <4>2. i.alerted_at # None
        BY <3>1 DEF CInv, IInv, EpisodeShape, ShapedIntent
      <4>3. i.alerted_at \in WholeSeconds /\ i.alerted_at <= Horizon
        BY <3>3, <4>1, <4>2 DEF RowApart, Stamped
      <4> QED BY <4>3, WholeSecondsKeep
    <3>6. \A at \in WholeSeconds : at <= i.alerted_at => at <= Horizon
      <4> SUFFICES ASSUME NEW at \in WholeSeconds, at <= i.alerted_at PROVE at <= Horizon
        OBVIOUS
      <4>1. at \in Nat
        BY WholeSecondsKeep
      <4> QED BY <4>1, <3>5, <1>6
    <3>7. row'[j].last_paged_at # None => /\ row'[j].last_paged_at \in WholeSeconds
                                          /\ row'[j].last_paged_at <= Horizon
      BY <3>3, <3>4, <3>6 DEF PageApart
    <3>8. row'[j].alerted_at # None =>
            /\ row'[j].alerted_at \in WholeSeconds /\ row'[j].alerted_at <= Horizon
            /\ Apart(j, row'[j].bad_since, row'[j].alerted_at)
      BY <3>3, <3>4, <3>6 DEF PageApart
    <3>9. \A p \in Known(j) : /\ p.at \in Nat /\ row'[j].last_paged_at # None
                              /\ p.at <= row'[j].last_paged_at
      BY <3>3, <3>4 DEF PageApart, RowApart
    <3> QED BY <3>7, <3>8, <3>9, <1>3, <1>6 DEF RowApart, Stamped, Apart
  <2>2. CASE ~\E i \in unsent[t] : i.job = j /\ same_episode(i)
    <3>1. row'[j] = row[j] /\ RowApart(j)
      BY <2>2 DEF ReturnUnsentPages, CInv
    <3> QED BY <3>1, <1>3, <1>6 DEF RowApart, Stamped, Apart
  <2> QED BY <2>1, <2>2
<1> QED BY <1>1, <1>2, <1>3, <1>4, <1>5, <1>7 DEF CInv

\* Rows of an older version carry the stamp 0, of a page nobody vouches for.
LEMMA InitCInv == ASSUME InOrderReadings PROVE Init => CInv
<1> SUFFICES ASSUME Init PROVE CInv
  OBVIOUS
<1>1. IInv
  BY InitIInv
<1>2. /\ queue[SCHEDULER] = NoIntents /\ unsent[SCHEDULER] = {} /\ clock = 0
      /\ read[SCHEDULER] = 0 /\ todo[SCHEDULER] = <<>> /\ pc[SCHEDULER] = "idle"
  BY ThreadAssumption DEF Init
<1>3. \A j \in Jobs : queue[SCHEDULER][j] = <<>> /\ InFlight(SCHEDULER, j) = {}
  BY <1>2 DEF NoIntents, InFlight
<1>4. InTurn
  BY <1>2, <1>3 DEF InTurn
<1>5. Horizon = 0
  BY <1>2 DEF Horizon
<1>6. 0 \in WholeSeconds
  <2>1. ISO_S * 0 = 0
    BY DurationAssumption
  <2> QED BY <2>1 DEF WholeSeconds
<1>7. ASSUME NEW j \in Jobs PROVE Known(j) = {}
  <2>1. CASE row[j] = FreshRow
    <3>1. sent[j] = <<>>
      BY <2>1 DEF Init
    <3> QED BY <3>1 DEF Known, Delivered
  <2>2. CASE row[j] # FreshRow
    <3> DEFINE p == [kind |-> "alert", state |-> "UNKNOWN", bad_since |-> 0,
                     at |-> 0, known |-> FALSE]
    <3>1. sent[j] = <<p>> /\ ~p.known
      BY <2>2 DEF Init
    <3> HIDE DEF p
    <3>2. \A n \in DOMAIN sent[j] : sent[j][n] = p
      BY <3>1
    <3> QED BY <3>1, <3>2 DEF Known, Delivered
  <2> QED BY <2>1, <2>2
<1>8. ASSUME NEW j \in Jobs
      PROVE  row[j].last_paged_at \in {None, 0} /\ row[j].alerted_at \in {None, 0}
  <2>1. row[j] \in InitialRows(j)
    BY DEF Init
  <2>2. CASE row[j] = FreshRow
    BY <2>2 DEF FreshRow
  <2>3. CASE row[j] # FreshRow
    <3>1. PICK st, p : row[j] = UpgradedRow(st, p) /\ p \in {None, 0}
      BY <2>1, <2>3 DEF InitialRows
    <3>2. row[j] = [state |-> st, since |-> 0, bad_since |-> 0, alerted_at |-> 0,
                    alerted_state |-> None, last_paged_at |-> p]
      BY <3>1 DEF UpgradedRow, FreshRow
    <3> QED BY <3>1, <3>2
  <2> QED BY <2>2, <2>3
<1>9. PagesCooldownApart
  BY <1>7 DEF PagesCooldownApart, Known
<1>10. \A j \in Jobs : RowApart(j)
  BY <1>5, <1>6, <1>7, <1>8 DEF RowApart, Stamped, Apart
<1> QED BY <1>1, <1>3, <1>4, <1>9, <1>10 DEF CInv

\* The probe cycle that ends a plan ends what is left of it.
LEMMA TailKeepsProbeLast ==
    ASSUME NEW s \in Seq(Passes), s # <<>>, \A n \in DOMAIN s : s[n] = "probe" => n = Len(s)
    PROVE  \A n \in DOMAIN Tail(s) : Tail(s)[n] = "probe" => n = Len(Tail(s))
<1> SUFFICES ASSUME NEW n \in DOMAIN Tail(s), Tail(s)[n] = "probe" PROVE n = Len(Tail(s))
  OBVIOUS
<1>1. Len(s) \in Nat /\ Len(Tail(s)) = Len(s) - 1 /\ n \in 1..(Len(s) - 1)
  BY HeadTailProperties, LenProperties
<1>2. Tail(s)[n] = s[n + 1] /\ n + 1 \in DOMAIN s
  BY <1>1, HeadTailProperties, LenProperties
<1> QED BY <1>1, <1>2

\* Every step of one thread whose readings are in order.
LEMMA NextCInv == ASSUME InOrderReadings PROVE CInv /\ [Next]_vars => CInv'
<1> SUFFICES ASSUME CInv, [Next]_vars PROVE CInv'
  OBVIOUS
<1>1. IInv'
  BY NextIInv DEF CInv
<1>2. /\ clock \in Nat /\ read[SCHEDULER] \in Nat /\ read[SCHEDULER] <= clock
      /\ clock' \in Nat /\ read'[SCHEDULER] \in Nat
      /\ Horizon \in Nat /\ Horizon <= clock /\ Horizon' \in Nat
  BY <1>1, ThreadAssumption DEF CInv, InTurn, IInv, TypeOK, Horizon
<1>3. ASSUME NEW t \in Threads PROVE t = SCHEDULER
  BY DEF InOrderReadings
<1>4. CASE UNCHANGED vars
  <2>1. Horizon' = Horizon /\ \A j \in Jobs : InFlight(SCHEDULER, j)' = InFlight(SCHEDULER, j)
    BY <1>4 DEF vars, thread, Horizon, InFlight
  <2>2. InTurn'
    BY <1>4 DEF vars, thread, InTurn, CInv
  <2> QED BY <1>1, <1>2, <1>4, <2>1, <2>2, QuietCInv DEF vars
<1>5. ASSUME NEW t \in Threads, Enter(t) PROVE CInv'
  <2>1. /\ pc[SCHEDULER] = "idle" /\ pc'[SCHEDULER] = "begin"
        /\ todo'[SCHEDULER] \in StepPlans /\ read'[SCHEDULER] = clock
        /\ UNCHANGED <<clock, row, queue, unsent, sent>>
    BY <1>3, <1>5 DEF Enter, CInv, IInv, TypeOK
  <2>2. todo[SCHEDULER] = <<>> /\ todo'[SCHEDULER] # <<>>
    BY <2>1, ThreadAssumption DEF CInv, InTurn
  <2>3. Horizon' = clock /\ Horizon <= Horizon'
    BY <1>2, <2>1, <2>2 DEF Horizon
  <2>4. InTurn'
    BY <1>2, <2>1 DEF InOrderReadings, InTurn, CInv
  <2>5. \A j \in Jobs : InFlight(SCHEDULER, j)' = InFlight(SCHEDULER, j)
    BY <2>1 DEF InFlight
  <2> QED BY <1>1, <1>2, <2>1, <2>3, <2>4, <2>5, QuietCInv
<1>6. ASSUME NEW t \in Threads, RecomputePass(t) PROVE CInv'
  BY <1>6, RecomputeCInv
<1>6a. ASSUME NEW t \in Threads, RecomputeFails(t) PROVE CInv'
  <2>1. /\ pc[SCHEDULER] = "begin" /\ todo[SCHEDULER] # <<>> /\ todo[SCHEDULER] \in Seq(Passes)
        /\ todo'[SCHEDULER] = Tail(todo[SCHEDULER])
        /\ pc'[SCHEDULER] = after_pass(SCHEDULER, Tail(todo[SCHEDULER]))
        /\ UNCHANGED <<clock, row, read, queue, unsent, sent>>
    BY <1>3, <1>6a, FailedPass DEF CInv
  <2>2. Horizon <= Horizon'
    BY <1>2, <2>1 DEF Horizon
  <2>3. InTurn'
    <3>1. \A n \in DOMAIN todo'[SCHEDULER] :
             todo'[SCHEDULER][n] = "probe" => n = Len(todo'[SCHEDULER])
      BY <2>1, TailKeepsProbeLast DEF CInv, InTurn
    <3> QED BY <1>2, <2>1, <3>1 DEF InTurn, CInv, after_pass
  <2>4. \A j \in Jobs : InFlight(SCHEDULER, j)' = InFlight(SCHEDULER, j)
    BY <2>1 DEF InFlight
  <2> QED BY <1>1, <1>2, <2>1, <2>2, <2>3, <2>4, QuietCInv
<1>7. ASSUME NEW t \in Threads, Dispatch(t) PROVE CInv'
  BY <1>7, DispatchCInv
<1>8. ASSUME NEW t \in Threads, ReturnUnsentPages(t) PROVE CInv'
  BY <1>8, ReturnCInv
<1>9. ASSUME NEW t \in Threads, ReturnUnsentFails(t) PROVE CInv'
  <2>1. /\ pc'[SCHEDULER] = after_pass(SCHEDULER, todo[SCHEDULER])
        /\ pc[SCHEDULER] = "give_back" /\ unsent'[SCHEDULER] = {}
        /\ UNCHANGED <<clock, row, read, todo, queue, sent>>
    BY <1>3, <1>9 DEF ReturnUnsentFails, CInv, IInv, TypeOK
  <2>2. queue'[SCHEDULER] = NoIntents
    BY <2>1 DEF CInv, InTurn
  <2>3. InTurn'
    BY <2>1, <2>2 DEF InTurn, CInv, after_pass, NoIntents
  <2>4. Horizon' = Horizon /\ \A j \in Jobs : InFlight(SCHEDULER, j)' = {}
    BY <2>1, <2>2 DEF Horizon, InFlight, NoIntents
  <2> QED BY <1>1, <1>2, <2>1, <2>3, <2>4, QuietCInv
<1>10. CASE Advance
  <2>1. clock' = clock + 1 /\ UNCHANGED <<row, thread, sent>>
    BY <1>10 DEF Advance
  <2>2. Horizon <= Horizon'
    BY <1>2, <2>1 DEF Horizon, thread
  <2>3. InTurn'
    BY <1>2, <2>1 DEF InTurn, CInv, thread
  <2>4. \A j \in Jobs : InFlight(SCHEDULER, j)' = InFlight(SCHEDULER, j)
    BY <2>1 DEF InFlight, thread
  <2> QED BY <1>1, <1>2, <2>1, <2>2, <2>3, <2>4, QuietCInv
<1>11. ~ClockBack
  BY DEF InOrderReadings, ClockBack
<1>12. CASE Restart
  <2>1. /\ pc'[SCHEDULER] = "idle" /\ todo'[SCHEDULER] = <<>>
        /\ queue'[SCHEDULER] = NoIntents /\ unsent'[SCHEDULER] = {}
        /\ UNCHANGED <<clock, row, read, sent>>
    BY <1>12, ThreadAssumption DEF Restart
  <2>2. Horizon' = clock
    BY <2>1 DEF Horizon
  <2>3. InTurn'
    BY <1>2, <2>1 DEF InTurn, NoIntents
  <2>4. \A j \in Jobs : InFlight(SCHEDULER, j)' = {}
    BY <2>1 DEF InFlight, NoIntents
  <2> QED BY <1>1, <1>2, <2>1, <2>2, <2>3, <2>4, QuietCInv
<1> QED BY <1>4, <1>5, <1>6, <1>6a, <1>7, <1>8, <1>9, <1>10, <1>11, <1>12 DEF Next

\* With one thread whose readings never go back, from step to step or inside
\* one, the first page of an episode comes a whole cooldown after every
\* acknowledged page of another, whichever passes or POSTs fail, whichever answers
\* or hand-backs are lost and wherever the process dies: last_paged_at never
\* forgets a page that is known to have landed.
THEOREM CooldownHolds ==
    ASSUME InOrderReadings PROVE Spec => []PagesCooldownApart
<1>1. CInv => PagesCooldownApart
  BY DEF CInv
<1> QED BY InitCInv, NextCInv, <1>1, PTL DEF Spec

-----------------------------------------------------------------------------
(* One page per rank of an episode, and one sender per page                *)

\* A POST that may have arrived can be answered with a failure.
PostsCanFail == Faults \cap {"post_fails", "answer_lost"} # {}

OneThread ==
    /\ Threads = {SCHEDULER}
    /\ \A plan \in StepPlans : \A n \in DOMAIN plan : plan[n] = "probe" => n = Len(plan)

\* Any number of threads, whose readings are used before the clock moves on.
FreshReadings ==
    /\ READING_AGE = 0 /\ ~PostsCanFail
    /\ \A plan \in StepPlans : Len(plan) = 1

\* The clock is not stepped back and passes work with readings in order: those of one thread,
\* or of any number of them that answer at once.  An OK ends an episode only when it has lasted
\* a second, so that no two episodes of a job begin in the same one.
DistinctPages ==
    /\ "clock_back" \notin Faults
    /\ \A j \in Jobs : ISO_S <= ok_dwell_s(j)
    /\ OneThread \/ FreshReadings

\* A job that has been heard from is never again UNKNOWN: compute_state says so of a job without
\* a run, and of a disk gauge, new to the registry, whose metrics do not have the figure.
StaysHeardFrom == \A j \in Jobs : row'[j].state = "UNKNOWN" => row[j].state = "UNKNOWN"

\* The positions of the acknowledged pages, and a page in flight as the push it becomes.
KnownAt(j) == {m \in DOMAIN sent[j] : sent[j][m].kind \in PageKinds /\ sent[j][m].known}
AsPush(i) == [kind |-> i.kind, state |-> i.state, bad_since |-> i.bad_since,
              at |-> i.alerted_at, known |-> TRUE]

Escalates(p, q) ==
    /\ p.kind = "alert" /\ q.kind = "escalation"
    /\ alert_severity(q.state) > alert_severity(p.state) /\ q.at >= p.at
Ranked(p, q) == p.bad_since = q.bad_since => Escalates(p, q) \/ Escalates(q, p)

\* The stamp of a row answers for the page: it is no earlier and of no lower rank.
Covers(at, state, p) ==
    /\ at # None /\ p.at <= at
    /\ state # None /\ alert_severity(state) >= alert_severity(p.state)

\* No later episode of the job can begin at that time again.
Over(j, b) == IF row[j].bad_since = None THEN b + ISO_S <= Horizon ELSE b < row[j].bad_since

\* A page that was acknowledged, or is on its way.
Spent(j, p) ==
    /\ p.bad_since \in WholeSeconds /\ p.at \in Nat
    /\ alert_severity(p.state) >= 1 /\ (p.kind = "escalation" => alert_severity(p.state) = 2)
    /\ IF row[j].bad_since = p.bad_since THEN Covers(row[j].alerted_at, row[j].alerted_state, p)
       ELSE Over(j, p.bad_since)

\* What passes find in a row and its log.
RowInOrder(j) ==
    /\ row[j].bad_since # None => Stamped(row[j].bad_since)
    /\ row[j].alerted_at # None => Stamped(row[j].alerted_at)
    /\ row[j].alerted_state # None => alert_severity(row[j].alerted_state) >= 1
    /\ row[j].bad_since # None =>
          /\ row[j].state # "UNKNOWN" /\ \E n \in DOMAIN log[j] : log[j][n].to # "OK"
          /\ row[j].state = "OK" => row[j].bad_since <= row[j].since
    /\ row[j].bad_since = None => row[j].state \in {"OK", "UNKNOWN"}
    /\ \A n \in DOMAIN log[j] : log[j][n].to # "UNKNOWN"

\* What a hand-back puts in the row is in order, and answers for what was acknowledged.
ReturnInOrder(j, i) ==
    /\ i.alerted_at \in WholeSeconds /\ i.alerted_at <= Horizon
    /\ i.prev_alerted_at # None => /\ i.prev_alerted_at \in WholeSeconds
                                   /\ i.prev_alerted_at <= i.alerted_at
    /\ i.prev_alerted_state # None => alert_severity(i.prev_alerted_state) >= 1
    /\ PostsCanFail => \A m \in KnownAt(j) :
          sent[j][m].bad_since = i.bad_since => Covers(i.prev_alerted_at, i.prev_alerted_state, sent[j][m])

\* Each thread sends what its last pass decided, one page for a job at most.
SendersOf(t) ==
    /\ read[t] <= clock
    /\ pc[t] = "idle" => todo[t] = <<>>
    /\ pc[t] \in {"idle", "begin"} => queue[t] = NoIntents /\ unsent[t] = {}
    /\ pc[t] = "give_back" => queue[t] = NoIntents
    /\ \A j \in Jobs : \A n \in DOMAIN queue[t][j] :
          /\ queue[t][j][n].job = j
          /\ queue[t][j][n].kind \in PageKinds => n = 1 /\ \A i \in unsent[t] : i.job # j
    /\ \A i, k \in unsent[t] : i.job = k.job => i = k
    /\ ~PostsCanFail => unsent[t] = {}
Senders == \A t \in Threads : SendersOf(t)

\* Passes come in the order of their readings.
Readings ==
    \/ /\ OneThread
       /\ \A n \in DOMAIN todo[SCHEDULER] :
             todo[SCHEDULER][n] = "probe" => n = Len(todo[SCHEDULER])
    \/ /\ FreshReadings
       /\ \A t \in Threads : todo[t] # <<>> => pc[t] = "begin" /\ read[t] = clock /\ Len(todo[t]) = 1

PagesInv(j) ==
    /\ \A m, n \in KnownAt(j) : m # n => Ranked(sent[j][m], sent[j][n])
    /\ \A m \in KnownAt(j) : Spent(j, sent[j][m])
    /\ \A t \in Threads : \A i \in InFlight(t, j) :
          /\ Spent(j, AsPush(i)) /\ ReturnInOrder(j, i)
          /\ \A m \in KnownAt(j) : Ranked(AsPush(i), sent[j][m])
          /\ \A u \in Threads : \A k \in InFlight(u, j) :
                (t = u /\ i = k) \/ Ranked(AsPush(i), AsPush(k))

RInv ==
    /\ IInv /\ Senders /\ Readings
    /\ \A j \in Jobs : RowInOrder(j) /\ PagesInv(j)

\* Ranks are 0, 1 and 2, and every state that opens an episode has one above 0.
LEMMA Severity ==
    /\ \A st : alert_severity(st) \in 0..2
    /\ \A st \in ALERTABLE_STATES : alert_severity(st) >= 1
    /\ \A st \in STATES : st \notin {"OK", "UNKNOWN"} => st \in ALERTABLE_STATES
  BY DEF alert_severity, ALERTABLE_STATES, HIGH_PRIORITY_STATES, STATES

\* A log with a state other than OK has a newest one.
LEMMA LastNonOkFound ==
    ASSUME NEW c \in Seq(Change), \E n \in DOMAIN c : c[n].to # "OK"
    PROVE  \E n \in DOMAIN c : c[n].to # "OK" /\ last_non_ok_state(c) = c[n].to
<1> DEFINE bad == {i \in DOMAIN c : c[i].to # "OK"}
           ats == {c[i].at : i \in bad}
           newest == {i \in bad : \A k \in bad :
                         \/ c[k].at < c[i].at
                         \/ c[k].at = c[i].at /\ k <= i}
           n == CHOOSE i \in newest : TRUE
<1>1. DOMAIN c = 1..Len(c) /\ Len(c) \in Nat /\ \A i \in DOMAIN c : c[i] \in Change
  BY LenProperties, ElementOfSeq
<1>2. bad \subseteq Nat /\ bad # {} /\ \A i \in bad : i <= Len(c) /\ c[i].at \in Nat
  BY <1>1 DEF Change, Time
<1>3. ats \subseteq Nat /\ ats # {}
  BY <1>2
<1>4. PICK b \in Nat : \A x \in ats : x <= b
  <2>1. IsFiniteSet(1..Len(c))
    BY <1>1, FS_Interval
  <2>2. IsFiniteSet(bad)
    BY <1>1, <2>1, FS_Subset
  <2> DEFINE f == [i \in bad |-> c[i].at]
  <2>3. ats = {f[x] : x \in bad}
    OBVIOUS
  <2> HIDE DEF f, bad, ats
  <2>4. IsFiniteSet(ats)
    BY <2>2, <2>3, ImageFinite
  <2> QED BY <1>3, <2>4, FiniteBound
<1>5. PICK a \in ats : \A x \in ats : x <= a
  <2> HIDE DEF ats
  <2> QED BY <1>3, <1>4, Greatest
<1> DEFINE last == {i \in bad : c[i].at = a}
<1>6. last \subseteq Nat /\ last # {} /\ \A i \in last : i <= Len(c)
  BY <1>2, <1>5
<1>7. PICK i \in last : \A k \in last : k <= i
  <2> HIDE DEF last
  <2> QED BY <1>1, <1>6, Greatest
<1>8. i \in newest
  <2> SUFFICES ASSUME NEW k \in bad PROVE c[k].at < c[i].at \/ (c[k].at = c[i].at /\ k <= i)
    BY <1>7
  <2>1. c[k].at <= a /\ c[k].at \in Nat /\ a \in Nat /\ c[i].at = a
    BY <1>2, <1>3, <1>5, <1>7
  <2>2. CASE c[k].at = a
    BY <1>7, <2>1, <2>2
  <2> QED BY <2>1, <2>2
<1>9. last_non_ok_state(c) = c[n].to /\ n \in newest
  <2>1. last_non_ok_state(c) = IF newest = {} THEN None ELSE c[n].to
    BY DEF last_non_ok_state
  <2> HIDE DEF newest
  <2> QED BY <1>8, <2>1
<1> QED BY <1>9

\* What a pass pages about is a state that breaks the job.
LEMMA AboutBroken ==
    ASSUME NEW j \in Jobs, row[j] \in Row, log[j] \in Seq(Change), RowInOrder(j),
           row[j].bad_since # None, NEW v, v[j].state = "OK", NEW now,
           NEW c, c = set_state(j, v, now)
    PROVE  about_of(j, c) \in ALERTABLE_STATES
<1>1. CASE row[j].state # "OK"
  <2>1. row[j].state \in STATES /\ row[j].state # "UNKNOWN"
    BY DEF RowInOrder, Row
  <2> QED BY <1>1, <2>1, Severity DEF about_of
<1>2. CASE row[j].state = "OK"
  <2>1. c = log[j]
    BY <1>2 DEF set_state
  <2>2. \E n \in DOMAIN c : c[n].to # "OK"
    BY <1>2, <2>1 DEF RowInOrder
  <2>3. PICK n \in DOMAIN c : c[n].to # "OK" /\ last_non_ok_state(c) = c[n].to
    BY <2>1, <2>2, LastNonOkFound
  <2>4. c[n] \in Change /\ c[n].to # "UNKNOWN"
    BY <2>1, ElementOfSeq, LenProperties DEF RowInOrder
  <2>5. c[n].to \in ALERTABLE_STATES
    BY <2>3, <2>4, Severity DEF Change
  <2> QED BY <1>2, <2>3, <2>5, NoneAssumption DEF about_of, ALERTABLE_STATES, STATES
<1> QED BY <1>1, <1>2

\* The episode a pass works on is the row's, or one that begins now.
LEMMA TakenUp ==
    ASSUME NEW j \in Jobs, row[j] \in Row, ShapedRow(row[j]), NEW now \in Nat,
           row[j].bad_since # None => row[j].bad_since <= now
    PROVE  LET e == episode_at(j, now)
           IN  /\ e.bad_since = IF row[j].bad_since # None THEN row[j].bad_since ELSE to_iso(now)
               /\ e.began = IF row[j].bad_since # None THEN row[j].bad_since ELSE now
               /\ e.alerted_at = row[j].alerted_at /\ e.alerted_state = row[j].alerted_state
               /\ row[j].bad_since # None => healed_episode(row[j], now) = e
               /\ row[j].bad_since = None => healed_episode(row[j], now) = NoEpisode
<1>1. row[j].bad_since \in Nat \cup {None} /\ None \notin Nat
  BY NoneAssumption DEF Row, MaybeTime, Time
<1>2. CASE row[j].bad_since = None
  <2>1. row[j].alerted_at = None /\ row[j].alerted_state = None
    BY <1>2 DEF ShapedRow
  <2>2. healed_episode(row[j], now) = NoEpisode
    BY <1>2 DEF healed_episode
  <2> QED BY <1>2, <2>1, <2>2 DEF episode_at, open_episode, NoEpisode
<1>3. CASE row[j].bad_since # None
  <2>1. ~(row[j].bad_since > now)
    BY <1>1, <1>3
  <2>2. healed_episode(row[j], now) =
          [bad_since |-> row[j].bad_since, began |-> row[j].bad_since,
           alerted_at |-> row[j].alerted_at, alerted_state |-> row[j].alerted_state]
    BY <1>3, <2>1 DEF healed_episode
  <2> QED BY <1>3, <2>2 DEF episode_at, open_episode
<1> QED BY <1>2, <1>3

\* Core._page for a state that breaks the job.
LEMMA PageMoves ==
    ASSUME NEW j \in Jobs, NEW about \in ALERTABLE_STATES, NEW e \in Episode, NEW v, NEW changes,
           NEW now \in Nat
    PROVE  LET g == page(j, about, e, v, changes, now)
           IN  /\ g.bad_since = e.bad_since
               /\ IF MayPage(j, about, e, v, changes, now)
                  THEN /\ g.alerted_at = to_iso(now) /\ g.alerted_state = about
                       /\ e.alerted_at # None =>
                             /\ e.alerted_state # None
                             /\ alert_severity(about) > alert_severity(e.alerted_state)
                  ELSE /\ g.alerted_at = e.alerted_at
                       /\ \/ g.alerted_state = e.alerted_state
                          \/ e.alerted_state = None /\ alert_severity(g.alerted_state) >= 1
<1>1. CASE MayPage(j, about, e, v, changes, now)
  <2>1. e.alerted_at # None => /\ e.alerted_state # None
                               /\ alert_severity(about) > alert_severity(e.alerted_state)
    BY <1>1 DEF MayPage
  <2> QED BY <1>1, <2>1 DEF page, Episode
<1>2. CASE ~MayPage(j, about, e, v, changes, now) /\ RecordsPagedState(j, e)
  BY <1>2, Severity DEF page, Episode, RecordsPagedState
<1>3. CASE ~MayPage(j, about, e, v, changes, now) /\ ~RecordsPagedState(j, e)
  BY <1>3 DEF page
<1> QED BY <1>1, <1>2, <1>3

\* An OK that ends an episode has lasted a second.
LEMMA EndedByOk ==
    ASSUME DistinctPages, NEW j \in Jobs, row[j] \in Row, NEW v, NEW changes, NEW now \in Nat,
           NEW e, NEW out, out = resolve_ok(j, e, v, changes, now),
           out.ep # page(j, about_of(j, changes[j]), e, v, changes, now)
    PROVE  row[j].state = "OK" /\ row[j].since + ISO_S <= now
<1> DEFINE held == ok_held_s(row[j].state, row[j].since, now)
<1>1. /\ ok_hold_s(j) \in Nat /\ ok_dwell_s(j) \in Nat /\ ok_dwell_s(j) <= ok_hold_s(j)
      /\ ISO_S \in Nat \ {0} /\ ISO_S <= ok_dwell_s(j)
  BY HoldBounds, DurationAssumption DEF DistinctPages
<1>2. ~(held < ok_hold_s(j)) \/ ~(held < ok_dwell_s(j))
  <2> HIDE DEF held
  <2> QED BY DEF resolve_ok, held
<1>3. held \in Nat /\ row[j].since \in Nat /\ None \notin Nat
  BY NoneAssumption DEF ok_held_s, Row, Time
<1>4. held >= ISO_S
  <2> HIDE DEF held
  <2> QED BY <1>1, <1>2, <1>3
<1>5. held # 0
  <2> HIDE DEF held
  <2> QED BY <1>1, <1>3, <1>4
<1>6. row[j].state = "OK" /\ held = now - row[j].since
  BY <1>5 DEF ok_held_s
<1> QED BY <1>1, <1>3, <1>4, <1>6

\* What a pass does to the episode it takes up: it pages about a state that breaks the job, and
\* worse than the one paged before; it leaves the stamps of a page alone; it ends an episode
\* only a second after it began.
LEMMA PassOutcome ==
    ASSUME DistinctPages, NEW j \in Jobs, row[j] \in Row, ShapedRow(row[j]), log[j] \in Seq(Change),
           RowInOrder(j), NEW now \in Nat, Horizon \in Nat, Horizon <= now,
           NEW v, v[j] \in Verdict, v[j].state = "UNKNOWN" => row[j].state = "UNKNOWN",
           NEW changes, changes[j] = set_state(j, v, now),
           NEW out, out = resolve_alerts(j, v, changes, now), NEW e, e = episode_at(j, now)
    PROVE  /\ out.paged =>
                 /\ alert_severity(out.about) >= 1
                 /\ e.alerted_at # None => /\ e.alerted_state # None
                                           /\ alert_severity(out.about) > alert_severity(e.alerted_state)
           /\ out.ep.bad_since \in {None, e.bad_since}
           /\ out.ep.bad_since # None =>
                 IF out.paged THEN out.ep.alerted_at = to_iso(now) /\ out.ep.alerted_state = out.about
                 ELSE /\ out.ep.alerted_at = e.alerted_at
                      /\ \/ out.ep.alerted_state = e.alerted_state
                         \/ e.alerted_state = None /\ alert_severity(out.ep.alerted_state) >= 1
           /\ out.ep.bad_since = None => out.ep = NoEpisode
           /\ out.ep.bad_since = None /\ row[j].bad_since # None => row[j].bad_since + ISO_S <= now
           /\ v[j].state \in ALERTABLE_STATES => out.ep.bad_since = e.bad_since
           /\ row[j].bad_since = None /\ v[j].state \notin ALERTABLE_STATES =>
                 out.ep.bad_since = None /\ ~out.paged
<1> DEFINE e0 == healed_episode(row[j], now)
           b == row[j].bad_since
<1>1. /\ b # None => b \in WholeSeconds /\ b \in Nat /\ b <= now
      /\ ISO_S \in Nat
  <2>1. ASSUME b # None PROVE b \in WholeSeconds /\ b \in Nat /\ b <= Horizon
    BY <2>1, WholeSecondsKeep DEF RowInOrder, Stamped
  <2> HIDE DEF b
  <2> QED BY <2>1, DurationAssumption
<1>2. e0 \in Episode /\ ShapedRow(e0) /\ e \in Episode /\ e.bad_since # None /\ e = open_episode(e0, now)
  BY HealedEpisode, OpenEpisode DEF episode_at
<1>3. (b # None => e0 = e) /\ (b = None => e0 = NoEpisode)
  BY <1>1, TakenUp
<1>4. NoEpisode.bad_since = None /\ None \notin ALERTABLE_STATES
  BY NoneAssumption DEF NoEpisode, ALERTABLE_STATES, STATES
<1> HIDE DEF e0
<1>5. CASE v[j].state \in ALERTABLE_STATES
  <2>1. out = resolve_bad(j, e0, v, changes, now)
    BY <1>5 DEF resolve_alerts, e0, ALERTABLE_STATES
  <2>2. /\ out.ep = page(j, v[j].state, e, v, changes, now) /\ out.about = v[j].state
        /\ out.paged = MayPage(j, v[j].state, e, v, changes, now)
    BY <1>2, <2>1 DEF resolve_bad
  <2>3. LET g == page(j, v[j].state, e, v, changes, now)
        IN  /\ g.bad_since = e.bad_since
            /\ IF MayPage(j, v[j].state, e, v, changes, now)
               THEN /\ g.alerted_at = to_iso(now) /\ g.alerted_state = v[j].state
                    /\ e.alerted_at # None =>
                          /\ e.alerted_state # None
                          /\ alert_severity(v[j].state) > alert_severity(e.alerted_state)
               ELSE /\ g.alerted_at = e.alerted_at
                    /\ \/ g.alerted_state = e.alerted_state
                       \/ e.alerted_state = None /\ alert_severity(g.alerted_state) >= 1
    BY <1>2, <1>5, PageMoves
  <2> HIDE DEF b
  <2> QED BY <1>2, <1>5, <2>2, <2>3, Severity
<1>6. CASE v[j].state = "OK" /\ b # None
  <2> DEFINE about == about_of(j, changes[j])
             g == page(j, about, e, v, changes, now)
  <2>1. about \in ALERTABLE_STATES
    BY <1>6, AboutBroken
  <2>2. e0 = e /\ out = resolve_ok(j, e, v, changes, now)
    BY <1>2, <1>3, <1>6 DEF resolve_alerts, e0, ALERTABLE_STATES
  <2>3. /\ out.ep \in {g, NoEpisode} /\ out.about = about
        /\ out.paged = MayPage(j, about, e, v, changes, now)
    BY <2>2 DEF resolve_ok
  <2>4. /\ g.bad_since = e.bad_since
        /\ IF MayPage(j, about, e, v, changes, now)
           THEN /\ g.alerted_at = to_iso(now) /\ g.alerted_state = about
                /\ e.alerted_at # None =>
                      /\ e.alerted_state # None
                      /\ alert_severity(about) > alert_severity(e.alerted_state)
           ELSE /\ g.alerted_at = e.alerted_at
                /\ \/ g.alerted_state = e.alerted_state
                   \/ e.alerted_state = None /\ alert_severity(g.alerted_state) >= 1
    BY <1>2, <2>1, PageMoves
  <2>5. ASSUME out.ep.bad_since = None PROVE out.ep = NoEpisode /\ b + ISO_S <= now
    <3>1. out.ep # g
      BY <1>2, <2>4, <2>5
    <3>2. row[j].state = "OK" /\ row[j].since + ISO_S <= now
      BY <2>2, <3>1, EndedByOk
    <3>3. b <= row[j].since /\ row[j].since \in Nat
      BY <1>6, <3>2 DEF RowInOrder, Row, Time
    <3> HIDE DEF b, g
    <3> QED BY <1>1, <1>6, <2>3, <3>1, <3>2, <3>3
  <2> HIDE DEF about, g
  <2> QED BY <1>2, <1>4, <1>6, <2>1, <2>3, <2>4, <2>5, Severity DEF ALERTABLE_STATES
<1>7. CASE v[j].state = "OK" /\ b = None
  <2>1. e0.bad_since = None /\ e0 = NoEpisode
    BY <1>3, <1>4, <1>7
  <2>2. out = Unmoved(e0)
    BY <1>7, <2>1 DEF resolve_alerts, e0, ALERTABLE_STATES
  <2> QED BY <1>4, <1>7, <2>1, <2>2 DEF Unmoved, ALERTABLE_STATES
<1>8. CASE v[j].state \notin ALERTABLE_STATES \cup {"OK"}
  <2>1. out = Unmoved(NoEpisode)
    BY <1>8 DEF resolve_alerts
  <2>2. v[j].state = "UNKNOWN"
    BY <1>8, Severity DEF Verdict
  <2>3. b = None
    BY <2>2 DEF RowInOrder
  <2> QED BY <1>4, <1>8, <2>1, <2>3 DEF Unmoved
<1> QED BY <1>5, <1>6, <1>7, <1>8

\* The stamps a pass works with: those of the row, no later than its reading rounded down.
LEMMA TakenInOrder ==
    ASSUME NEW j \in Jobs, row[j] \in Row, ShapedRow(row[j]), RowInOrder(j),
           NEW now \in Nat, Horizon \in Nat, Horizon <= now
    PROVE  LET e == episode_at(j, now)
               b == row[j].bad_since
               a == row[j].alerted_at
           IN  /\ to_iso(now) \in WholeSeconds /\ to_iso(now) \in Nat /\ to_iso(now) <= now
               /\ b # None => b \in WholeSeconds /\ b \in Nat /\ b <= now /\ b <= to_iso(now)
               /\ a # None => a \in WholeSeconds /\ a \in Nat /\ a <= now /\ a <= to_iso(now)
               /\ e.bad_since = IF b # None THEN b ELSE to_iso(now)
               /\ e.alerted_at = row[j].alerted_at /\ e.alerted_state = row[j].alerted_state
<1>1. to_iso(now) \in WholeSeconds /\ to_iso(now) \in Nat /\ to_iso(now) <= now
  BY WholeSecondsKeep, ToIsoBounds
<1>2. ASSUME NEW x \in WholeSeconds, x <= Horizon PROVE x \in Nat /\ x <= now /\ x <= to_iso(now)
  <2>1. x \in Nat
    BY WholeSecondsKeep
  <2>2. x <= now
    BY <2>1, <1>2
  <2> QED BY <2>1, <2>2, WholeSecondsKeep
<1>3. /\ row[j].bad_since # None => row[j].bad_since \in WholeSeconds /\ row[j].bad_since <= Horizon
      /\ row[j].alerted_at # None => row[j].alerted_at \in WholeSeconds /\ row[j].alerted_at <= Horizon
  BY DEF RowInOrder, Stamped
<1>4. row[j].bad_since # None => row[j].bad_since <= now
  BY <1>2, <1>3
<1> QED BY <1>1, <1>2, <1>3, <1>4, TakenUp

\* A committed pass leaves every row in order.
LEMMA PassRowInOrder ==
    ASSUME DistinctPages, NEW j \in Jobs, row[j] \in Row, ShapedRow(row[j]), log[j] \in Seq(Change),
           RowInOrder(j), NEW now \in Nat, Horizon \in Nat, Horizon <= now,
           NEW v, v[j] \in Verdict, v[j].state = "UNKNOWN" => row[j].state = "UNKNOWN",
           NEW changes, changes[j] = set_state(j, v, now),
           NEW out, out = resolve_alerts(j, v, changes, now),
           Horizon' \in Nat, now <= Horizon',
           row'[j] = row_after(j, v, out, now), log'[j] = changes[j]
    PROVE  RowInOrder(j)'
<1> DEFINE e == episode_at(j, now)
           b == row[j].bad_since
<1>1. /\ to_iso(now) \in WholeSeconds /\ to_iso(now) \in Nat /\ to_iso(now) <= now
      /\ b # None => b \in WholeSeconds /\ b \in Nat /\ b <= now /\ b <= to_iso(now)
      /\ row[j].alerted_at # None => /\ row[j].alerted_at \in WholeSeconds
                                     /\ row[j].alerted_at \in Nat /\ row[j].alerted_at <= now
  BY TakenInOrder
<1>2. /\ e.bad_since = IF b # None THEN b ELSE to_iso(now)
      /\ e.alerted_at = row[j].alerted_at /\ e.alerted_state = row[j].alerted_state
  BY TakenInOrder
<1>3. /\ out.paged => alert_severity(out.about) >= 1
      /\ out.ep.bad_since \in {None, e.bad_since}
      /\ out.ep.bad_since # None =>
            IF out.paged THEN out.ep.alerted_at = to_iso(now) /\ out.ep.alerted_state = out.about
            ELSE /\ out.ep.alerted_at = e.alerted_at
                 /\ \/ out.ep.alerted_state = e.alerted_state
                    \/ e.alerted_state = None /\ alert_severity(out.ep.alerted_state) >= 1
      /\ out.ep.bad_since = None => out.ep = NoEpisode
      /\ v[j].state \in ALERTABLE_STATES => out.ep.bad_since = e.bad_since
      /\ b = None /\ v[j].state \notin ALERTABLE_STATES => out.ep.bad_since = None
  BY PassOutcome
<1>4. /\ row'[j].bad_since = out.ep.bad_since /\ row'[j].alerted_at = out.ep.alerted_at
      /\ row'[j].alerted_state = out.ep.alerted_state /\ row'[j].state = v[j].state
      /\ row'[j].since = IF row[j].state = v[j].state THEN row[j].since ELSE to_iso(now)
  BY DEF row_after, since_after
<1>5. /\ e.bad_since \in WholeSeconds /\ e.bad_since \in Nat /\ e.bad_since <= now /\ e.bad_since # None
      /\ NoEpisode.alerted_at = None /\ NoEpisode.alerted_state = None
  BY <1>1, <1>2, NoneAssumption DEF NoEpisode
<1>6. v[j].state \in STATES /\ row[j].state \in STATES /\ v[j].state \in ALERTABLE_STATES \cup {"OK", "UNKNOWN"}
  BY Severity DEF Verdict, Row
<1> HIDE DEF e, b
<1>7. row'[j].bad_since # None => row'[j].bad_since \in WholeSeconds /\ row'[j].bad_since <= Horizon'
  BY <1>3, <1>4, <1>5
<1>8. row'[j].alerted_at # None => row'[j].alerted_at \in WholeSeconds /\ row'[j].alerted_at <= Horizon'
  BY <1>1, <1>2, <1>3, <1>4, <1>5
<1>9. row'[j].alerted_state # None => alert_severity(row'[j].alerted_state) >= 1
  <2>1. row[j].alerted_state # None => alert_severity(row[j].alerted_state) >= 1
    BY DEF RowInOrder
  <2> QED BY <2>1, <1>2, <1>3, <1>4, <1>5
<1>10. /\ v[j].state = "UNKNOWN" => b = None
       /\ b = None => row[j].state \in {"OK", "UNKNOWN"}
  BY DEF RowInOrder, b
<1>11. row'[j].bad_since # None => row'[j].state # "UNKNOWN"
  BY <1>3, <1>4, <1>10 DEF ALERTABLE_STATES
<1>12. row'[j].bad_since = None => row'[j].state \in {"OK", "UNKNOWN"}
  BY <1>3, <1>4, <1>5, <1>6
<1>13. row'[j].bad_since # None /\ row'[j].state = "OK" => row'[j].bad_since <= row'[j].since
  <2> SUFFICES ASSUME row'[j].bad_since # None, v[j].state = "OK" PROVE row'[j].bad_since <= row'[j].since
    BY <1>4
  <2>1. b # None /\ row'[j].bad_since = b
    BY <1>2, <1>3, <1>4 DEF ALERTABLE_STATES
  <2>2. row[j].state = "OK" => b <= row[j].since
    BY <2>1 DEF RowInOrder, b
  <2> QED BY <1>1, <1>4, <2>1, <2>2
<1>14. /\ \A n \in DOMAIN log'[j] : log'[j][n].to # "UNKNOWN"
       /\ row'[j].bad_since # None => \E n \in DOMAIN log'[j] : log'[j][n].to # "OK"
  <2>1. /\ \A n \in DOMAIN log[j] : log[j][n].to # "UNKNOWN"
        /\ b # None => \E n \in DOMAIN log[j] : log[j][n].to # "OK"
    BY DEF RowInOrder, b
  <2>2. CASE row[j].state = v[j].state
    <3>1. log'[j] = log[j]
      BY <2>2 DEF set_state
    <3>2. row'[j].bad_since # None => b # None
      BY <2>2, <1>3, <1>4, <1>10 DEF ALERTABLE_STATES
    <3> QED BY <2>1, <3>1, <3>2
  <2>3. CASE row[j].state # v[j].state
    <3> DEFINE x == [at |-> to_iso(now), to |-> v[j].state]
    <3>1. log'[j] = Append(log[j], x) /\ x \in Change
      BY <2>3, <1>1, <1>6 DEF set_state, Change, Time
    <3>2. /\ DOMAIN log[j] = 1..Len(log[j]) /\ Len(log[j]) \in Nat
          /\ DOMAIN log'[j] = 1..(Len(log[j]) + 1)
          /\ \A n \in DOMAIN log[j] : log'[j][n] = log[j][n]
          /\ log'[j][Len(log[j]) + 1] = x
      BY <3>1, AppendProperties, LenProperties
    <3>3. x.to = v[j].state /\ v[j].state # "UNKNOWN"
      BY <2>3
    <3> HIDE DEF x
    <3>4. \A n \in DOMAIN log'[j] : n \in DOMAIN log[j] \/ n = Len(log[j]) + 1
      BY <3>2
    <3>5. \A n \in DOMAIN log'[j] : log'[j][n].to # "UNKNOWN"
      BY <2>1, <3>2, <3>3, <3>4
    <3>6. ASSUME row'[j].bad_since # None PROVE \E n \in DOMAIN log'[j] : log'[j][n].to # "OK"
      <4>1. CASE b # None
        <5>1. PICK n \in DOMAIN log[j] : log[j][n].to # "OK"
          BY <2>1, <4>1
        <5> QED BY <5>1, <3>2
      <4>2. CASE b = None
        <5>1. v[j].state \in ALERTABLE_STATES
          BY <3>6, <4>2, <1>3, <1>4
        <5>2. Len(log[j]) + 1 \in DOMAIN log'[j] /\ v[j].state # "OK"
          BY <3>2, <5>1 DEF ALERTABLE_STATES
        <5> QED BY <3>2, <3>3, <5>2
      <4> QED BY <4>1, <4>2
    <3> QED BY <3>5, <3>6
  <2> QED BY <2>2, <2>3
<1> QED BY <1>7, <1>8, <1>9, <1>11, <1>12, <1>13, <1>14 DEF RowInOrder, Stamped

\* A second after a time is not yet over, the second it was rounded to is later.
LEMMA NextSecond ==
    ASSUME NEW a \in WholeSeconds, NEW t \in Nat, a + ISO_S <= t
    PROVE  a \in Nat /\ ISO_S \in Nat \ {0} /\ a < to_iso(t)
<1>1. a \in Nat /\ ISO_S \in Nat \ {0} /\ to_iso(t) \in Nat
  BY WholeSecondsKeep, DurationAssumption
<1>2. ISO_S \in WholeSeconds
  <2>1. ISO_S = ISO_S * 1
    BY <1>1
  <2> QED BY <2>1 DEF WholeSeconds
<1>3. a + ISO_S \in WholeSeconds
  BY <1>2, WholeSecondsKeep
<1>4. a + ISO_S <= to_iso(t)
  BY <1>3, WholeSecondsKeep
<1> QED BY <1>1, <1>4

\* A page that was spent stays so when a pass moves the row on: its episode keeps a stamp that
\* covers it, or ends, and then no other begins in its second.
LEMMA PassSpent ==
    ASSUME DistinctPages, NEW j \in Jobs, row[j] \in Row, ShapedRow(row[j]), log[j] \in Seq(Change),
           RowInOrder(j), NEW now \in Nat, Horizon \in Nat, Horizon <= now,
           NEW v, v[j] \in Verdict, v[j].state = "UNKNOWN" => row[j].state = "UNKNOWN",
           NEW changes, changes[j] = set_state(j, v, now),
           NEW out, out = resolve_alerts(j, v, changes, now),
           Horizon' \in Nat, now <= Horizon', row'[j] = row_after(j, v, out, now),
           NEW p, Spent(j, p)
    PROVE  Spent(j, p)'
<1> DEFINE e == episode_at(j, now)
           b == row[j].bad_since
           s == p.bad_since
<1>1. /\ to_iso(now) \in Nat
      /\ b # None => b \in Nat /\ b \in WholeSeconds
      /\ row[j].alerted_at # None => row[j].alerted_at \in Nat /\ row[j].alerted_at <= to_iso(now)
      /\ e.bad_since = IF b # None THEN b ELSE to_iso(now)
      /\ e.alerted_at = row[j].alerted_at /\ e.alerted_state = row[j].alerted_state
  BY TakenInOrder
<1>2. /\ out.paged => /\ e.alerted_at # None => /\ e.alerted_state # None
                                                /\ alert_severity(out.about) > alert_severity(e.alerted_state)
      /\ out.ep.bad_since \in {None, e.bad_since}
      /\ out.ep.bad_since # None =>
            IF out.paged THEN out.ep.alerted_at = to_iso(now) /\ out.ep.alerted_state = out.about
            ELSE /\ out.ep.alerted_at = e.alerted_at
                 /\ \/ out.ep.alerted_state = e.alerted_state
                    \/ e.alerted_state = None /\ alert_severity(out.ep.alerted_state) >= 1
      /\ out.ep.bad_since = None /\ b # None => b + ISO_S <= now
  BY PassOutcome
<1>3. /\ row'[j].bad_since = out.ep.bad_since /\ row'[j].alerted_at = out.ep.alerted_at
      /\ row'[j].alerted_state = out.ep.alerted_state
  BY DEF row_after
<1>4. /\ s \in WholeSeconds /\ s \in Nat /\ p.at \in Nat
      /\ alert_severity(p.state) >= 1 /\ (p.kind = "escalation" => alert_severity(p.state) = 2)
      /\ ISO_S \in Nat \ {0} /\ None \notin Nat
  BY WholeSecondsKeep, DurationAssumption, NoneAssumption DEF Spent
<1>5. \A st : alert_severity(st) \in 0..2
  BY Severity
<1>6. /\ b = s => Covers(row[j].alerted_at, row[j].alerted_state, p)
      /\ b # s => IF b = None THEN s + ISO_S <= Horizon ELSE s < b
  BY DEF Spent, Over
<1> HIDE DEF e, b, s
<1>7. IF row'[j].bad_since = s THEN Covers(row'[j].alerted_at, row'[j].alerted_state, p)
      ELSE IF row'[j].bad_since = None THEN s + ISO_S <= Horizon' ELSE s < row'[j].bad_since
  <2>1. CASE b = s
    <3>1. /\ e.alerted_at # None /\ p.at <= e.alerted_at /\ e.alerted_state # None
          /\ alert_severity(e.alerted_state) >= alert_severity(p.state)
          /\ e.alerted_at \in Nat /\ e.alerted_at <= to_iso(now)
      BY <1>1, <1>6, <2>1 DEF Covers
    <3>2. CASE row'[j].bad_since = None
      BY <1>1, <1>2, <1>3, <1>4, <2>1, <3>2
    <3>3. CASE row'[j].bad_since # None
      <4>1. row'[j].bad_since = s
        BY <1>1, <1>2, <1>3, <1>4, <2>1, <3>3
      <4>2. CASE out.paged
        <5>1. /\ row'[j].alerted_at = to_iso(now) /\ row'[j].alerted_state = out.about
              /\ alert_severity(out.about) > alert_severity(e.alerted_state)
          BY <1>2, <1>3, <3>1, <3>3, <4>2
        <5>2. p.at <= to_iso(now) /\ to_iso(now) # None
          BY <1>1, <1>4, <3>1
        <5>3. alert_severity(out.about) >= 1 /\ alert_severity(out.about) >= alert_severity(p.state)
          BY <1>4, <1>5, <3>1, <5>1
        <5>4. out.about # None
          BY <5>3, NoneAssumption DEF alert_severity, ALERTABLE_STATES, HIGH_PRIORITY_STATES, STATES
        <5> QED BY <4>1, <5>1, <5>2, <5>3, <5>4 DEF Covers
      <4>3. CASE ~out.paged
        <5>1. row'[j].alerted_at = e.alerted_at /\ row'[j].alerted_state = e.alerted_state
          BY <1>2, <1>3, <3>1, <3>3, <4>3
        <5> QED BY <4>1, <3>1, <5>1 DEF Covers
      <4> QED BY <4>2, <4>3
    <3> QED BY <3>2, <3>3
  <2>2. CASE b # s /\ b = None
    <3>1. s + ISO_S <= now
      BY <1>4, <1>6, <2>2
    <3>2. s < to_iso(now)
      BY <1>4, <3>1, NextSecond
    <3> QED BY <1>1, <1>2, <1>3, <1>4, <2>2, <3>1, <3>2
  <2>3. CASE b # s /\ b # None
    BY <1>1, <1>2, <1>3, <1>4, <1>6, <2>3
  <2> QED BY <2>1, <2>2, <2>3
<1> QED BY <1>4, <1>7 DEF Spent, Over, s

\* The page a pass decides: its stamp answers for it, it outranks every page spent on its episode
\* before, and what a hand-back would restore answers for those.
LEMMA PassPages ==
    ASSUME DistinctPages, NEW j \in Jobs, row[j] \in Row, ShapedRow(row[j]), log[j] \in Seq(Change),
           RowInOrder(j), NEW now \in Nat, Horizon \in Nat, Horizon <= now,
           NEW v, v[j] \in Verdict, v[j].state = "UNKNOWN" => row[j].state = "UNKNOWN",
           NEW changes, changes[j] = set_state(j, v, now),
           NEW out, out = resolve_alerts(j, v, changes, now),
           Horizon' \in Nat, now <= Horizon', row'[j] = row_after(j, v, out, now),
           out.paged, NEW i, i.kind \in PageKinds,
           i.alerted_at = to_iso(now), i.bad_since = episode_at(j, now).bad_since,
           i.prev_alerted_at = episode_at(j, now).alerted_at,
           i.prev_alerted_state = episode_at(j, now).alerted_state, i.state = out.about,
           (i.kind = "alert") = (episode_at(j, now).alerted_at = None)
    PROVE  /\ Spent(j, AsPush(i))'
           /\ i.alerted_at \in WholeSeconds /\ i.alerted_at <= Horizon'
           /\ i.prev_alerted_at # None => /\ i.prev_alerted_at \in WholeSeconds
                                          /\ i.prev_alerted_at <= i.alerted_at
           /\ i.prev_alerted_state # None => alert_severity(i.prev_alerted_state) >= 1
           /\ \A p : Spent(j, p) /\ p.kind \in PageKinds =>
                 /\ Ranked(AsPush(i), p)
                 /\ p.bad_since = i.bad_since => Covers(i.prev_alerted_at, i.prev_alerted_state, p)
<1> DEFINE e == episode_at(j, now)
           b == row[j].bad_since
           q == AsPush(i)
<1>1. /\ to_iso(now) \in Nat /\ to_iso(now) \in WholeSeconds /\ to_iso(now) <= now
      /\ b # None => b \in Nat /\ b \in WholeSeconds
      /\ row[j].alerted_at # None => /\ row[j].alerted_at \in Nat /\ row[j].alerted_at \in WholeSeconds
                                     /\ row[j].alerted_at <= to_iso(now)
      /\ e.bad_since = IF b # None THEN b ELSE to_iso(now)
      /\ e.alerted_at = row[j].alerted_at /\ e.alerted_state = row[j].alerted_state
  BY TakenInOrder
<1>2. /\ alert_severity(out.about) >= 1
      /\ e.alerted_at # None => /\ e.alerted_state # None
                                /\ alert_severity(out.about) > alert_severity(e.alerted_state)
      /\ out.ep.bad_since \in {None, e.bad_since}
      /\ out.ep.bad_since # None => out.ep.alerted_at = to_iso(now) /\ out.ep.alerted_state = out.about
      /\ out.ep.bad_since = None /\ b # None => b + ISO_S <= now
      /\ v[j].state \in ALERTABLE_STATES => out.ep.bad_since = e.bad_since
      /\ ~(b = None /\ v[j].state \notin ALERTABLE_STATES)
  BY PassOutcome
<1>3. /\ row'[j].bad_since = out.ep.bad_since /\ row'[j].alerted_at = out.ep.alerted_at
      /\ row'[j].alerted_state = out.ep.alerted_state
  BY DEF row_after
<1>4. /\ q.kind = i.kind /\ q.state = out.about /\ q.bad_since = e.bad_since /\ q.at = to_iso(now)
      /\ i.prev_alerted_at = e.alerted_at /\ i.prev_alerted_state = e.alerted_state
      /\ i.bad_since = e.bad_since /\ i.alerted_at = to_iso(now)
      /\ i.kind \in {"alert", "escalation"} /\ (i.kind = "alert") = (e.alerted_at = None)
  BY DEF AsPush, PageKinds
<1>5. /\ \A st : alert_severity(st) \in 0..2
      /\ e.alerted_state # None => alert_severity(e.alerted_state) >= 1
  BY <1>1, Severity DEF RowInOrder
<1>6. ISO_S \in Nat \ {0} /\ None \notin Nat /\ e.bad_since \in WholeSeconds /\ e.bad_since \in Nat
  BY <1>1, DurationAssumption, NoneAssumption
<1>7. out.about # None
  BY <1>2, NoneAssumption DEF alert_severity, ALERTABLE_STATES, HIGH_PRIORITY_STATES, STATES
<1> HIDE DEF e, b, q
<1>8. i.kind = "escalation" => alert_severity(out.about) = 2
  BY <1>2, <1>4, <1>5
<1>9. IF row'[j].bad_since = q.bad_since THEN Covers(row'[j].alerted_at, row'[j].alerted_state, q)
      ELSE row'[j].bad_since = None /\ q.bad_since + ISO_S <= Horizon'
  <2>1. CASE row'[j].bad_since = None
    <3>1. b # None /\ b + ISO_S <= now /\ q.bad_since = b
      BY <1>1, <1>2, <1>3, <1>4, <1>6, <2>1
    <3> QED BY <1>1, <1>6, <2>1, <3>1
  <2>2. CASE row'[j].bad_since # None
    <3>1. row'[j].bad_since = q.bad_since /\ row'[j].alerted_at = to_iso(now) /\ row'[j].alerted_state = out.about
      BY <1>2, <1>3, <1>4, <2>2
    <3> QED BY <1>1, <1>4, <1>5, <1>6, <1>7, <3>1 DEF Covers
  <2> QED BY <2>1, <2>2
<1>10. Spent(j, q)'
  <2>1. q' = q
    BY DEF q, AsPush
  <2>2. /\ q.bad_since \in WholeSeconds /\ q.at \in Nat /\ alert_severity(q.state) >= 1
        /\ q.kind = "escalation" => alert_severity(q.state) = 2
    BY <1>1, <1>2, <1>4, <1>6, <1>8
  <2> QED BY <1>9, <2>1, <2>2 DEF Spent, Over
<1>11. ASSUME NEW p, Spent(j, p), p.kind \in PageKinds, p.bad_since = e.bad_since
       PROVE  Covers(e.alerted_at, e.alerted_state, p) /\ Escalates(p, q)
  <2>1. p.at \in Nat /\ p.bad_since \in WholeSeconds /\ (p.kind = "escalation" => alert_severity(p.state) = 2)
    BY <1>11 DEF Spent
  <2>2. b # None
    <3> SUFFICES ASSUME b = None PROVE FALSE
      OBVIOUS
    <3>1. p.bad_since + ISO_S <= Horizon /\ e.bad_since = to_iso(now)
      BY <1>1, <1>6, <1>11 DEF Spent, Over, b
    <3>2. p.bad_since + ISO_S <= now
      BY <1>6, <1>11, <3>1
    <3>3. p.bad_since < to_iso(now)
      BY <2>1, <3>2, NextSecond
    <3> QED BY <1>6, <1>11, <3>1, <3>3
  <2>3. Covers(e.alerted_at, e.alerted_state, p)
    BY <1>1, <1>11, <2>2 DEF Spent, b
  <2>4. /\ e.alerted_at # None /\ p.at <= e.alerted_at /\ e.alerted_at <= to_iso(now) /\ e.alerted_at \in Nat
        /\ alert_severity(out.about) > alert_severity(e.alerted_state)
        /\ alert_severity(e.alerted_state) >= alert_severity(p.state)
    BY <1>1, <1>2, <2>3 DEF Covers
  <2>5. alert_severity(out.about) > alert_severity(p.state) /\ alert_severity(p.state) < 2
    BY <1>5, <2>4
  <2>6. p.kind = "alert" /\ q.kind = "escalation"
    BY <1>4, <1>11, <2>1, <2>4, <2>5 DEF PageKinds
  <2>7. q.at >= p.at
    BY <1>1, <1>4, <2>1, <2>4
  <2> QED BY <1>4, <2>3, <2>5, <2>6, <2>7 DEF Escalates
<1>12. \A p : Spent(j, p) /\ p.kind \in PageKinds =>
                 /\ Ranked(q, p)
                 /\ p.bad_since = i.bad_since => Covers(i.prev_alerted_at, i.prev_alerted_state, p)
  BY <1>4, <1>11 DEF Ranked
<1>13. to_iso(now) <= Horizon'
  BY <1>1
<1> QED BY <1>1, <1>4, <1>5, <1>10, <1>12, <1>13 DEF q

\* No reading a pass has yet to use is older than the one it works with.
LEMMA PassWindow ==
    ASSUME IInv, Readings, NEW t \in Threads, read[t] <= clock, RecomputePass(t)
    PROVE  /\ pass_clock(t) \in Nat /\ Horizon \in Nat /\ Horizon <= pass_clock(t)
           /\ Horizon' \in Nat /\ pass_clock(t) <= Horizon'
           /\ Readings'
<1>1. /\ pc[t] = "begin" /\ todo' = [todo EXCEPT ![t] = Tail(todo[t])]
      /\ clock' = clock /\ read' = read /\ \A u \in Threads : u # t => pc'[u] = pc[u]
  BY DEF RecomputePass, IInv, TypeOK
<1>2. /\ todo \in [Threads -> Seq(Passes)] /\ todo[t] \in Seq(Passes) /\ todo[t] # <<>>
      /\ todo'[t] = Tail(todo[t]) /\ \A u \in Threads : u # t => todo'[u] = todo[u]
      /\ read[t] \in Nat /\ read[SCHEDULER] \in Nat /\ clock \in Nat /\ read[t] <= clock
      /\ SCHEDULER \in Threads
  BY <1>1, ThreadAssumption DEF IInv, TypeOK
<1>3. /\ Len(todo[t]) \in Nat \ {0} /\ DOMAIN todo[t] = 1..Len(todo[t])
      /\ todo'[t] \in Seq(Passes) /\ Len(todo'[t]) = Len(todo[t]) - 1
      /\ DOMAIN todo'[t] = 1..Len(todo'[t])
      /\ \A n \in DOMAIN todo'[t] : todo'[t][n] = todo[t][n + 1]
      /\ Head(todo[t]) = todo[t][1]
  BY <1>2, HeadTailProperties, LenProperties, EmptySeq
<1>3a. Len(todo'[t]) = 0 => todo'[t] = <<>>
  BY <1>3, EmptySeq
<1>4. pass_clock(t) \in {clock, read[t]} /\ (Head(todo[t]) # "probe" => pass_clock(t) = read[t])
  BY DEF pass_clock
<1>5. CASE /\ OneThread
           /\ \A n \in DOMAIN todo[SCHEDULER] : todo[SCHEDULER][n] = "probe" => n = Len(todo[SCHEDULER])
  <2>1. t = SCHEDULER
    BY <1>5 DEF OneThread
  <2>2. Horizon = read[t] /\ Horizon' = IF todo'[t] # <<>> THEN read[t] ELSE clock
    BY <1>1, <1>2, <2>1 DEF Horizon
  <2>3. ASSUME NEW n \in DOMAIN todo'[t], todo'[t][n] = "probe" PROVE n = Len(todo'[t])
    <3>1. n + 1 \in DOMAIN todo[t] /\ todo[t][n + 1] = "probe"
      BY <1>3, <2>3
    <3>2. n + 1 = Len(todo[t])
      BY <1>5, <2>1, <3>1
    <3> QED BY <1>3, <3>2
  <2>4. Readings'
    BY <1>5, <2>1, <2>3 DEF Readings
  <2>5. CASE Head(todo[t]) = "probe"
    <3>1. 1 \in DOMAIN todo[t] /\ todo[t][1] = "probe"
      BY <1>3, <2>5
    <3>2. 1 = Len(todo[t])
      BY <1>5, <2>1, <3>1
    <3>3. todo'[t] = <<>>
      BY <1>3, <1>3a, <3>2
    <3> QED BY <1>2, <1>4, <2>2, <2>4, <3>3
  <2>6. CASE Head(todo[t]) # "probe"
    BY <1>2, <1>4, <2>2, <2>4, <2>6
  <2> QED BY <2>5, <2>6
<1>6. CASE /\ FreshReadings
           /\ \A u \in Threads : todo[u] # <<>> => pc[u] = "begin" /\ read[u] = clock /\ Len(todo[u]) = 1
  <2>1. read[t] = clock /\ Len(todo[t]) = 1
    BY <1>2, <1>6
  <2>2. todo'[t] = <<>>
    BY <1>3, <1>3a, <2>1
  <2>3. pass_clock(t) = clock /\ Horizon = clock
    BY <1>2, <1>4, <1>6, <2>1 DEF Horizon
  <2>4. Horizon' = clock
    BY <1>1, <1>2, <1>6, <2>2 DEF Horizon
  <2>5. \A u \in Threads : todo'[u] # <<>> => pc'[u] = "begin" /\ read'[u] = clock' /\ Len(todo'[u]) = 1
    BY <1>1, <1>2, <1>6, <2>2
  <2>6. Readings'
    BY <1>6, <2>5 DEF Readings
  <2> QED BY <1>2, <2>3, <2>4, <2>6
<1> QED BY <1>5, <1>6 DEF Readings

\* A committed pass: what it pages outranks what was spent, and nothing else comes on its way.
LEMMA RecomputeRInv ==
    ASSUME RInv, DistinctPages, NEW t \in Threads, RecomputePass(t), StaysHeardFrom
    PROVE  RInv'
<1> DEFINE now == pass_clock(t)
<1>1. IInv'
  BY RecomputeIInv DEF RInv
<1>2. /\ now \in Nat /\ Horizon \in Nat /\ Horizon <= now /\ Horizon' \in Nat /\ now <= Horizon'
      /\ Readings'
  BY PassWindow DEF RInv, Senders, SendersOf
<1>3. PICK v \in [Jobs -> UNION {Verdicts[j] : j \in Jobs}] :
        LET changes == [j \in Jobs |-> set_state(j, v, now)]
            out == [j \in Jobs |-> resolve_alerts(j, v, changes, now)]
        IN  /\ \A j \in Jobs : v[j] \in Verdicts[j]
            /\ log' = changes
            /\ row' = [j \in Jobs |-> row_after(j, v, out[j], now)]
            /\ queue' = [queue EXCEPT ![t] =
                            [j \in Jobs |-> intents_of(j, v, out[j], now)]]
            /\ pc' = [pc EXCEPT ![t] = IF queue'[t] = NoIntents
                            THEN after_pass(t, Tail(todo[t])) ELSE "post"]
  BY DEF RecomputePass
<1> DEFINE changes == [j \in Jobs |-> set_state(j, v, now)]
           out == [j \in Jobs |-> resolve_alerts(j, v, changes, now)]
<1>4. /\ pc[t] = "begin" /\ todo' = [todo EXCEPT ![t] = Tail(todo[t])]
      /\ unsent' = unsent /\ sent' = sent /\ clock' = clock /\ read' = read
      /\ queue[t] = NoIntents /\ unsent[t] = {}
  BY DEF RInv, Senders, SendersOf, RecomputePass
<1> HIDE DEF now
<1>5. /\ row' = [j \in Jobs |-> row_after(j, v, out[j], now)]
      /\ queue' = [queue EXCEPT ![t] = [j \in Jobs |-> intents_of(j, v, out[j], now)]]
      /\ pc' = [pc EXCEPT ![t] = IF queue'[t] = NoIntents
                      THEN after_pass(t, Tail(todo[t])) ELSE "post"]
      /\ log' = changes
      /\ \A j \in Jobs : out[j] = resolve_alerts(j, v, changes, now)
      /\ \A j \in Jobs : changes[j] = set_state(j, v, now)
      /\ \A j \in Jobs : v[j] \in Verdict
  BY <1>3, ThreadAssumption
<1> HIDE DEF out, changes
<1>6. \A j \in Jobs : /\ row'[j] = row_after(j, v, out[j], now)
                      /\ log'[j] = changes[j]
                      /\ queue'[t][j] = intents_of(j, v, out[j], now)
                      /\ KnownAt(j)' = KnownAt(j)
                      /\ \A u \in Threads : u # t => InFlight(u, j)' = InFlight(u, j)
  BY <1>4, <1>5 DEF RInv, IInv, TypeOK, KnownAt, InFlight
<1>7. \A j \in Jobs : v[j].state = "UNKNOWN" => row[j].state = "UNKNOWN"
  <2>1. ASSUME NEW j \in Jobs PROVE row_after(j, v, out[j], now).state = v[j].state
    BY DEF row_after
  <2> QED BY <1>6, <2>1 DEF StaysHeardFrom
<1>8. Senders'
  <2>1. ASSUME NEW u \in Threads, u # t
        PROVE  /\ pc'[u] = pc[u] /\ queue'[u] = queue[u] /\ unsent'[u] = unsent[u]
               /\ todo'[u] = todo[u] /\ read'[u] = read[u] /\ clock' = clock
    BY <1>4, <1>5, <2>1 DEF RInv, IInv, TypeOK
  <2>2. /\ read'[t] <= clock' /\ unsent'[t] = {}
    BY <1>4 DEF RInv, Senders, SendersOf
  <2>3. /\ pc'[t] = "idle" => todo'[t] = <<>>
        /\ pc'[t] \in {"idle", "begin"} => queue'[t] = NoIntents
        /\ pc'[t] # "give_back"
    BY <1>4, <1>5 DEF after_pass, RInv, IInv, TypeOK
  <2>4. ASSUME NEW j \in Jobs, NEW n \in DOMAIN queue'[t][j]
        PROVE  /\ queue'[t][j][n].job = j
               /\ queue'[t][j][n].kind \in PageKinds => n = 1
    <3>1. BelongTo(queue'[t][j], j, episode_at(j, now))
      BY <1>2, <1>6, IntentsStamp
    <3>2. queue'[t][j][n].kind \in PageKinds => n = 1
      BY <1>2, <1>6, <2>4, IntentsPage
    <3> QED BY <2>4, <3>1, <3>2 DEF BelongTo
  <2>5. SendersOf(t)'
    BY <2>2, <2>3, <2>4 DEF SendersOf
  <2>6. ASSUME NEW u \in Threads, u # t PROVE SendersOf(u)'
    <3>1. SendersOf(u)
      BY DEF RInv, Senders
    <3> QED BY <2>1, <2>6, <3>1 DEF SendersOf
  <2> QED BY <2>5, <2>6 DEF Senders
<1>9. ASSUME NEW j \in Jobs PROVE RowInOrder(j)' /\ PagesInv(j)'
  <2>1. /\ row[j] \in Row /\ ShapedRow(row[j]) /\ log[j] \in Seq(Change) /\ RowInOrder(j) /\ PagesInv(j)
    BY DEF RInv, IInv, TypeOK, EpisodeShape
  <2>2. RowInOrder(j)'
    BY <1>2, <1>5, <1>6, <1>7, <2>1, PassRowInOrder
  <2>3. ASSUME NEW p, Spent(j, p) PROVE Spent(j, p)'
    BY <1>2, <1>5, <1>6, <1>7, <2>1, <2>3, PassSpent
  <2>4. ASSUME NEW m \in KnownAt(j)
        PROVE  /\ Spent(j, sent[j][m]) /\ sent'[j][m] = sent[j][m] /\ sent[j][m].kind \in PageKinds
               /\ Spent(j, sent[j][m])'
    <3>1. /\ Spent(j, sent[j][m]) /\ sent' = sent /\ sent[j][m].kind \in PageKinds
      BY <1>4, <2>1 DEF PagesInv, KnownAt
    <3>2. PICK p : p = sent[j][m] /\ p = sent'[j][m]
      BY <3>1
    <3>3. Spent(j, p)'
      BY <2>3, <3>1, <3>2
    <3> QED BY <3>1, <3>2, <3>3 DEF Spent, Over
  <2>5. \A m, n \in KnownAt(j)' : m # n => Ranked(sent'[j][m], sent'[j][n])
    BY <1>4, <1>6, <2>1 DEF PagesInv
  <2>6. ASSUME NEW i \in InFlight(t, j)'
        PROVE  /\ Spent(j, AsPush(i))' /\ ReturnInOrder(j, i)' /\ i = queue'[t][j][1]
               /\ \A p : Spent(j, p) /\ p.kind \in PageKinds => Ranked(AsPush(i), p)
    <3>1. PICK n \in DOMAIN queue'[t][j] : i = queue'[t][j][n] /\ i.kind \in PageKinds
      BY <1>4, <2>6 DEF InFlight
    <3>2. /\ n = 1 /\ out[j].paged
          /\ i.alerted_at = to_iso(now) /\ i.bad_since = episode_at(j, now).bad_since
          /\ i.prev_alerted_at = episode_at(j, now).alerted_at
          /\ i.prev_alerted_state = episode_at(j, now).alerted_state /\ i.state = out[j].about
          /\ (i.kind = "alert") = (episode_at(j, now).alerted_at = None)
      BY <1>2, <1>6, <3>1, IntentsPage
    <3>3. /\ Spent(j, AsPush(i))'
          /\ i.alerted_at \in WholeSeconds /\ i.alerted_at <= Horizon'
          /\ i.prev_alerted_at # None => /\ i.prev_alerted_at \in WholeSeconds
                                         /\ i.prev_alerted_at <= i.alerted_at
          /\ i.prev_alerted_state # None => alert_severity(i.prev_alerted_state) >= 1
          /\ \A p : Spent(j, p) /\ p.kind \in PageKinds =>
                /\ Ranked(AsPush(i), p)
                /\ p.bad_since = i.bad_since => Covers(i.prev_alerted_at, i.prev_alerted_state, p)
      BY <1>2, <1>5, <1>6, <1>7, <2>1, <3>1, <3>2, PassPages
    <3>4. ASSUME NEW m \in KnownAt(j)', sent'[j][m].bad_since = i.bad_since
          PROVE  Covers(i.prev_alerted_at, i.prev_alerted_state, sent'[j][m])
      BY <1>6, <2>4, <3>3, <3>4
    <3> QED BY <3>1, <3>2, <3>3, <3>4 DEF ReturnInOrder
  <2>7. ASSUME NEW u \in Threads, NEW i \in InFlight(u, j)', u # t
        PROVE  /\ Spent(j, AsPush(i)) /\ Spent(j, AsPush(i))' /\ AsPush(i).kind \in PageKinds
               /\ ReturnInOrder(j, i)' /\ \A m \in KnownAt(j) : Ranked(AsPush(i), sent[j][m])
    <3>1. i \in InFlight(u, j)
      BY <1>6, <2>7
    <3>2. /\ Spent(j, AsPush(i)) /\ ReturnInOrder(j, i)
          /\ \A m \in KnownAt(j) : Ranked(AsPush(i), sent[j][m])
      BY <2>1, <3>1 DEF PagesInv
    <3>3. AsPush(i).kind \in PageKinds
      BY <3>1 DEF AsPush, InFlight
    <3>4. PICK p : p = AsPush(i)
      OBVIOUS
    <3>5. Spent(j, p)'
      BY <2>3, <3>2, <3>4
    <3>6. Spent(j, AsPush(i))'
      BY <3>4, <3>5 DEF AsPush
    <3>7. ReturnInOrder(j, i)'
      <4>1. i.alerted_at \in Nat
        BY <3>2, WholeSecondsKeep DEF ReturnInOrder
      <4>2. i.alerted_at <= Horizon'
        BY <1>2, <3>2, <4>1 DEF ReturnInOrder
      <4> QED BY <1>4, <1>6, <3>2, <4>2 DEF ReturnInOrder
    <3> QED BY <3>2, <3>3, <3>6, <3>7
  <2>8. PagesInv(j)'
    <3>1. \A m \in KnownAt(j)' : Spent(j, sent[j][m])'
      BY <1>6, <2>4
    <3>2. ASSUME NEW u \in Threads, NEW i \in InFlight(u, j)'
          PROVE  /\ Spent(j, AsPush(i))' /\ ReturnInOrder(j, i)'
                 /\ \A m \in KnownAt(j)' : Ranked(AsPush(i), sent'[j][m])
      BY <1>6, <2>4, <2>6, <2>7, <3>2
    <3>3. ASSUME NEW u \in Threads, NEW i \in InFlight(u, j)', NEW w \in Threads, NEW k \in InFlight(w, j)'
          PROVE  (u = w /\ i = k) \/ Ranked(AsPush(i), AsPush(k))
      <4>1. CASE u = t /\ w = t
        BY <2>6, <3>3, <4>1
      <4>2. CASE u = t /\ w # t
        BY <2>6, <2>7, <3>3, <4>2
      <4>3. CASE u # t /\ w = t
        <5>1. Ranked(AsPush(k), AsPush(i))
          BY <2>6, <2>7, <3>3, <4>3
        <5> QED BY <5>1 DEF Ranked
      <4>4. CASE u # t /\ w # t
        BY <1>6, <2>1, <3>3, <4>4 DEF PagesInv
      <4> QED BY <4>1, <4>2, <4>3, <4>4
    <3> QED BY <2>5, <3>1, <3>2, <3>3 DEF PagesInv
  <2> QED BY <2>2, <2>8
<1> QED BY <1>1, <1>2, <1>8, <1>9 DEF RInv

\* Time alone takes nothing from a page that was spent.
LEMMA SpentStays ==
    ASSUME NEW j \in Jobs, row'[j] = row[j], Horizon \in Nat, Horizon' \in Nat, Horizon <= Horizon',
           NEW p, Spent(j, p)
    PROVE  Spent(j, p)'
<1>1. p.bad_since \in Nat /\ ISO_S \in Nat
  BY WholeSecondsKeep, DurationAssumption DEF Spent
<1>2. p.bad_since + ISO_S <= Horizon => p.bad_since + ISO_S <= Horizon'
  BY <1>1
<1> QED BY <1>2 DEF Spent, Over

\* A step that leaves a job's row, log and acknowledged pages, and takes up no page about it.
LEMMA QuietPages ==
    ASSUME NEW j \in Jobs, RowInOrder(j), PagesInv(j), row'[j] = row[j], log'[j] = log[j],
           Horizon \in Nat, Horizon' \in Nat, Horizon <= Horizon',
           KnownAt(j)' = KnownAt(j), \A m \in KnownAt(j) : sent'[j][m] = sent[j][m],
           \A t \in Threads : InFlight(t, j)' \subseteq InFlight(t, j)
    PROVE  RowInOrder(j)' /\ PagesInv(j)'
<1>1. \A at \in WholeSeconds : at \in Nat /\ (at <= Horizon => at <= Horizon')
  <2> SUFFICES ASSUME NEW at \in WholeSeconds PROVE at \in Nat /\ (at <= Horizon => at <= Horizon')
    OBVIOUS
  <2>1. at \in Nat
    BY WholeSecondsKeep
  <2> QED BY <2>1
<1>2. RowInOrder(j)'
  BY <1>1 DEF RowInOrder, Stamped
<1>3. ASSUME NEW m \in KnownAt(j)' PROVE Spent(j, sent[j][m])'
  <2>1. PICK p : p = sent[j][m] /\ p = sent'[j][m]
    BY <1>3
  <2>2. Spent(j, p)
    BY <1>3, <2>1 DEF PagesInv
  <2>3. Spent(j, p)'
    BY <2>2, SpentStays
  <2> QED BY <2>1, <2>3 DEF Spent, Over
<1>4. ASSUME NEW t \in Threads, NEW i \in InFlight(t, j)'
      PROVE  /\ Spent(j, AsPush(i))' /\ ReturnInOrder(j, i)'
             /\ \A m \in KnownAt(j)' : Ranked(AsPush(i), sent'[j][m])
  <2>1. /\ Spent(j, AsPush(i)) /\ ReturnInOrder(j, i)
        /\ \A m \in KnownAt(j) : Ranked(AsPush(i), sent[j][m])
    BY <1>4 DEF PagesInv
  <2>2. PICK p : p = AsPush(i)
    OBVIOUS
  <2>3. Spent(j, p)'
    BY <2>1, <2>2, SpentStays
  <2>4. Spent(j, AsPush(i))'
    BY <2>2, <2>3 DEF AsPush
  <2>5. ReturnInOrder(j, i)'
    BY <1>1, <2>1 DEF ReturnInOrder
  <2> QED BY <2>1, <2>4, <2>5
<1>5. \A m, n \in KnownAt(j)' : m # n => Ranked(sent'[j][m], sent'[j][n])
  BY DEF PagesInv
<1>6. ASSUME NEW t \in Threads, NEW i \in InFlight(t, j)', NEW u \in Threads, NEW k \in InFlight(u, j)'
      PROVE  (t = u /\ i = k) \/ Ranked(AsPush(i), AsPush(k))
  <2>1. i \in InFlight(t, j) /\ k \in InFlight(u, j)
    BY <1>6
  <2> QED BY <2>1 DEF PagesInv
<1>7. PagesInv(j)'
  BY <1>3, <1>4, <1>5, <1>6 DEF PagesInv
<1> QED BY <1>2, <1>7

\* What one more push adds to the acknowledged pages.
LEMMA KnownAtAppend ==
    ASSUME NEW j \in Jobs, sent[j] \in Seq(Push), NEW p \in Push,
           sent'[j] = Append(sent[j], p)
    PROVE  LET z == Len(sent[j]) + 1
           IN  /\ z \notin KnownAt(j) /\ sent'[j][z] = p
               /\ \A m \in KnownAt(j) : sent'[j][m] = sent[j][m]
               /\ KnownAt(j)' = IF p.kind \in PageKinds /\ p.known THEN KnownAt(j) \cup {z} ELSE KnownAt(j)
<1> DEFINE z == Len(sent[j]) + 1
<1>1. /\ Append(sent[j], p) \in Seq(Push)
      /\ Len(Append(sent[j], p)) = Len(sent[j]) + 1
      /\ \A i \in 1..Len(sent[j]) : Append(sent[j], p)[i] = sent[j][i]
      /\ Append(sent[j], p)[Len(sent[j]) + 1] = p
  BY AppendProperties
<1>2. /\ Len(sent[j]) \in Nat /\ DOMAIN sent[j] = 1..Len(sent[j])
      /\ DOMAIN Append(sent[j], p) = 1..Len(Append(sent[j], p))
  BY <1>1, LenProperties
<1>3. /\ DOMAIN sent'[j] = DOMAIN sent[j] \cup {z} /\ z \notin DOMAIN sent[j]
      /\ sent'[j][z] = p /\ \A n \in DOMAIN sent[j] : sent'[j][n] = sent[j][n]
  BY <1>1, <1>2
<1> HIDE DEF z
<1>4. KnownAt(j)' = IF p.kind \in PageKinds /\ p.known THEN KnownAt(j) \cup {z} ELSE KnownAt(j)
  BY <1>3 DEF KnownAt
<1> QED BY <1>3, <1>4 DEF KnownAt, z

\* One POST: a page that is acknowledged joins those it outranks; one that fails waits for its
\* hand-back.
LEMMA DispatchRInv ==
    ASSUME RInv, DistinctPages, NEW t \in Threads, Dispatch(t)
    PROVE  RInv'
<1>1. IInv'
  BY DispatchIInv DEF RInv
<1>2. PICK j \in Jobs, o \in Outcomes :
        LET i == Head(queue[t][j])
        IN  /\ is_next(t, j)
            /\ queue' = [queue EXCEPT ![t][j] = Tail(queue[t][j])]
            /\ unsent' = [unsent EXCEPT ![t] =
                  IF i.kind \in PageKinds /\ ~o.ok /\ NotifierEnabled
                  THEN @ \cup {i} ELSE @]
            /\ sent' = IF ~o.landed THEN sent
                       ELSE [sent EXCEPT ![j] = Append(@,
                          [kind |-> i.kind, state |-> i.state,
                           bad_since |-> i.bad_since, at |-> i.alerted_at,
                           known |-> o.ok])]
            /\ pc' = [pc EXCEPT ![t] =
                  IF queue'[t] # NoIntents THEN "post"
                  ELSE IF unsent'[t] # {} THEN "give_back"
                  ELSE after_pass(t, todo[t])]
  BY DEF Dispatch
<1> DEFINE q == queue[t][j]
<1>2a. PICK i : i = Head(q)
  OBVIOUS
<1> DEFINE p == [kind |-> i.kind, state |-> i.state, bad_since |-> i.bad_since,
                 at |-> i.alerted_at, known |-> o.ok]
<1>3. q \in Seq(AlertIntent) /\ q # <<>>
  BY <1>2 DEF RInv, IInv, TypeOK, is_next
<1>4. /\ i \in AlertIntent /\ i = q[1] /\ 1 \in DOMAIN q
      /\ \A n \in DOMAIN Tail(q) : /\ n + 1 \in DOMAIN q /\ n + 1 # 1
                                   /\ Tail(q)[n] = q[n + 1]
  <2>1. /\ Head(q) \in AlertIntent /\ Tail(q) \in Seq(AlertIntent)
        /\ Len(Tail(q)) = Len(q) - 1
        /\ \A n \in 1..Len(Tail(q)) : Tail(q)[n] = q[n + 1]
    BY <1>3, HeadTailProperties
  <2>2. /\ Len(q) \in Nat \ {0} /\ DOMAIN q = 1..Len(q)
        /\ DOMAIN Tail(q) = 1..Len(Tail(q)) /\ Head(q) = q[1]
    BY <1>3, <2>1, LenProperties, EmptySeq
  <2> HIDE DEF q
  <2> QED BY <1>2a, <2>1, <2>2 DEF q
<1>5. \A n \in DOMAIN q : /\ q[n].job = j
                          /\ q[n].kind \in PageKinds => n = 1 /\ \A x \in unsent[t] : x.job # j
  BY DEF RInv, Senders, SendersOf
<1>6. /\ o.ok \in BOOLEAN /\ (o.ok => o.landed)
      /\ ~o.ok /\ NotifierEnabled => PostsCanFail
  <2>1. o.ok \in BOOLEAN /\ (o.ok => o.landed)
    BY DEF Outcomes
  <2>2. ASSUME ~o.ok, NotifierEnabled PROVE PostsCanFail
    <3>1. "post_fails" \in Faults \/ "answer_lost" \in Faults
      BY <2>2 DEF Outcomes
    <3> QED BY <3>1 DEF PostsCanFail
  <2> QED BY <2>1, <2>2
<1>7. /\ row' = row /\ log' = log /\ read' = read /\ todo' = todo /\ clock' = clock
      /\ pc[t] = "post"
  BY DEF Dispatch
<1> HIDE DEF q
<1>8. /\ queue' = [queue EXCEPT ![t] = [queue[t] EXCEPT ![j] = Tail(q)]]
      /\ unsent' = [unsent EXCEPT ![t] =
            IF i.kind \in PageKinds /\ ~o.ok /\ NotifierEnabled
            THEN unsent[t] \cup {i} ELSE unsent[t]]
      /\ sent' = IF ~o.landed THEN sent
                 ELSE [sent EXCEPT ![j] = Append(sent[j], p)]
      /\ pc' = [pc EXCEPT ![t] =
            IF queue'[t] # NoIntents THEN "post"
            ELSE IF unsent'[t] # {} THEN "give_back"
            ELSE after_pass(t, todo[t])]
  BY <1>2, <1>2a DEF q
<1>9. p \in Push
  BY <1>4, <1>6 DEF AlertIntent, Push
<1>10. p.kind = i.kind /\ p.known = o.ok /\ (o.ok => p = AsPush(i))
  BY <1>6 DEF AsPush
<1> HIDE DEF p
<1>11. \A k \in Jobs : queue'[t][k] = IF k = j THEN Tail(q) ELSE queue[t][k]
  BY <1>8 DEF RInv, IInv, TypeOK
<1>12. unsent'[t] = IF i.kind \in PageKinds /\ ~o.ok /\ NotifierEnabled
                    THEN unsent[t] \cup {i} ELSE unsent[t]
  BY <1>8 DEF RInv, IInv, TypeOK
<1>13. i.job = j /\ queue[t][j] = q
  BY <1>4, <1>5 DEF q
<1>14. \A u \in Threads : u # t =>
         /\ pc'[u] = pc[u] /\ queue'[u] = queue[u] /\ unsent'[u] = unsent[u]
         /\ \A k \in Jobs : InFlight(u, k)' = InFlight(u, k)
  <2> SUFFICES ASSUME NEW u \in Threads, u # t
               PROVE  /\ pc'[u] = pc[u] /\ queue'[u] = queue[u] /\ unsent'[u] = unsent[u]
                      /\ \A k \in Jobs : InFlight(u, k)' = InFlight(u, k)
    OBVIOUS
  <2>1. pc'[u] = pc[u] /\ queue'[u] = queue[u] /\ unsent'[u] = unsent[u]
    BY <1>8 DEF RInv, IInv, TypeOK
  <2> QED BY <2>1 DEF InFlight
<1>15. \A k \in Jobs : InFlight(t, k)' \subseteq InFlight(t, k)
  <2> SUFFICES ASSUME NEW k \in Jobs, NEW x \in InFlight(t, k)'
               PROVE  x \in InFlight(t, k)
    OBVIOUS
  <2>1. CASE x \in unsent'[t]
    BY <2>1, <1>4, <1>12, <1>13 DEF InFlight
  <2>2. CASE x \notin unsent'[t]
    <3>1. PICK n \in DOMAIN queue'[t][k] : x = queue'[t][k][n]
      BY <2>2 DEF InFlight
    <3>2. \E m \in DOMAIN queue[t][k] : x = queue[t][k][m]
      <4>1. CASE k = j
        <5>1. queue'[t][k] = Tail(q) /\ queue[t][k] = q
          BY <4>1, <1>11, <1>13
        <5> QED BY <3>1, <5>1, <1>4
      <4>2. CASE k # j
        BY <3>1, <4>2, <1>11
      <4> QED BY <4>1, <4>2
    <3> QED BY <3>2 DEF InFlight
  <2> QED BY <2>1, <2>2
<1>16. ASSUME i.kind \in PageKinds, o.ok
       PROVE  InFlight(t, j)' = {} /\ i \in InFlight(t, j)
  <2>1. \A n \in DOMAIN queue'[t][j] : queue'[t][j][n].kind \notin PageKinds
    <3>1. \A n \in DOMAIN q : q[n].kind \in PageKinds => n = 1
      BY <1>5
    <3> QED BY <1>4, <1>11, <3>1
  <2>2. \A x \in unsent'[t] : x.job # j
    BY <1>4, <1>5, <1>12, <1>16
  <2>3. InFlight(t, j)' = {}
    BY <2>1, <2>2 DEF InFlight
  <2> QED BY <2>3, <1>4, <1>13, <1>16 DEF InFlight
<1>17. Senders'
  <2>1. /\ pc'[t] = "idle" => todo'[t] = <<>>
        /\ pc'[t] \in {"idle", "begin"} => queue'[t] = NoIntents /\ unsent'[t] = {}
        /\ pc'[t] = "give_back" => queue'[t] = NoIntents
    BY <1>7, <1>8 DEF after_pass, RInv, IInv, TypeOK
  <2>2. ASSUME NEW k \in Jobs, NEW n \in DOMAIN queue'[t][k]
        PROVE  /\ queue'[t][k][n].job = k
               /\ queue'[t][k][n].kind \in PageKinds =>
                     n = 1 /\ \A x \in unsent'[t] : x.job # k
    <3>1. CASE k = j
      <4>1. queue'[t][k] = Tail(q)
        BY <3>1, <1>11
      <4>2. /\ n + 1 \in DOMAIN q /\ n + 1 # 1
            /\ queue'[t][k][n] = q[n + 1]
        BY <2>2, <4>1, <1>4
      <4> QED BY <3>1, <4>2, <1>5
    <3>2. CASE k # j
      <4>1. queue'[t][k] = queue[t][k] /\ \A x \in unsent'[t] : x \in unsent[t] \/ x.job = j
        BY <3>2, <1>11, <1>12, <1>13
      <4> QED BY <2>2, <3>2, <4>1 DEF RInv, Senders, SendersOf
    <3> QED BY <3>1, <3>2
  <2>3. /\ read'[t] <= clock' /\ SendersOf(t)
    BY <1>7 DEF RInv, Senders, SendersOf
  <2>4. /\ \A x, k \in unsent'[t] : x.job = k.job => x = k
        /\ ~PostsCanFail => unsent'[t] = {}
    <3>1. CASE i.kind \in PageKinds /\ ~o.ok /\ NotifierEnabled
      <4>1. unsent'[t] = unsent[t] \cup {i} /\ \A x \in unsent[t] : x.job # i.job
        BY <3>1, <1>4, <1>5, <1>12, <1>13
      <4> QED BY <1>6, <2>3, <3>1, <4>1 DEF SendersOf
    <3>2. CASE ~(i.kind \in PageKinds /\ ~o.ok /\ NotifierEnabled)
      <4>1. unsent'[t] = unsent[t]
        BY <3>2, <1>12
      <4> QED BY <2>3, <4>1 DEF SendersOf
    <3> QED BY <3>1, <3>2
  <2>5. SendersOf(t)'
    BY <2>1, <2>2, <2>3, <2>4 DEF SendersOf
  <2>6. ASSUME NEW u \in Threads, u # t PROVE SendersOf(u)'
    <3>1. SendersOf(u)
      BY DEF RInv, Senders
    <3> QED BY <1>7, <1>14, <2>6, <3>1 DEF SendersOf
  <2> QED BY <2>5, <2>6 DEF Senders
<1>18. Horizon' = Horizon /\ Horizon \in Nat
  BY <1>7, ThreadAssumption DEF Horizon, RInv, IInv, TypeOK
<1>19. Readings'
  <2>1. \A u \in Threads : todo[u] # <<>> /\ pc[u] = "begin" => pc'[u] = pc[u]
    BY <1>7, <1>14
  <2> QED BY <1>7, <2>1 DEF RInv, Readings
<1>20. sent \in [Jobs -> Seq(Push)]
  BY DEF RInv, IInv, TypeOK
<1>21. /\ \A k \in Jobs : k # j => sent'[k] = sent[k]
       /\ o.landed => sent'[j] = Append(sent[j], p)
       /\ ~o.landed => sent'[j] = sent[j]
  BY <1>8, <1>20
<1>22. ASSUME NEW k \in Jobs, KnownAt(k)' = KnownAt(k), \A m \in KnownAt(k) : sent'[k][m] = sent[k][m]
       PROVE  RowInOrder(k)' /\ PagesInv(k)'
  <2>1. \A u \in Threads : InFlight(u, k)' \subseteq InFlight(u, k)
    BY <1>14, <1>15
  <2>2. RowInOrder(k) /\ PagesInv(k)
    BY DEF RInv
  <2> QED BY <1>7, <1>18, <1>22, <2>1, <2>2, QuietPages
<1>23. ASSUME NEW k \in Jobs, k # j PROVE RowInOrder(k)' /\ PagesInv(k)'
  <2>1. sent'[k] = sent[k]
    BY <1>21, <1>23
  <2>2. KnownAt(k)' = KnownAt(k)
    BY <2>1 DEF KnownAt
  <2> QED BY <1>22, <2>1, <2>2
<1>24. ASSUME ~(i.kind \in PageKinds /\ o.ok) PROVE RowInOrder(j)' /\ PagesInv(j)'
  <2>1. CASE o.landed
    <3>1. KnownAt(j)' = KnownAt(j) /\ \A m \in KnownAt(j) : sent'[j][m] = sent[j][m]
      BY <1>9, <1>10, <1>20, <1>21, <1>24, <2>1, KnownAtAppend
    <3> QED BY <1>22, <3>1
  <2>2. CASE ~o.landed
    <3>1. sent'[j] = sent[j]
      BY <1>21, <2>2
    <3>2. KnownAt(j)' = KnownAt(j)
      BY <3>1 DEF KnownAt
    <3> QED BY <1>22, <3>1, <3>2
  <2> QED BY <2>1, <2>2
<1>25. ASSUME i.kind \in PageKinds, o.ok PROVE RowInOrder(j)' /\ PagesInv(j)'
  <2> DEFINE z == Len(sent[j]) + 1
  <2>1. /\ z \notin KnownAt(j) /\ sent'[j][z] = p /\ \A m \in KnownAt(j) : sent'[j][m] = sent[j][m]
        /\ KnownAt(j)' = KnownAt(j) \cup {z}
    BY <1>6, <1>9, <1>10, <1>20, <1>21, <1>25, KnownAtAppend
  <2> HIDE DEF z
  <2>2. InFlight(t, j)' = {} /\ i \in InFlight(t, j) /\ p = AsPush(i)
    BY <1>10, <1>16, <1>25
  <2>3. RowInOrder(j) /\ PagesInv(j)
    BY DEF RInv
  <2>4. RowInOrder(j)'
    BY <1>7, <1>18, <2>3 DEF RowInOrder, Stamped
  <2>5. ASSUME NEW x, Spent(j, x) PROVE Spent(j, x)'
    BY <1>7, <1>18, <2>5, SpentStays
  <2>6. /\ Spent(j, p) /\ \A m \in KnownAt(j) : Ranked(p, sent[j][m])
    BY <2>2, <2>3 DEF PagesInv
  <2>7. ASSUME NEW m \in KnownAt(j)' PROVE Spent(j, sent[j][m])'
    <3>1. PICK x : x = sent'[j][m]
      OBVIOUS
    <3>2. Spent(j, x)
      BY <2>1, <2>3, <2>6, <2>7, <3>1 DEF PagesInv
    <3>3. Spent(j, x)'
      BY <2>5, <3>2
    <3> QED BY <3>1, <3>3 DEF Spent, Over
  <2>8. \A m, n \in KnownAt(j)' : m # n => Ranked(sent'[j][m], sent'[j][n])
    <3> SUFFICES ASSUME NEW m \in KnownAt(j)', NEW n \in KnownAt(j)', m # n
                 PROVE  Ranked(sent'[j][m], sent'[j][n])
      OBVIOUS
    <3>1. CASE m = z
      BY <2>1, <2>6, <3>1
    <3>2. CASE n = z
      <4>1. Ranked(p, sent[j][m]) /\ sent'[j][m] = sent[j][m] /\ sent'[j][n] = p
        BY <2>1, <2>6, <3>2
      <4> QED BY <4>1 DEF Ranked
    <3>3. CASE m # z /\ n # z
      <4>1. m \in KnownAt(j) /\ n \in KnownAt(j)
        BY <2>1, <3>3
      <4> QED BY <2>1, <2>3, <4>1 DEF PagesInv
    <3> QED BY <3>1, <3>2, <3>3
  <2>9. ASSUME NEW u \in Threads, NEW k \in InFlight(u, j)'
        PROVE  /\ u # t /\ k \in InFlight(u, j)
               /\ Spent(j, AsPush(k))' /\ ReturnInOrder(j, k)'
               /\ \A m \in KnownAt(j)' : Ranked(AsPush(k), sent'[j][m])
    <3>1. u # t /\ k \in InFlight(u, j)
      BY <1>14, <2>2, <2>9
    <3>2. /\ Spent(j, AsPush(k)) /\ ReturnInOrder(j, k) /\ Ranked(AsPush(k), p)
          /\ \A m \in KnownAt(j) : Ranked(AsPush(k), sent[j][m])
      BY <2>2, <2>3, <3>1 DEF PagesInv
    <3>3. PICK x : x = AsPush(k)
      OBVIOUS
    <3>4. Spent(j, x)'
      BY <2>5, <3>2, <3>3
    <3>5. Spent(j, AsPush(k))'
      BY <3>3, <3>4 DEF AsPush
    <3>6. ~PostsCanFail
      <4>1. ~OneThread
        BY <3>1 DEF OneThread
      <4> QED BY <4>1 DEF DistinctPages, FreshReadings
    <3>7. ReturnInOrder(j, k)'
      BY <1>18, <3>2, <3>6 DEF ReturnInOrder
    <3>8. \A m \in KnownAt(j)' : Ranked(AsPush(k), sent'[j][m])
      BY <2>1, <3>2
    <3> QED BY <3>1, <3>5, <3>7, <3>8
  <2>10. ASSUME NEW u \in Threads, NEW x \in InFlight(u, j)', NEW w \in Threads, NEW k \in InFlight(w, j)'
         PROVE  (u = w /\ x = k) \/ Ranked(AsPush(x), AsPush(k))
    <3>1. x \in InFlight(u, j) /\ k \in InFlight(w, j)
      BY <2>9, <2>10
    <3> QED BY <2>3, <3>1 DEF PagesInv
  <2>11. PagesInv(j)'
    BY <2>7, <2>8, <2>9, <2>10 DEF PagesInv
  <2> QED BY <2>4, <2>11
<1>26. \A k \in Jobs : RowInOrder(k)' /\ PagesInv(k)'
  BY <1>23, <1>24, <1>25
<1> QED BY <1>1, <1>17, <1>19, <1>26 DEF RInv

\* The hand-back leaves the row with stamps that answer for every acknowledged page.
LEMMA ReturnRInv ==
    ASSUME RInv, DistinctPages, NEW t \in Threads, ReturnUnsentPages(t)
    PROVE  RInv'
<1>1. IInv'
  BY ReturnIInv DEF RInv
<1>2. /\ queue[t] = NoIntents /\ queue' = queue /\ unsent' = [unsent EXCEPT ![t] = {}] /\ log' = log
      /\ sent' = sent /\ read' = read /\ todo' = todo /\ clock' = clock
      /\ pc[t] = "give_back" /\ pc' = [pc EXCEPT ![t] = after_pass(t, todo[t])]
  BY DEF RInv, Senders, SendersOf, ReturnUnsentPages
<1>3. /\ unsent'[t] = {} /\ pc'[t] = after_pass(t, todo[t])
      /\ \A u \in Threads : u # t => unsent'[u] = unsent[u] /\ pc'[u] = pc[u]
  BY <1>2 DEF RInv, IInv, TypeOK
<1>4. /\ \A j \in Jobs : InFlight(t, j)' = {} /\ KnownAt(j)' = KnownAt(j)
      /\ \A j \in Jobs, u \in Threads : u # t => InFlight(u, j)' = InFlight(u, j)
  BY <1>2, <1>3 DEF InFlight, NoIntents, KnownAt
<1>5. Horizon' = Horizon /\ Horizon \in Nat
  BY <1>2, ThreadAssumption DEF Horizon, RInv, IInv, TypeOK
<1>6. Readings'
  <2>1. \A u \in Threads : todo[u] # <<>> /\ pc[u] = "begin" => pc'[u] = pc[u]
    BY <1>2, <1>3
  <2> QED BY <1>2, <2>1 DEF RInv, Readings
<1>7. Senders'
  <2>1. \A j \in Jobs : queue'[t][j] = <<>>
    BY <1>2 DEF NoIntents
  <2>2. SendersOf(t)'
    BY <1>2, <1>3, <2>1 DEF RInv, Senders, SendersOf, after_pass
  <2>3. ASSUME NEW u \in Threads, u # t PROVE SendersOf(u)'
    <3>1. SendersOf(u)
      BY DEF RInv, Senders
    <3> QED BY <1>2, <1>3, <2>3, <3>1 DEF SendersOf
  <2> QED BY <2>2, <2>3 DEF Senders
<1>8. ASSUME NEW j \in Jobs PROVE RowInOrder(j)' /\ PagesInv(j)'
  <2>1. RowInOrder(j) /\ PagesInv(j) /\ row[j] \in Row
    BY DEF RInv, IInv, TypeOK
  <2>2. CASE ~\E i \in unsent[t] : i.job = j /\ same_episode(i)
    <3>1. row'[j] = row[j]
      BY <2>2 DEF ReturnUnsentPages
    <3>2. \A u \in Threads : InFlight(u, j)' \subseteq InFlight(u, j)
      BY <1>4
    <3> QED BY <1>2, <1>4, <1>5, <2>1, <3>1, <3>2, QuietPages
  <2>3. CASE \E i \in unsent[t] : i.job = j /\ same_episode(i)
    <3>1. PICK i \in unsent[t] : i.job = j /\ same_episode(i)
                                 /\ row'[j] = row_given_back(row[j], i)
      BY <2>3 DEF ReturnUnsentPages
    <3>2. i \in InFlight(t, j)
      BY <3>1 DEF InFlight, RInv, IInv, EpisodeShape
    <3>3. PostsCanFail
      BY <3>1 DEF RInv, Senders, SendersOf
    <3>4. OneThread /\ \A u \in Threads : u = t
      <4>1. OneThread
        BY <3>3 DEF DistinctPages, FreshReadings
      <4> QED BY <4>1 DEF OneThread
    <3>5. /\ row'[j].state = row[j].state /\ row'[j].since = row[j].since
          /\ row'[j].bad_since = row[j].bad_since /\ row[j].bad_since = i.bad_since
          /\ row'[j].alerted_at = i.prev_alerted_at /\ row'[j].alerted_state = i.prev_alerted_state
      BY <2>1, <3>1 DEF row_given_back, same_episode, Row
    <3>6. ReturnInOrder(j, i)
      BY <2>1, <3>2 DEF PagesInv
    <3>7. i.prev_alerted_at # None => /\ i.prev_alerted_at \in WholeSeconds
                                      /\ i.prev_alerted_at <= Horizon
      <4> SUFFICES ASSUME i.prev_alerted_at # None
                   PROVE  i.prev_alerted_at \in WholeSeconds /\ i.prev_alerted_at <= Horizon
        OBVIOUS
      <4>1. /\ i.prev_alerted_at \in WholeSeconds /\ i.prev_alerted_at <= i.alerted_at
            /\ i.alerted_at \in WholeSeconds /\ i.alerted_at <= Horizon
        BY <3>6 DEF ReturnInOrder
      <4>2. i.prev_alerted_at \in Nat /\ i.alerted_at \in Nat
        BY <4>1, WholeSecondsKeep
      <4> QED BY <1>5, <4>1, <4>2
    <3>8. RowInOrder(j)'
      <4>1. i.prev_alerted_state # None => alert_severity(i.prev_alerted_state) >= 1
        BY <3>6 DEF ReturnInOrder
      <4> QED BY <1>2, <1>5, <2>1, <3>5, <3>7, <4>1 DEF RowInOrder, Stamped
    <3>9. ASSUME NEW m \in KnownAt(j)' PROVE Spent(j, sent[j][m])'
      <4>1. PICK p : p = sent[j][m] /\ p = sent'[j][m]
        BY <1>2
      <4>2. Spent(j, p) /\ m \in KnownAt(j)
        BY <1>4, <2>1, <3>9, <4>1 DEF PagesInv
      <4>3. p.bad_since = i.bad_since => Covers(i.prev_alerted_at, i.prev_alerted_state, p)
        BY <3>3, <3>6, <4>1, <4>2 DEF ReturnInOrder
      <4> QED BY <1>5, <3>5, <4>1, <4>2, <4>3 DEF Spent, Over
    <3>10. \A u \in Threads : InFlight(u, j)' = {}
      BY <1>4, <3>4
    <3>11. \A m, n \in KnownAt(j)' : m # n => Ranked(sent'[j][m], sent'[j][n])
      BY <1>2, <1>4, <2>1 DEF PagesInv
    <3>12. PagesInv(j)'
      BY <3>9, <3>10, <3>11 DEF PagesInv
    <3> QED BY <3>8, <3>12
  <2> QED BY <2>2, <2>3
<1> QED BY <1>1, <1>6, <1>7, <1>8 DEF RInv

\* Rows of an older version carry a page nobody vouches for.
LEMMA InitRInv == ASSUME DistinctPages PROVE Init => RInv
<1> SUFFICES ASSUME Init PROVE RInv
  OBVIOUS
<1>1. IInv
  BY InitIInv
<1>2. /\ \A t \in Threads : /\ queue[t] = NoIntents /\ unsent[t] = {} /\ read[t] = 0
                            /\ todo[t] = <<>> /\ pc[t] = "idle"
      /\ clock = 0 /\ SCHEDULER \in Threads
  BY ThreadAssumption DEF Init
<1>3. \A t \in Threads, j \in Jobs : queue[t][j] = <<>> /\ InFlight(t, j) = {}
  BY <1>2 DEF NoIntents, InFlight
<1>4. Senders
  BY <1>2, <1>3 DEF Senders, SendersOf
<1>5. Readings
  <2>1. DOMAIN todo[SCHEDULER] = {}
    BY <1>2
  <2> QED BY <1>2, <2>1 DEF Readings, DistinctPages
<1>6. Horizon = 0 /\ 0 \in WholeSeconds
  <2>1. ISO_S * 0 = 0
    BY DurationAssumption
  <2> QED BY <1>2, <2>1 DEF WholeSeconds, Horizon
<1>7. ASSUME NEW j \in Jobs PROVE RowInOrder(j) /\ KnownAt(j) = {}
  <2>1. row[j] \in InitialRows(j)
    BY DEF Init
  <2>2. CASE row[j] = FreshRow
    <3>1. sent[j] = <<>> /\ log[j] = <<>>
      BY <2>2 DEF Init
    <3>2. KnownAt(j) = {}
      BY <3>1 DEF KnownAt
    <3>3. /\ row[j].bad_since = None /\ row[j].alerted_at = None /\ row[j].alerted_state = None
          /\ row[j].state = "UNKNOWN"
      BY <2>2 DEF FreshRow
    <3> QED BY <3>1, <3>2, <3>3 DEF RowInOrder
  <2>3. CASE row[j] # FreshRow
    <3>1. PICK st \in ALERTABLE_STATES, p \in {None, 0} : row[j] = UpgradedRow(st, p)
      BY <2>1, <2>3 DEF InitialRows
    <3>2. row[j] = [state |-> st, since |-> 0, bad_since |-> 0, alerted_at |-> 0,
                    alerted_state |-> None, last_paged_at |-> p]
      BY <3>1 DEF UpgradedRow, FreshRow
    <3> DEFINE x == [kind |-> "alert", state |-> "UNKNOWN", bad_since |-> 0,
                     at |-> 0, known |-> FALSE]
               y == [at |-> 0, to |-> row[j].state]
    <3>3. sent[j] = <<x>> /\ log[j] = <<y>> /\ ~x.known /\ y.to = st
      <4>1. sent[j] = <<x>> /\ log[j] = <<y>>
        BY <2>3 DEF Init
      <4>2. ~x.known /\ y.to = row[j].state
        OBVIOUS
      <4>3. row[j].state = st
        BY <3>2
      <4> QED BY <4>1, <4>2, <4>3
    <3> HIDE DEF x, y
    <3>4. KnownAt(j) = {}
      <4>1. \A n \in DOMAIN sent[j] : sent[j][n] = x
        BY <3>3
      <4> QED BY <3>3, <4>1 DEF KnownAt
    <3>5. DOMAIN log[j] = {1} /\ log[j][1].to = st
      BY <3>3
    <3>6. st # "OK" /\ st # "UNKNOWN"
      BY <3>1 DEF ALERTABLE_STATES
    <3>7. /\ row[j].state = st /\ row[j].bad_since = 0 /\ row[j].alerted_at = 0
          /\ row[j].alerted_state = None
      BY <3>2
    <3> QED BY <1>6, <3>4, <3>5, <3>6, <3>7, NoneAssumption DEF RowInOrder, Stamped
  <2> QED BY <2>2, <2>3
<1>8. \A j \in Jobs : PagesInv(j)
  BY <1>3, <1>7 DEF PagesInv
<1> QED BY <1>1, <1>4, <1>5, <1>7, <1>8 DEF RInv

\* Every step under which readings are used in order and jobs stay heard from.
LEMMA NextRInv ==
    ASSUME DistinctPages PROVE RInv /\ [Next]_vars /\ [StaysHeardFrom]_vars => RInv'
<1> SUFFICES ASSUME RInv, [Next]_vars, [StaysHeardFrom]_vars PROVE RInv'
  OBVIOUS
<1>1. IInv'
  BY NextIInv DEF RInv
<1>2. /\ clock \in Nat /\ read[SCHEDULER] \in Nat /\ read[SCHEDULER] <= clock
      /\ clock' \in Nat /\ read'[SCHEDULER] \in Nat /\ SCHEDULER \in Threads
      /\ Horizon \in Nat /\ Horizon <= clock /\ Horizon' \in Nat
      /\ \A t \in Threads : read[t] <= clock /\ read[t] \in Nat
  BY <1>1, ThreadAssumption DEF RInv, Senders, SendersOf, IInv, TypeOK, Horizon
<1>3. ASSUME UNCHANGED <<row, log, sent>>, Horizon <= Horizon',
             \A t \in Threads, j \in Jobs : InFlight(t, j)' \subseteq InFlight(t, j)
      PROVE  \A j \in Jobs : RowInOrder(j)' /\ PagesInv(j)'
  <2> SUFFICES ASSUME NEW j \in Jobs PROVE RowInOrder(j)' /\ PagesInv(j)'
    OBVIOUS
  <2>1. KnownAt(j)' = KnownAt(j)
    BY <1>3 DEF KnownAt
  <2>2. RowInOrder(j) /\ PagesInv(j)
    BY DEF RInv
  <2> QED BY <1>2, <1>3, <2>1, <2>2, QuietPages
<1>4. CASE UNCHANGED vars
  <2>1. Horizon' = Horizon /\ \A t \in Threads, j \in Jobs : InFlight(t, j)' = InFlight(t, j)
    BY <1>4 DEF vars, thread, Horizon, InFlight
  <2>2. Senders' /\ Readings'
    BY <1>4 DEF vars, thread, Senders, SendersOf, Readings, RInv
  <2>3. \A j \in Jobs : RowInOrder(j)' /\ PagesInv(j)'
    BY <1>2, <1>3, <1>4, <2>1 DEF vars
  <2> QED BY <1>1, <2>2, <2>3 DEF RInv
<1>5. ASSUME NEW t \in Threads, Enter(t) PROVE RInv'
  <2>1. /\ pc[t] = "idle" /\ todo'[t] \in StepPlans \cup {<<"ping">>} /\ (t = SCHEDULER => todo'[t] \in StepPlans)
        /\ read' = [read EXCEPT ![t] = clock] /\ pc' = [pc EXCEPT ![t] = "begin"]
        /\ UNCHANGED <<clock, row, log, queue, unsent, sent>>
        /\ \A u \in Threads : u # t => todo'[u] = todo[u]
    BY <1>5 DEF Enter, RInv, IInv, TypeOK
  <2>2. /\ pc'[t] = "begin" /\ read'[t] = clock
        /\ \A u \in Threads : u # t => pc'[u] = pc[u] /\ read'[u] = read[u]
    BY <2>1 DEF RInv, IInv, TypeOK
  <2>3. todo[t] = <<>> /\ queue[t] = NoIntents /\ unsent[t] = {}
    BY <2>1 DEF RInv, Senders, SendersOf
  <2>4. Horizon <= Horizon'
    <3>1. CASE t = SCHEDULER
      BY <1>2, <2>1, <2>2, <3>1 DEF Horizon
    <3>2. CASE t # SCHEDULER
      BY <1>2, <2>1, <2>2, <3>2 DEF Horizon
    <3> QED BY <3>1, <3>2
  <2>5. Senders'
    <3>1. SendersOf(t) /\ SendersOf(t)'
      BY <1>2, <2>1, <2>2, <2>3 DEF RInv, Senders, SendersOf
    <3>2. ASSUME NEW u \in Threads, u # t PROVE SendersOf(u)'
      <4>1. SendersOf(u)
        BY DEF RInv, Senders
      <4> QED BY <2>1, <2>2, <3>2, <4>1 DEF SendersOf
    <3> QED BY <3>1, <3>2 DEF Senders
  <2>6. Readings'
    <3>1. CASE OneThread /\ \A n \in DOMAIN todo[SCHEDULER] :
                               todo[SCHEDULER][n] = "probe" => n = Len(todo[SCHEDULER])
      <4>1. t = SCHEDULER /\ todo'[SCHEDULER] \in StepPlans
        BY <2>1, <3>1 DEF OneThread
      <4> QED BY <3>1, <4>1 DEF Readings, OneThread
    <3>2. CASE FreshReadings /\ \A u \in Threads : todo[u] # <<>> =>
                                   pc[u] = "begin" /\ read[u] = clock /\ Len(todo[u]) = 1
      <4>1. Len(todo'[t]) = 1
        <5>1. Len(<<"ping">>) = 1
          OBVIOUS
        <5> QED BY <2>1, <3>2, <5>1 DEF FreshReadings
      <4>2. \A u \in Threads : todo'[u] # <<>> => pc'[u] = "begin" /\ read'[u] = clock' /\ Len(todo'[u]) = 1
        BY <2>1, <2>2, <3>2, <4>1
      <4> QED BY <3>2, <4>2 DEF Readings
    <3> QED BY <3>1, <3>2 DEF RInv, Readings
  <2>7. \A u \in Threads, j \in Jobs : InFlight(u, j)' = InFlight(u, j)
    BY <2>1 DEF InFlight
  <2>8. \A j \in Jobs : RowInOrder(j)' /\ PagesInv(j)'
    BY <1>3, <2>1, <2>4, <2>7
  <2> QED BY <1>1, <2>5, <2>6, <2>8 DEF RInv
<1>6. ASSUME NEW t \in Threads, RecomputePass(t) PROVE RInv'
  <2>1. todo' # todo
    <3>1. /\ todo[t] \in Seq(Passes) /\ todo[t] # <<>> /\ todo'[t] = Tail(todo[t])
      BY <1>6 DEF RecomputePass, RInv, IInv, TypeOK
    <3>2. Len(Tail(todo[t])) = Len(todo[t]) - 1 /\ Len(todo[t]) \in Nat
      BY <3>1, HeadTailProperties, LenProperties
    <3>3. ASSUME todo' = todo PROVE FALSE
      <4>1. Len(todo[t]) = Len(todo[t]) - 1
        BY <3>1, <3>2, <3>3
      <4> QED BY <3>2, <4>1
    <3> QED BY <3>3
  <2>2. StaysHeardFrom
    BY <2>1 DEF vars, thread
  <2> QED BY <1>6, <2>2, RecomputeRInv
<1>6a. ASSUME NEW t \in Threads, RecomputeFails(t) PROVE RInv'
  <2>1. /\ pc[t] = "begin" /\ todo[t] # <<>> /\ todo[t] \in Seq(Passes)
        /\ todo'[t] = Tail(todo[t]) /\ todo'[t] \in Seq(Passes)
        /\ pc'[t] = after_pass(t, Tail(todo[t]))
        /\ \A u \in Threads : u # t => pc'[u] = pc[u] /\ todo'[u] = todo[u]
        /\ UNCHANGED <<clock, row, log, read, queue, unsent, sent>>
    BY <1>6a, FailedPass DEF RInv
  <2>2. Horizon <= Horizon'
    BY <1>2, <2>1 DEF Horizon
  <2>3. Senders'
    <3>1. SendersOf(t)'
      BY <2>1 DEF RInv, Senders, SendersOf, after_pass
    <3>2. ASSUME NEW u \in Threads, u # t PROVE SendersOf(u)'
      <4>1. SendersOf(u)
        BY DEF RInv, Senders
      <4> QED BY <2>1, <3>2, <4>1 DEF SendersOf
    <3> QED BY <3>1, <3>2 DEF Senders
  <2>4. Readings'
    <3>1. CASE OneThread /\ \A n \in DOMAIN todo[SCHEDULER] :
                               todo[SCHEDULER][n] = "probe" => n = Len(todo[SCHEDULER])
      <4>1. t = SCHEDULER
        BY <3>1 DEF OneThread
      <4> QED BY <2>1, <3>1, <4>1, TailKeepsProbeLast DEF Readings
    <3>2. CASE FreshReadings /\ \A u \in Threads : todo[u] # <<>> =>
                                   pc[u] = "begin" /\ read[u] = clock /\ Len(todo[u]) = 1
      <4>1. todo'[t] = <<>>
        <5>1. Len(todo'[t]) = 0
          BY <2>1, <3>2, HeadTailProperties
        <5>2. PICK rest \in Seq(Passes) : rest = todo'[t]
          BY <2>1
        <5>3. rest = <<>>
          BY <5>1, <5>2, EmptySeq
        <5> QED BY <5>2, <5>3
      <4> QED BY <2>1, <3>2, <4>1 DEF Readings
    <3> QED BY <3>1, <3>2 DEF RInv, Readings
  <2>5. \A u \in Threads, j \in Jobs : InFlight(u, j)' = InFlight(u, j)
    BY <2>1 DEF InFlight
  <2>6. \A j \in Jobs : RowInOrder(j)' /\ PagesInv(j)'
    BY <1>3, <2>1, <2>2, <2>5
  <2> QED BY <1>1, <2>3, <2>4, <2>6 DEF RInv
<1>7. ASSUME NEW t \in Threads, Dispatch(t) PROVE RInv'
  BY <1>7, DispatchRInv
<1>8. ASSUME NEW t \in Threads, ReturnUnsentPages(t) PROVE RInv'
  BY <1>8, ReturnRInv
<1>9. ASSUME NEW t \in Threads, ReturnUnsentFails(t) PROVE RInv'
  <2>1. /\ pc[t] = "give_back" /\ unsent' = [unsent EXCEPT ![t] = {}]
        /\ pc' = [pc EXCEPT ![t] = after_pass(t, todo[t])]
        /\ UNCHANGED <<clock, row, log, read, todo, queue, sent>>
    BY <1>9 DEF ReturnUnsentFails
  <2>2. /\ pc'[t] = after_pass(t, todo[t]) /\ unsent'[t] = {} /\ queue'[t] = NoIntents
        /\ \A u \in Threads : u # t => pc'[u] = pc[u] /\ unsent'[u] = unsent[u]
    BY <2>1 DEF RInv, Senders, SendersOf, IInv, TypeOK
  <2>3. Senders'
    <3>1. \A j \in Jobs : queue'[t][j] = <<>>
      BY <2>2 DEF NoIntents
    <3>2. SendersOf(t)'
      BY <2>1, <2>2, <3>1 DEF RInv, Senders, SendersOf, after_pass
    <3>3. ASSUME NEW u \in Threads, u # t PROVE SendersOf(u)'
      <4>1. SendersOf(u)
        BY DEF RInv, Senders
      <4> QED BY <2>1, <2>2, <3>3, <4>1 DEF SendersOf
    <3> QED BY <3>2, <3>3 DEF Senders
  <2>4. Readings'
    <3>1. \A u \in Threads : todo[u] # <<>> /\ pc[u] = "begin" => pc'[u] = pc[u]
      BY <2>1, <2>2
    <3> QED BY <2>1, <3>1 DEF RInv, Readings
  <2>5. Horizon' = Horizon /\ \A u \in Threads, j \in Jobs : InFlight(u, j)' \subseteq InFlight(u, j)
    BY <2>1, <2>2 DEF Horizon, InFlight
  <2>6. \A j \in Jobs : RowInOrder(j)' /\ PagesInv(j)'
    BY <1>2, <1>3, <2>1, <2>5
  <2> QED BY <1>1, <2>3, <2>4, <2>6 DEF RInv
<1>10. CASE Advance
  <2>1. clock' = clock + 1 /\ UNCHANGED <<row, log, thread, sent>>
    BY <1>10 DEF Advance
  <2>2. Horizon <= Horizon'
    BY <1>2, <2>1 DEF Horizon, thread
  <2>3. Senders'
    <3>1. ASSUME NEW t \in Threads PROVE SendersOf(t)'
      <4>1. SendersOf(t) /\ read'[t] <= clock'
        BY <1>2, <2>1 DEF RInv, Senders, thread
      <4> QED BY <2>1, <4>1 DEF SendersOf, thread
    <3> QED BY <3>1 DEF Senders
  <2>4. Readings'
    <3>1. CASE OneThread /\ \A n \in DOMAIN todo[SCHEDULER] :
                               todo[SCHEDULER][n] = "probe" => n = Len(todo[SCHEDULER])
      BY <2>1, <3>1 DEF Readings, thread
    <3>2. CASE FreshReadings /\ \A u \in Threads : todo[u] # <<>> =>
                                   pc[u] = "begin" /\ read[u] = clock /\ Len(todo[u]) = 1
      <4>1. ASSUME NEW u \in Threads, pc[u] = "begin" PROVE FALSE
        <5>1. clock - read[u] < 0
          BY <1>10, <3>2, <4>1 DEF Advance, FreshReadings
        <5> QED BY <1>2, <5>1
      <4>2. \A u \in Threads : todo'[u] = <<>>
        BY <2>1, <3>2, <4>1 DEF thread
      <4> QED BY <3>2, <4>2 DEF Readings
    <3> QED BY <3>1, <3>2 DEF RInv, Readings
  <2>5. \A t \in Threads, j \in Jobs : InFlight(t, j)' = InFlight(t, j)
    BY <2>1 DEF InFlight, thread
  <2>6. \A j \in Jobs : RowInOrder(j)' /\ PagesInv(j)'
    BY <1>3, <2>1, <2>2, <2>5
  <2> QED BY <1>1, <2>3, <2>4, <2>6 DEF RInv
<1>11. ~ClockBack
  BY DEF DistinctPages, ClockBack
<1>12. CASE Restart
  <2>1. /\ \A t \in Threads : /\ pc'[t] = "idle" /\ todo'[t] = <<>>
                              /\ queue'[t] = NoIntents /\ unsent'[t] = {}
        /\ UNCHANGED <<clock, row, log, read, sent>>
    BY <1>12 DEF Restart
  <2>2. Horizon' = clock
    BY <1>2, <2>1 DEF Horizon
  <2>3. \A t \in Threads, j \in Jobs : queue'[t][j] = <<>> /\ InFlight(t, j)' = {}
    BY <2>1 DEF InFlight, NoIntents
  <2>4. Senders'
    BY <1>2, <2>1, <2>3 DEF Senders, SendersOf
  <2>5. Readings'
    <3>1. DOMAIN todo'[SCHEDULER] = {}
      BY <1>2, <2>1
    <3> QED BY <2>1, <3>1 DEF Readings, DistinctPages
  <2>6. \A j \in Jobs : RowInOrder(j)' /\ PagesInv(j)'
    BY <1>2, <1>3, <2>1, <2>2, <2>3
  <2> QED BY <1>1, <2>4, <2>5, <2>6 DEF RInv
<1> QED BY <1>4, <1>5, <1>6, <1>6a, <1>7, <1>8, <1>9, <1>10, <1>11, <1>12 DEF Next

\* The invariant pairs the acknowledged pages of an episode and the ones in flight by rank.
LEMMA RankedPages == RInv => OnePagePerRank /\ OneSenderPerPage
<1> SUFFICES ASSUME RInv PROVE OnePagePerRank /\ OneSenderPerPage
  OBVIOUS
<1>2. OnePagePerRank
  <2> SUFFICES ASSUME NEW j \in Jobs, NEW m \in DOMAIN sent[j], NEW n \in DOMAIN sent[j],
                      m # n, sent[j][m].bad_since = sent[j][n].bad_since,
                      sent[j][m].kind \in PageKinds, sent[j][m].known,
                      sent[j][n].kind \in PageKinds, sent[j][n].known
               PROVE  /\ {sent[j][m].kind, sent[j][n].kind} = PageKinds
                      /\ sent[j][n].kind = "escalation" =>
                            /\ alert_severity(sent[j][n].state) > alert_severity(sent[j][m].state)
                            /\ sent[j][n].at >= sent[j][m].at
    BY DEF OnePagePerRank
  <2>1. m \in KnownAt(j) /\ n \in KnownAt(j)
    BY DEF KnownAt
  <2>2. Ranked(sent[j][m], sent[j][n])
    BY <2>1 DEF RInv, PagesInv
  <2> QED BY <2>2 DEF Ranked, Escalates, PageKinds
<1>3. OneSenderPerPage
  <2> SUFFICES ASSUME NEW j \in Jobs, NEW t \in Threads, NEW u \in Threads,
                      NEW i \in InFlight(t, j), NEW k \in InFlight(u, j),
                      i.kind = k.kind, i.bad_since = k.bad_since
               PROVE  t = u /\ i = k
    BY DEF OneSenderPerPage
  <2>1. (t = u /\ i = k) \/ Ranked(AsPush(i), AsPush(k))
    BY DEF RInv, PagesInv
  <2>2. /\ AsPush(i).kind = i.kind /\ AsPush(k).kind = k.kind
        /\ AsPush(i).bad_since = i.bad_since /\ AsPush(k).bad_since = k.bad_since
    BY DEF AsPush
  <2> QED BY <2>1, <2>2 DEF Ranked, Escalates
<1> QED BY <1>2, <1>3

\* Whatever passes or POSTs fail, answers are lost, hand-backs fail or restarts happen, the acknowledged
\* pages of an episode are at most its first page and one escalation, about a worse state and
\* stamped no earlier.
THEOREM PagesOncePerRank ==
    ASSUME DistinctPages PROVE Spec /\ [][StaysHeardFrom]_vars => []OnePagePerRank
<1>1. Init => RInv
  BY InitRInv
<1>2. RInv /\ [Next]_vars /\ [StaysHeardFrom]_vars => RInv'
  BY NextRInv
<1>3. RInv => OnePagePerRank
  BY RankedPages
<1> QED BY <1>1, <1>2, <1>3, PTL DEF Spec

\* However the threads of the process interleave, a page of an episode has one sender.
THEOREM PagesHaveOneSender ==
    ASSUME DistinctPages PROVE Spec /\ [][StaysHeardFrom]_vars => []OneSenderPerPage
<1>1. Init => RInv
  BY InitRInv
<1>2. RInv /\ [Next]_vars /\ [StaysHeardFrom]_vars => RInv'
  BY NextRInv
<1>3. RInv => OneSenderPerPage
  BY RankedPages
<1> QED BY <1>1, <1>2, <1>3, PTL DEF Spec

-----------------------------------------------------------------------------
(* No outage goes unpaged past its threshold                               *)

\* One scheduler thread keeps stepping, with its passes committed, its readings in order and its
\* memory of the attempts.
\* Thresholds are whole seconds, as jobs.yml gives them, and a POST is spaced from the next one.
SteadyScheduler ==
    /\ InOrderReadings /\ Faults \cap {"restart", "pass_fails"} = {}
    /\ \A j \in Jobs : alert_after_s[j] \in WholeSeconds /\ (j \in Upgraded => alert_after_s[j] # 0)
    /\ ALERT_RETRY_MIN_S > 0

\* The parts of NoSilentOutage as the last pass saw them, at the reading it worked with.
TriedAt(j, at) ==
    \E k \in 0..2 : attempted[j].when[k] # None /\ at - attempted[j].when[k] < ALERT_RETRY_MIN_S

DueAt(j, r, at) ==
    /\ ~alert_never[j] /\ alert_severity(row[j].state) >= r
    /\ at >= RunStart(j, r) + alert_after_s[j]
    /\ \/ row[j].alerted_at # None \/ row[j].last_paged_at = None
       \/ at >= row[j].last_paged_at + cooldown_s(j)

AnsweredAt(p, at) ==
    \/ PagedAt(p, 1) \/ TriedAt(p, at)
    \/ row[p].bad_since # None /\ at < row[p].bad_since + alert_after_s[p]

SpokenForAt(j, at) ==
    LET p == machine_probe(Machine[j])
    IN  p # None /\ p # j /\ row[j].state = "LATE" /\ AnsweredAt(p, at)

HeardAt(j, at) ==
    \A r \in 1..2 : DueAt(j, r, at) => PagedAt(j, r) \/ TriedAt(j, at) \/ SpokenForAt(j, at)

\* The log ends with the job's state, and its episode began no later than the run of broken
\* states the log ends with.
SpansRun(j) ==
    /\ IF log[j] = <<>> THEN row[j].state = "UNKNOWN" ELSE log[j][Len(log[j])].to = row[j].state
    /\ row[j].bad_since # None => Stamped(row[j].bad_since)
    /\ \A n \in DOMAIN log[j] :
          (\A m \in n..Len(log[j]) : alert_severity(log[j][m].to) >= 1) =>
             row[j].bad_since # None /\ row[j].bad_since <= log[j][n].at

\* The last pass worked with that reading: the clock is two gaps ahead of it at most.
LastPassAt(at) ==
    /\ read[SCHEDULER] <= at + (IF pc[SCHEDULER] = "begin" THEN TICK_GAP ELSE 0)
    /\ clock <= read[SCHEDULER] + TICK_GAP

\* A page in flight was tried by the last pass, so that its hand-back leaves the try behind.
TriedLast(j, at) ==
    InFlight(SCHEDULER, j) # {} => \E k \in 0..2 : attempted[j].when[k] = at

OInv ==
    /\ CInv /\ \A j \in Jobs : SpansRun(j)
    /\ \E at \in Nat : LastPassAt(at) /\ \A j \in Jobs : HeardAt(j, at) /\ TriedLast(j, at)

\* The probe job of a machine is the first of the probe jobs declared on it.
LEMMA ProbeOnMachine ==
    ASSUME NEW m, machine_probe(m) # None
    PROVE  machine_probe(m) \in Jobs /\ Machine[machine_probe(m)] = m
<1> DEFINE probes == {p \in Jobs : IsMachineProbe(p) /\ Machine[p] = m}
           places == {Order[p] : p \in probes}
<1>1. machine_probe(m) = IF probes = {} THEN None
                         ELSE CHOOSE p \in probes : \A q \in probes : Order[p] <= Order[q]
  BY DEF machine_probe
<1>2. probes # {} /\ \A p \in probes : p \in Jobs /\ Machine[p] = m /\ Order[p] \in Nat
  BY <1>1, RegistryAssumption
<1> HIDE DEF probes
<1>3. places \subseteq Nat /\ places # {}
  BY <1>2
<1>4. PICK x \in places : \A y \in places : x <= y
  <2> HIDE DEF places
  <2> QED BY <1>3, Least
<1>5. PICK p \in probes : x = Order[p]
  BY <1>4
<1>6. \A q \in probes : Order[p] <= Order[q]
  BY <1>4, <1>5
<1>7. machine_probe(m) \in probes
  BY <1>1, <1>2, <1>6
<1> QED BY <1>2, <1>7

\* A broken verdict: the pass opens the episode if need be and asks for its page.
LEMMA BrokenOutcome ==
    ASSUME NEW j \in Jobs, row[j] \in Row, ShapedRow(row[j]), NEW now \in Nat,
           NEW v, v[j].state \in ALERTABLE_STATES, NEW changes,
           NEW out, out = resolve_alerts(j, v, changes, now), NEW e, e = episode_at(j, now)
    PROVE  /\ e \in Episode /\ e.bad_since # None
           /\ out.ep = page(j, v[j].state, e, v, changes, now) /\ out.about = v[j].state
           /\ out.paged = MayPage(j, v[j].state, e, v, changes, now)
           /\ out.ep.bad_since = e.bad_since
<1> DEFINE e0 == healed_episode(row[j], now)
<1>1. e0 \in Episode /\ e \in Episode /\ e.bad_since # None /\ e = open_episode(e0, now)
  BY HealedEpisode, OpenEpisode DEF episode_at
<1>2. out = resolve_bad(j, e0, v, changes, now)
  BY DEF resolve_alerts, ALERTABLE_STATES
<1> HIDE DEF e0
<1>3. /\ out.ep = page(j, v[j].state, e, v, changes, now) /\ out.about = v[j].state
      /\ out.paged = MayPage(j, v[j].state, e, v, changes, now)
  BY <1>1, <1>2 DEF resolve_bad
<1>4. page(j, v[j].state, e, v, changes, now).bad_since = e.bad_since
  BY <1>1, PageMoves
<1> QED BY <1>1, <1>3, <1>4

\* An episode a threshold old is past the bar, from the second it was stamped with: one that
\* begins in this pass has no whole second behind it yet.
LEMMA PastThreshold ==
    ASSUME NEW j \in Jobs, alert_after_s[j] \in WholeSeconds, row[j] \in Row, ShapedRow(row[j]),
           NEW now \in Nat, row[j].bad_since # None => row[j].bad_since <= now,
           NEW e, e = episode_at(j, now), now >= e.bad_since + alert_after_s[j]
    PROVE  now - e.began >= alert_after_s[j]
<1>1. /\ e.bad_since = IF row[j].bad_since # None THEN row[j].bad_since ELSE to_iso(now)
      /\ e.began = IF row[j].bad_since # None THEN row[j].bad_since ELSE now
  BY TakenUp
<1>2. alert_after_s[j] \in Nat /\ ISO_S \in Nat \ {0}
  BY RegistryAssumption, DurationAssumption
<1>3. CASE row[j].bad_since # None
  <2>1. e.began = e.bad_since /\ e.bad_since \in Nat
    BY <1>1, <1>3 DEF Row, MaybeTime, Time
  <2> QED BY <1>2, <2>1
<1>4. CASE row[j].bad_since = None
  <2>1. e.began = now /\ e.bad_since = to_iso(now) /\ to_iso(now) \in Nat /\ now < to_iso(now) + ISO_S
    BY <1>1, <1>4, ToIsoBounds, ToIsoType
  <2>2. alert_after_s[j] < ISO_S
    BY <1>2, <2>1
  <2>3. alert_after_s[j] = 0
    <3>1. PICK n \in Nat : alert_after_s[j] = ISO_S * n
      BY DEF WholeSeconds
    <3>2. n # 0 => ISO_S * n >= ISO_S
      <4> SUFFICES ASSUME n # 0 PROVE ISO_S * n >= ISO_S
        OBVIOUS
      <4>1. PICK d \in Nat : n = d + 1
        <5>1. n - 1 \in Nat
          OBVIOUS
        <5> QED BY <5>1
      <4>2. ISO_S * n = ISO_S * d + ISO_S /\ ISO_S * d \in Nat
        BY <1>2, <4>1
      <4> QED BY <1>2, <4>2
    <3>3. n = 0
      BY <1>2, <2>2, <3>1, <3>2
    <3> QED BY <1>2, <3>1, <3>3
  <2> QED BY <2>1, <2>3
<1> QED BY <1>3, <1>4

\* Core._page, asked about a job past its bar that nothing holds back: it is stamped at the rank
\* it is broken at, or a POST about the episode was tried within the retry spacing.
LEMMA PassPagesDue ==
    ASSUME NEW j \in Jobs, alert_after_s[j] \in WholeSeconds, ~alert_never[j],
           row[j] \in Row, ShapedRow(row[j]), attempted[j] \in Attempt,
           NEW now \in Nat, row[j].bad_since # None => row[j].bad_since <= now,
           NEW v, v[j].state \in ALERTABLE_STATES, NEW changes,
           NEW out, out = resolve_alerts(j, v, changes, now), NEW e, e = episode_at(j, now),
           now >= e.bad_since + alert_after_s[j],
           e.alerted_at = None => ~cooling(j, row[j].last_paged_at, now),
           ~suppressed_offline(j, v[j].state, v, changes, now)
    PROVE  \/ /\ out.ep.alerted_at # None /\ out.ep.alerted_state # None
              /\ alert_severity(out.ep.alerted_state) >= alert_severity(v[j].state)
           \/ /\ ~out.paged
              /\ \E k \in 0..2 : /\ attempted[j].when[k] # None
                                 /\ now - attempted[j].when[k] < ALERT_RETRY_MIN_S
<1> DEFINE s == v[j].state
           rank == alert_severity(s)
<1>1. /\ e \in Episode /\ e.bad_since # None /\ out.ep = page(j, s, e, v, changes, now)
      /\ out.paged = MayPage(j, s, e, v, changes, now)
  BY BrokenOutcome
<1>2. past_bar(j, s, e.began, changes[j], now)
  <2>1. now - e.began >= alert_after_s[j]
    BY PastThreshold
  <2> QED BY <2>1 DEF past_bar
<1>3. /\ to_iso(now) # None /\ s # None /\ \A st : alert_severity(st) \in 0..2
  BY ToIsoType, Severity, NoneAssumption DEF ALERTABLE_STATES, STATES
<1>4. CASE MayPage(j, s, e, v, changes, now)
  <2>1. out.ep.alerted_at = to_iso(now) /\ out.ep.alerted_state = s
    BY <1>1, <1>4 DEF page, Episode
  <2> QED BY <1>3, <2>1
<1>5. CASE ~MayPage(j, s, e, v, changes, now) /\ RecordsPagedState(j, e)
  <2>1. out.ep.alerted_at = e.alerted_at /\ out.ep.alerted_state = s /\ e.alerted_at # None
    BY <1>1, <1>5 DEF page, Episode, RecordsPagedState
  <2> QED BY <1>3, <2>1
<1>6. CASE /\ ~MayPage(j, s, e, v, changes, now) /\ ~RecordsPagedState(j, e)
           /\ retry_due(j, e.bad_since, rank, now)
  <2>1. out.ep = e
    BY <1>1, <1>6 DEF page
  <2>2. ~(\/ e.alerted_at = None
          \/ e.alerted_state # None /\ alert_severity(s) > alert_severity(e.alerted_state))
    BY <1>2, <1>6 DEF MayPage
  <2>3. e.alerted_at # None /\ e.alerted_state # None
    BY <1>6, <2>2 DEF RecordsPagedState
  <2> QED BY <1>3, <2>1, <2>2, <2>3
<1>7. CASE ~retry_due(j, e.bad_since, rank, now)
  <2>1. rank \in 0..2
    BY <1>3
  <2>2. /\ attempted[j].when[rank] # None /\ ~(now - attempted[j].when[rank] >= ALERT_RETRY_MIN_S)
    BY <1>7 DEF retry_due
  <2>3. attempted[j].when[rank] \in Nat
    BY <2>1, <2>2 DEF Attempt, MaybeTime, Time
  <2>4. now - attempted[j].when[rank] < ALERT_RETRY_MIN_S
    BY <2>2, <2>3, DurationAssumption
  <2>5. ~out.paged
    BY <1>1, <1>7 DEF MayPage
  <2> QED BY <2>1, <2>2, <2>4, <2>5
<1> QED BY <1>4, <1>5, <1>6, <1>7

\* Where the run of states of rank r or worse that ends the log l begins.
RunFrom(l, r) ==
    LET milder == {n \in DOMAIN l : alert_severity(l[n].to) < r}
        first  == IF milder = {} THEN 1 ELSE Max(milder) + 1
    IN  l[first].at

\* The run of broken states a job is in began no earlier than its episode.
LEMMA RunInEpisode ==
    ASSUME NEW l \in Seq(Change), NEW b \in MaybeTime, NEW s, NEW r \in 1..2, alert_severity(s) >= r,
           IF l = <<>> THEN s = "UNKNOWN" ELSE l[Len(l)].to = s,
           \A n \in DOMAIN l : (\A m \in n..Len(l) : alert_severity(l[m].to) >= 1) => b # None /\ b <= l[n].at
    PROVE  b \in Nat /\ RunFrom(l, r) \in Nat /\ b <= RunFrom(l, r)
<1> DEFINE milder == {n \in DOMAIN l : alert_severity(l[n].to) < r}
           first == IF milder = {} THEN 1 ELSE Max(milder) + 1
<1>1. /\ Len(l) \in Nat /\ DOMAIN l = 1..Len(l)
      /\ \A n \in DOMAIN l : l[n] \in Change
      /\ \A st : alert_severity(st) \in 0..2
  BY LenProperties, ElementOfSeq, Severity
<1>2. l # <<>> /\ l[Len(l)].to = s
  <2>1. alert_severity("UNKNOWN") = 0
    BY DEF alert_severity, ALERTABLE_STATES, HIGH_PRIORITY_STATES
  <2> QED BY <2>1
<1>3. Len(l) >= 1 /\ Len(l) \in DOMAIN l /\ Len(l) \notin milder
  <2>1. Len(l) # 0
    BY <1>2, EmptySeq
  <2> QED BY <1>1, <1>2, <2>1
<1>4. first \in DOMAIN l /\ \A n \in first..Len(l) : n \notin milder
  <2>1. CASE milder = {}
    BY <1>1, <1>3, <2>1
  <2>2. CASE milder # {}
    <3>1. milder \subseteq Nat /\ \A n \in milder : n >= 1 /\ n <= Len(l) /\ n # Len(l)
      BY <1>1, <1>3
    <3> HIDE DEF milder
    <3>2. PICK x \in milder : \A y \in milder : y <= x
      BY <1>1, <2>2, <3>1, Greatest
    <3>3. Max(milder) \in milder /\ \A y \in milder : Max(milder) >= y
      <4>1. \A y \in milder : x >= y
        BY <3>1, <3>2
      <4> QED BY <4>1 DEF Max
    <3>4. Max(milder) \in Nat /\ Max(milder) >= 1 /\ Max(milder) < Len(l)
      <4>1. PICK y \in milder : y = Max(milder)
        BY <3>3
      <4>2. y \in Nat /\ y >= 1 /\ y <= Len(l) /\ y # Len(l)
        BY <3>1
      <4> QED BY <1>1, <4>1, <4>2
    <3>5. first = Max(milder) + 1
      BY <2>2
    <3> HIDE DEF first
    <3>6. first \in DOMAIN l
      BY <1>1, <3>4, <3>5
    <3>7. ASSUME NEW n \in first..Len(l), n \in milder PROVE FALSE
      <4>1. Max(milder) >= n
        BY <3>3, <3>7
      <4> QED BY <1>1, <3>4, <3>5, <4>1
    <3> QED BY <3>6, <3>7
  <2> QED BY <2>1, <2>2
<1>5. RunFrom(l, r) = l[first].at
  BY DEF RunFrom
<1> HIDE DEF first
<1>6. ASSUME NEW n \in first..Len(l) PROVE alert_severity(l[n].to) >= 1
  <2>1. n \in DOMAIN l
    BY <1>1, <1>4
  <2>2. ~(alert_severity(l[n].to) < r)
    BY <1>4, <2>1
  <2> QED BY <1>1, <2>2
<1>7. b # None /\ b <= l[first].at
  BY <1>4, <1>6
<1>8. l[first].at \in Nat /\ b \in Nat
  BY <1>1, <1>4, <1>7 DEF Change, Time, MaybeTime
<1> QED BY <1>5, <1>7, <1>8

\* A pass leaves a job the episode it took up, or none.
LEMMA ResolveStart ==
    ASSUME NEW j \in Jobs, row[j] \in Row, ShapedRow(row[j]), NEW v, v[j] \in Verdict,
           NEW changes, NEW now \in Nat, NEW out, out = resolve_alerts(j, v, changes, now)
    PROVE  out.ep.bad_since \in {None, episode_at(j, now).bad_since}
<1> DEFINE e0 == healed_episode(row[j], now)
           e == open_episode(e0, now)
<1>1. e0 \in Episode /\ e \in Episode /\ episode_at(j, now) = e
  BY HealedEpisode, OpenEpisode DEF episode_at
<1>2. \A about, f : f \in Episode => page(j, about, f, v, changes, now).bad_since = f.bad_since
  BY DEF page, Episode
<1>3. NoEpisode.bad_since = None
  BY DEF NoEpisode
<1> HIDE DEF e0
<1>4. CASE v[j].state \in ALERTABLE_STATES
  <2>1. out.ep.bad_since = episode_at(j, now).bad_since
    BY <1>4, BrokenOutcome
  <2> QED BY <2>1
<1>5. CASE v[j].state = "OK" /\ e0.bad_since # None
  <2>1. out = resolve_ok(j, e0, v, changes, now)
    BY <1>5 DEF resolve_alerts, e0, ALERTABLE_STATES
  <2>2. out.ep \in {page(j, about_of(j, changes[j]), e0, v, changes, now), NoEpisode}
    BY <2>1 DEF resolve_ok
  <2>3. e = e0
    BY <1>5 DEF open_episode
  <2> HIDE DEF e
  <2> QED BY <1>1, <1>2, <1>3, <2>2, <2>3
<1>6. CASE v[j].state = "OK" /\ e0.bad_since = None
  <2>1. out = Unmoved(e0)
    BY <1>6 DEF resolve_alerts, e0, ALERTABLE_STATES
  <2> QED BY <1>6, <2>1 DEF Unmoved
<1>7. CASE v[j].state \notin ALERTABLE_STATES \cup {"OK"}
  <2>1. out = Unmoved(NoEpisode)
    BY <1>7 DEF resolve_alerts
  <2> QED BY <1>3, <2>1 DEF Unmoved
<1> QED BY <1>4, <1>5, <1>6, <1>7

\* A committed pass keeps the episode of a broken run, or opens one in the second that is logged.
LEMMA PassSpans ==
    ASSUME NEW j \in Jobs, row[j] \in Row, ShapedRow(row[j]), log[j] \in Seq(Change), SpansRun(j),
           NEW now \in Nat, Horizon \in Nat, Horizon <= now, Horizon' \in Nat, now <= Horizon',
           NEW v, v[j] \in Verdict, NEW changes, changes[j] = set_state(j, v, now),
           NEW out, out = resolve_alerts(j, v, changes, now),
           row'[j] = row_after(j, v, out, now), log'[j] = changes[j]
    PROVE  SpansRun(j)'
<1> DEFINE e == episode_at(j, now)
           b == row[j].bad_since
           l == log[j]
           x == [at |-> to_iso(now), to |-> v[j].state]
<1>1. /\ to_iso(now) \in WholeSeconds /\ to_iso(now) \in Nat /\ to_iso(now) <= now
      /\ b # None => b \in WholeSeconds /\ b \in Nat /\ b <= now /\ b <= to_iso(now)
  <2>1. to_iso(now) \in WholeSeconds /\ to_iso(now) \in Nat /\ to_iso(now) <= now
    BY WholeSecondsKeep, ToIsoBounds
  <2>2. ASSUME b # None PROVE b \in WholeSeconds /\ b \in Nat /\ b <= Horizon
    BY <2>2, WholeSecondsKeep DEF SpansRun, Stamped
  <2>3. b # None => b <= now
    <3> HIDE DEF b
    <3> QED BY <2>2
  <2> QED BY <2>1, <2>2, <2>3, WholeSecondsKeep
<1>2. e.bad_since = IF b # None THEN b ELSE to_iso(now)
  BY <1>1, TakenUp
<1>3. /\ e.bad_since \in WholeSeconds /\ e.bad_since \in Nat /\ e.bad_since <= to_iso(now) /\ e.bad_since # None
      /\ e.bad_since <= Horizon'
  BY <1>1, <1>2, NoneAssumption
<1>4. /\ row'[j].bad_since = out.ep.bad_since /\ row'[j].state = v[j].state
  BY DEF row_after
<1>5. out.ep.bad_since \in {None, e.bad_since}
  BY ResolveStart
<1>6. v[j].state \in ALERTABLE_STATES => out.ep.bad_since = e.bad_since
  BY BrokenOutcome
<1>7. \A st : alert_severity(st) >= 1 => st \in ALERTABLE_STATES
  BY DEF alert_severity, ALERTABLE_STATES, HIGH_PRIORITY_STATES
<1>8. /\ Len(l) \in Nat /\ DOMAIN l = 1..Len(l) /\ (l # <<>> => Len(l) \in DOMAIN l)
  <2>1. Len(l) \in Nat /\ DOMAIN l = 1..Len(l) /\ (Len(l) = 0 => l = <<>>)
    BY LenProperties, EmptySeq
  <2> HIDE DEF l
  <2> QED BY <2>1
<1>9. /\ IF l = <<>> THEN row[j].state = "UNKNOWN" ELSE l[Len(l)].to = row[j].state
      /\ \A n \in DOMAIN l : (\A m \in n..Len(l) : alert_severity(l[m].to) >= 1) => b # None /\ b <= l[n].at
  BY DEF SpansRun
<1>10. row'[j].bad_since # None => row'[j].bad_since \in WholeSeconds /\ row'[j].bad_since <= Horizon'
  BY <1>3, <1>4, <1>5
<1> HIDE DEF e, b
<1>11. CASE row[j].state = v[j].state
  <2>1. log'[j] = l
    BY <1>11 DEF set_state
  <2>2. ASSUME NEW n \in DOMAIN l, \A m \in n..Len(l) : alert_severity(l[m].to) >= 1
        PROVE  row'[j].bad_since # None /\ row'[j].bad_since <= l[n].at
    <3>1. b # None /\ b <= l[n].at
      BY <1>9, <2>2
    <3>2. Len(l) \in n..Len(l) /\ l # <<>>
      <4> HIDE DEF l
      <4>1. n \in 1..Len(l)
        BY <1>8, <2>2
      <4>2. Len(l) >= 1
        BY <1>8, <4>1
      <4>3. l # <<>>
        <5>1. Len(<<>>) = 0
          OBVIOUS
        <5> QED BY <4>2, <5>1
      <4> QED BY <1>8, <4>1, <4>3
    <3>3. alert_severity(v[j].state) >= 1
      BY <1>9, <1>11, <2>2, <3>2
    <3>4. out.ep.bad_since = b
      BY <1>2, <1>6, <1>7, <3>1, <3>3
    <3> QED BY <1>4, <3>1, <3>4
  <2> QED BY <1>4, <1>9, <1>10, <1>11, <2>1, <2>2 DEF SpansRun, Stamped
<1>12. CASE row[j].state # v[j].state
  <2>1. log'[j] = Append(l, x) /\ x \in Change
    BY <1>1, <1>12 DEF set_state, Change, Verdict, Time
  <2>2. /\ Len(log'[j]) = Len(l) + 1 /\ DOMAIN log'[j] = 1..(Len(l) + 1)
        /\ \A n \in DOMAIN l : log'[j][n] = l[n]
        /\ log'[j][Len(l) + 1] = x
    BY <2>1, <1>8, AppendProperties, LenProperties
  <2>3. x.at = to_iso(now) /\ x.to = v[j].state
    OBVIOUS
  <2> HIDE DEF l, x
  <2>4. log'[j] # <<>> /\ log'[j][Len(log'[j])].to = row'[j].state
    <3>1. Len(<<>>) = 0
      OBVIOUS
    <3>2. log'[j] # <<>>
      BY <1>8, <2>2, <3>1
    <3> QED BY <1>4, <2>2, <2>3, <3>2
  <2>5. ASSUME NEW n \in DOMAIN log'[j],
               \A m \in n..Len(log'[j]) : alert_severity(log'[j][m].to) >= 1
        PROVE  row'[j].bad_since # None /\ row'[j].bad_since <= log'[j][n].at
    <3>1. n \in Nat /\ n >= 1 /\ n <= Len(l) + 1
      BY <1>8, <2>2, <2>5
    <3>2. Len(l) + 1 \in n..Len(log'[j])
      BY <1>8, <2>2, <3>1
    <3>3. alert_severity(v[j].state) >= 1
      BY <2>2, <2>3, <2>5, <3>2
    <3>4. row'[j].bad_since = e.bad_since
      BY <1>4, <1>6, <1>7, <3>3
    <3>5. CASE n = Len(l) + 1
      BY <1>3, <2>2, <2>3, <3>4, <3>5
    <3>6. CASE n # Len(l) + 1
      <4>1. n \in DOMAIN l
        BY <1>8, <3>1, <3>6
      <4>2. \A m \in n..Len(l) : m \in DOMAIN l /\ m \in n..Len(log'[j])
        BY <1>8, <2>2, <3>1
      <4>3. \A m \in n..Len(l) : alert_severity(l[m].to) >= 1
        BY <2>2, <2>5, <4>2
      <4>4. b # None /\ b <= l[n].at
        BY <1>9, <4>1, <4>3
      <4> QED BY <1>2, <2>2, <3>4, <4>1, <4>4
    <3> QED BY <3>5, <3>6
  <2> QED BY <1>10, <2>4, <2>5 DEF SpansRun, Stamped
<1> QED BY <1>11, <1>12

\* A pass that finds a broken job past its threshold, with no cooldown running and no probe that
\* speaks for it: the row it leaves is paged at that rank, or a POST was just tried.
LEMMA PassDue ==
    ASSUME NEW j \in Jobs, alert_after_s[j] \in WholeSeconds, ~alert_never[j],
           row[j] \in Row, ShapedRow(row[j]), attempted[j] \in Attempt,
           NEW now \in Nat, row[j].bad_since # None => row[j].bad_since <= now,
           NEW v, v[j].state \in ALERTABLE_STATES, NEW changes,
           NEW out, out = resolve_alerts(j, v, changes, now),
           row'[j] = row_after(j, v, out, now), ~out.paged => attempted'[j] = attempted[j],
           now >= row'[j].bad_since + alert_after_s[j],
           ~out.paged /\ row[j].alerted_at = None => ~cooling(j, row[j].last_paged_at, now),
           ~suppressed_offline(j, v[j].state, v, changes, now),
           NEW r \in 1..2, alert_severity(v[j].state) >= r
    PROVE  \/ PagedAt(j, r)'
           \/ \E k \in 0..2 : /\ attempted'[j].when[k] # None
                              /\ now - attempted'[j].when[k] < ALERT_RETRY_MIN_S
<1> DEFINE e == episode_at(j, now)
           s == v[j].state
<1>1. /\ e \in Episode /\ out.ep = page(j, s, e, v, changes, now) /\ out.ep.bad_since = e.bad_since
      /\ out.paged = MayPage(j, s, e, v, changes, now)
  BY BrokenOutcome
<1>2. /\ row'[j].alerted_at = out.ep.alerted_at /\ row'[j].alerted_state = out.ep.alerted_state
      /\ row'[j].bad_since = e.bad_since
  BY <1>1 DEF row_after
<1>3. e.alerted_at = row[j].alerted_at
  BY TakenUp
<1>4. \A st : alert_severity(st) \in 0..2
  BY Severity
<1>5. CASE out.paged
  <2>1. row'[j].alerted_at = to_iso(now) /\ row'[j].alerted_state = s
    <3>1. MayPage(j, s, e, v, changes, now)
      BY <1>1, <1>5
    <3> HIDE DEF e, s
    <3>2. out.ep.alerted_at = to_iso(now) /\ out.ep.alerted_state = s
      BY <1>1, <3>1 DEF page, Episode
    <3> QED BY <1>2, <3>2
  <2>2. to_iso(now) # None /\ s # None
    BY ToIsoType, NoneAssumption DEF ALERTABLE_STATES, STATES
  <2> QED BY <2>1, <2>2 DEF PagedAt
<1>6. CASE ~out.paged
  <2>1. \/ /\ out.ep.alerted_at # None /\ out.ep.alerted_state # None
           /\ alert_severity(out.ep.alerted_state) >= alert_severity(v[j].state)
        \/ \E k \in 0..2 : /\ attempted[j].when[k] # None
                           /\ now - attempted[j].when[k] < ALERT_RETRY_MIN_S
    <3>1. e = episode_at(j, now) /\ now >= e.bad_since + alert_after_s[j]
      BY <1>2
    <3>2. e.alerted_at = None => ~cooling(j, row[j].last_paged_at, now)
      BY <1>3, <1>6
    <3> HIDE DEF e
    <3> QED BY <3>1, <3>2, PassPagesDue
  <2>2. CASE /\ out.ep.alerted_at # None /\ out.ep.alerted_state # None
             /\ alert_severity(out.ep.alerted_state) >= alert_severity(v[j].state)
    <3>1. alert_severity(out.ep.alerted_state) >= r
      BY <1>4, <2>2
    <3> QED BY <1>2, <2>2, <3>1 DEF PagedAt
  <2>3. attempted'[j] = attempted[j]
    BY <1>6
  <2> QED BY <2>1, <2>2, <2>3
<1> QED BY <1>5, <1>6

\* A committed pass answers for every job that is due at its reading.
LEMMA RecomputeOInv ==
    ASSUME OInv, SteadyScheduler, NEW t \in Threads, RecomputePass(t)
    PROVE  OInv'
<1>1. CInv' /\ CInv /\ IInv /\ InTurn
  BY RecomputeCInv DEF OInv, SteadyScheduler, CInv
<1>2. t = SCHEDULER /\ Readings /\ read[t] <= clock
  BY <1>1 DEF SteadyScheduler, InOrderReadings, InTurn, Readings, OneThread
<1>3. /\ pass_clock(t) \in Nat /\ Horizon \in Nat /\ Horizon <= pass_clock(t)
      /\ Horizon' \in Nat /\ pass_clock(t) <= Horizon'
  BY <1>1, <1>2, PassWindow
<1>4. PICK now \in Nat : now = pass_clock(t)
  BY <1>3
<1>5. PICK v \in [Jobs -> UNION {Verdicts[j] : j \in Jobs}] :
        LET changes == [j \in Jobs |-> set_state(j, v, pass_clock(t))]
            out == [j \in Jobs |-> resolve_alerts(j, v, changes, pass_clock(t))]
        IN  /\ \A j \in Jobs : v[j] \in Verdicts[j]
            /\ log' = changes
            /\ row' = [j \in Jobs |-> row_after(j, v, out[j], pass_clock(t))]
            /\ attempted' = [j \in Jobs |-> attempted_after(j, out[j], pass_clock(t))]
            /\ queue' = [queue EXCEPT ![t] = [j \in Jobs |-> intents_of(j, v, out[j], pass_clock(t))]]
  BY DEF RecomputePass
<1> DEFINE changes == [j \in Jobs |-> set_state(j, v, pass_clock(t))]
           out == [j \in Jobs |-> resolve_alerts(j, v, changes, pass_clock(t))]
<1>6. /\ clock' = clock /\ read' = read /\ unsent' = unsent /\ unsent[t] = {} /\ pc[t] = "begin"
  BY <1>1, <1>2 DEF RecomputePass, InTurn
<1>7. ASSUME NEW j \in Jobs
      PROVE  /\ row[j] \in Row /\ ShapedRow(row[j]) /\ log[j] \in Seq(Change) /\ attempted[j] \in Attempt
             /\ v[j] \in Verdict /\ SpansRun(j) /\ RowApart(j)
             /\ row'[j] \in Row /\ log'[j] \in Seq(Change)
  <2>1. v[j] \in Verdict
    BY <1>5, ThreadAssumption
  <2> QED BY <1>1, <2>1 DEF OInv, CInv, IInv, TypeOK, EpisodeShape
<1>8. ASSUME NEW j \in Jobs
      PROVE  /\ changes[j] = set_state(j, v, now) /\ out[j] = resolve_alerts(j, v, changes, now)
             /\ log'[j] = changes[j] /\ row'[j] = row_after(j, v, out[j], now)
             /\ attempted'[j] = IF out[j].paged
                                THEN note_attempt(j, episode_at(j, now).bad_since, alert_severity(out[j].about), now)
                                ELSE attempted[j]
             /\ queue'[t][j] = intents_of(j, v, out[j], now)
  <2>1. queue'[t] = [k \in Jobs |-> intents_of(k, v, out[k], pass_clock(t))]
    BY <1>1, <1>5 DEF IInv, TypeOK
  <2>2. /\ changes[j] = set_state(j, v, pass_clock(t)) /\ out[j] = resolve_alerts(j, v, changes, pass_clock(t))
        /\ log'[j] = changes[j] /\ row'[j] = row_after(j, v, out[j], pass_clock(t))
        /\ attempted'[j] = attempted_after(j, out[j], pass_clock(t))
        /\ queue'[t][j] = intents_of(j, v, out[j], pass_clock(t))
    BY <1>5, <2>1
  <2> HIDE DEF changes, out
  <2> QED BY <1>4, <2>2 DEF attempted_after
<1> HIDE DEF changes, out
<1>8a. ASSUME NEW j \in Jobs
       PROVE  /\ row'[j].state = v[j].state /\ row'[j].bad_since = out[j].ep.bad_since
              /\ row'[j].alerted_at = out[j].ep.alerted_at
              /\ row'[j].last_paged_at = IF out[j].paged THEN to_iso(now) ELSE healed_paged_at(row[j], now)
  <2>1. PICK o : o = out[j]
    OBVIOUS
  <2>2. row'[j] = row_after(j, v, o, now)
    BY <1>8, <2>1
  <2>3. /\ row'[j].state = v[j].state /\ row'[j].bad_since = o.ep.bad_since
        /\ row'[j].alerted_at = o.ep.alerted_at
        /\ row'[j].last_paged_at = IF o.paged THEN to_iso(now) ELSE healed_paged_at(row[j], now)
    BY <2>2 DEF row_after
  <2> QED BY <2>1, <2>3
<1>9. Horizon <= now /\ now <= Horizon'
  BY <1>3, <1>4
<1>10. ASSUME NEW j \in Jobs PROVE SpansRun(j)'
  BY <1>3, <1>7, <1>8, <1>9, PassSpans
<1>11. ASSUME NEW j \in Jobs
       PROVE  /\ row[j].bad_since # None => row[j].bad_since \in Nat /\ row[j].bad_since <= now
              /\ row[j].last_paged_at # None => row[j].last_paged_at \in Nat /\ row[j].last_paged_at <= now
  <2>1. row[j].bad_since # None => row[j].bad_since \in Nat /\ row[j].bad_since <= Horizon
    BY <1>7, WholeSecondsKeep DEF SpansRun, Stamped
  <2>2. row[j].last_paged_at # None => row[j].last_paged_at \in Nat /\ row[j].last_paged_at <= Horizon
    BY <1>7, WholeSecondsKeep DEF RowApart, Stamped
  <2> QED BY <1>3, <1>9, <2>1, <2>2
<1>12. ASSUME NEW j \in Jobs, NEW r \in 1..2, ~alert_never[j], v[j].state \in ALERTABLE_STATES,
              alert_severity(v[j].state) >= r, now >= row'[j].bad_since + alert_after_s[j],
              ~out[j].paged /\ row[j].alerted_at = None => ~cooling(j, row[j].last_paged_at, now),
              ~suppressed_offline(j, v[j].state, v, changes, now)
       PROVE  PagedAt(j, r)' \/ TriedAt(j, now)'
  <2>1. alert_after_s[j] \in WholeSeconds
    BY DEF SteadyScheduler
  <2>2. ~out[j].paged => attempted'[j] = attempted[j]
    BY <1>8
  <2>3. \/ PagedAt(j, r)'
        \/ \E k \in 0..2 : attempted'[j].when[k] # None /\ now - attempted'[j].when[k] < ALERT_RETRY_MIN_S
    BY <1>7, <1>8, <1>11, <1>12, <2>1, <2>2, PassDue
  <2> QED BY <2>3 DEF TriedAt
<1>13. ASSUME NEW j \in Jobs PROVE HeardAt(j, now)'
  <2> SUFFICES ASSUME NEW r \in 1..2, DueAt(j, r, now)'
               PROVE  PagedAt(j, r)' \/ TriedAt(j, now)' \/ SpokenForAt(j, now)'
    BY DEF HeardAt
  <2>1. /\ ~alert_never[j] /\ alert_severity(row'[j].state) >= r
        /\ now >= RunFrom(log'[j], r) + alert_after_s[j]
        /\ \/ row'[j].alerted_at # None \/ row'[j].last_paged_at = None
           \/ now >= row'[j].last_paged_at + cooldown_s(j)
    BY DEF DueAt, RunStart, RunFrom
  <2>2. row'[j].state = v[j].state
    BY <1>8a
  <2>3. v[j].state \in ALERTABLE_STATES
    BY <2>1, <2>2 DEF alert_severity, ALERTABLE_STATES, HIGH_PRIORITY_STATES
  <2>4. row'[j].bad_since \in Nat /\ RunFrom(log'[j], r) \in Nat /\ row'[j].bad_since <= RunFrom(log'[j], r)
    <3>1. /\ IF log'[j] = <<>> THEN row'[j].state = "UNKNOWN" ELSE log'[j][Len(log'[j])].to = row'[j].state
          /\ \A n \in DOMAIN log'[j] :
                (\A m \in n..Len(log'[j]) : alert_severity(log'[j][m].to) >= 1) =>
                   row'[j].bad_since # None /\ row'[j].bad_since <= log'[j][n].at
      BY <1>10 DEF SpansRun
    <3>2. row'[j].bad_since \in MaybeTime
      BY <1>7 DEF Row
    <3> QED BY <1>7, <2>1, <3>1, <3>2, RunInEpisode
  <2>5. now >= row'[j].bad_since + alert_after_s[j]
    BY <2>1, <2>4, RegistryAssumption
  <2>6. ~out[j].paged /\ row[j].alerted_at = None => ~cooling(j, row[j].last_paged_at, now)
    <3> SUFFICES ASSUME ~out[j].paged, row[j].alerted_at = None, cooling(j, row[j].last_paged_at, now)
                 PROVE  FALSE
      OBVIOUS
    <3>1. row[j].last_paged_at # None /\ row[j].last_paged_at + cooldown_s(j) > now
      BY DEF cooling
    <3>2. row[j].last_paged_at \in Nat /\ row[j].last_paged_at <= now /\ cooldown_s(j) \in Nat
      BY <1>11, <3>1, WholeSecondsKeep DEF SteadyScheduler, InOrderReadings
    <3>3. row'[j].last_paged_at = row[j].last_paged_at
      BY <1>8a, <3>1, <3>2 DEF healed_paged_at
    <3>4. row'[j].alerted_at = None
      <4>1. /\ out[j].paged = MayPage(j, v[j].state, episode_at(j, now), v, changes, now)
            /\ out[j].ep = page(j, v[j].state, episode_at(j, now), v, changes, now)
            /\ episode_at(j, now) \in Episode
        BY <1>7, <1>8, <2>3, BrokenOutcome
      <4>2. episode_at(j, now).alerted_at = None
        BY <1>7, <1>11, TakenUp
      <4>3. out[j].ep.alerted_at = None
        BY <4>1, <4>2 DEF page, Episode
      <4> QED BY <1>8a, <4>3
    <3>5. now >= row[j].last_paged_at + cooldown_s(j)
      BY <2>1, <3>1, <3>3, <3>4
    <3> QED BY <3>1, <3>2, <3>5
  <2>7. CASE ~suppressed_offline(j, v[j].state, v, changes, now)
    BY <1>12, <2>1, <2>2, <2>3, <2>5, <2>6, <2>7
  <2>8. CASE suppressed_offline(j, v[j].state, v, changes, now)
    <3>1. PICK p : p = machine_probe(Machine[j])
      OBVIOUS
    <3>2. /\ p # None /\ p # j /\ ~alert_never[p] /\ ~cooled(p, now)
          /\ v[j].state = "LATE" /\ v[p].state = "LATE"
      BY <2>3, <2>8, <3>1 DEF suppressed_offline, ALERTABLE_STATES
    <3>3. p \in Jobs /\ machine_probe(Machine[p]) = p
      BY <3>1, <3>2, ProbeOnMachine
    <3>4. ~suppressed_offline(p, v[p].state, v, changes, now)
      BY <3>3 DEF suppressed_offline
    <3>5. row[p].alerted_at = None => ~cooling(p, row[p].last_paged_at, now)
      BY <3>2 DEF cooled
    <3>6. v[p].state \in ALERTABLE_STATES /\ alert_severity(v[p].state) >= 1
      BY <3>2 DEF alert_severity, ALERTABLE_STATES, HIGH_PRIORITY_STATES
    <3>7. row'[p].bad_since # None /\ row'[p].bad_since \in Nat
      <4>1. row'[p].bad_since # None
        <5>1. out[p].ep.bad_since = episode_at(p, now).bad_since /\ episode_at(p, now).bad_since # None
          BY <1>7, <1>8, <3>3, <3>6, BrokenOutcome
        <5> QED BY <1>8a, <3>3, <5>1
      <4> QED BY <1>7, <3>3, <4>1 DEF Row, MaybeTime, Time
    <3>8. AnsweredAt(p, now)'
      <4>1. CASE now < row'[p].bad_since + alert_after_s[p]
        BY <3>7, <4>1 DEF AnsweredAt
      <4>2. CASE now >= row'[p].bad_since + alert_after_s[p]
        <5>1. PagedAt(p, 1)' \/ TriedAt(p, now)'
          BY <1>12, <3>2, <3>3, <3>4, <3>5, <3>6, <4>2
        <5> QED BY <5>1 DEF AnsweredAt
      <4> QED BY <3>3, <3>7, <4>1, <4>2, RegistryAssumption
    <3> QED BY <2>2, <3>1, <3>2, <3>8 DEF SpokenForAt
  <2> QED BY <2>7, <2>8
<1>14. ASSUME NEW j \in Jobs PROVE TriedLast(j, now)'
  <2> SUFFICES ASSUME InFlight(SCHEDULER, j)' # {}
               PROVE  \E k \in 0..2 : attempted'[j].when[k] = now
    BY DEF TriedLast
  <2>1. PICK n \in DOMAIN queue'[t][j] : queue'[t][j][n].kind \in PageKinds
    BY <1>2, <1>6 DEF InFlight
  <2>2. out[j].paged
    BY <1>8, <2>1, IntentsPage
  <2> DEFINE k == alert_severity(out[j].about)
             b == episode_at(j, now).bad_since
             when == IF attempted[j].bad_since = b THEN attempted[j].when ELSE NoAttempt.when
  <2>3. k \in 0..2
    BY Severity
  <2>4. attempted'[j] = [bad_since |-> b, when |-> [when EXCEPT ![k] = now]]
    BY <1>8, <2>2 DEF note_attempt
  <2>5. DOMAIN when = 0..2
    BY <1>7 DEF Attempt, NoAttempt
  <2> HIDE DEF k, b, when
  <2>6. attempted'[j].when[k] = now
    BY <2>3, <2>4, <2>5
  <2> QED BY <2>3, <2>6
<1>15. LastPassAt(now)'
  <2>1. clock <= read[t] + TICK_GAP
    BY <1>2 DEF OInv, LastPassAt
  <2>2. read[t] <= now /\ read[t] \in Nat /\ TICK_GAP \in Nat
    BY <1>1, <1>2, <1>4, ThreadAssumption DEF pass_clock, IInv, TypeOK
  <2> QED BY <1>2, <1>6, <2>1, <2>2 DEF LastPassAt
<1> QED BY <1>1, <1>10, <1>13, <1>14, <1>15 DEF OInv

\* A step that leaves the rows, their log and the attempts alone, and lets no more time pass than
\* the scheduler allows.
LEMMA QuietOInv ==
    ASSUME OInv, CInv', UNCHANGED <<row, log, attempted>>,
           Horizon \in Nat, Horizon' \in Nat, Horizon <= Horizon',
           \A j \in Jobs : InFlight(SCHEDULER, j)' \subseteq InFlight(SCHEDULER, j),
           \A at \in Nat : LastPassAt(at) => LastPassAt(at)'
    PROVE  OInv'
<1>1. PICK at \in Nat : LastPassAt(at) /\ \A j \in Jobs : HeardAt(j, at) /\ TriedLast(j, at)
  BY DEF OInv
<1>2. ASSUME NEW j \in Jobs PROVE SpansRun(j)'
  <2>1. SpansRun(j) /\ row'[j] = row[j] /\ log'[j] = log[j]
    BY DEF OInv
  <2>2. \A b \in WholeSeconds : b <= Horizon => b <= Horizon'
    <3> SUFFICES ASSUME NEW b \in WholeSeconds, b <= Horizon PROVE b <= Horizon'
      OBVIOUS
    <3>1. b \in Nat
      BY WholeSecondsKeep
    <3> QED BY <3>1
  <2> QED BY <2>1, <2>2 DEF SpansRun, Stamped
<1>3. ASSUME NEW j \in Jobs PROVE HeardAt(j, at)'
  <2>1. HeardAt(j, at)
    BY <1>1
  <2> QED BY <2>1 DEF HeardAt, DueAt, RunStart, PagedAt, TriedAt, SpokenForAt, AnsweredAt
<1>4. ASSUME NEW j \in Jobs PROVE TriedLast(j, at)'
  <2>1. TriedLast(j, at) /\ attempted'[j] = attempted[j]
    BY <1>1
  <2> QED BY <2>1 DEF TriedLast
<1> QED BY <1>1, <1>2, <1>3, <1>4 DEF OInv

\* The hand-back of a page leaves the try behind: the job, and those its probe speaks for, are
\* still answered for.
LEMMA ReturnOInv ==
    ASSUME OInv, SteadyScheduler, NEW t \in Threads, ReturnUnsentPages(t)
    PROVE  OInv'
<1>1. CInv' /\ CInv /\ IInv
  BY ReturnCInv DEF OInv, SteadyScheduler, CInv
<1>2. /\ t = SCHEDULER /\ pc[t] = "give_back" /\ queue[t] = NoIntents /\ queue' = queue /\ unsent'[t] = {}
      /\ clock' = clock /\ read' = read /\ todo' = todo /\ log' = log /\ attempted' = attempted
  BY <1>1 DEF SteadyScheduler, InOrderReadings, CInv, InTurn, IInv, TypeOK, ReturnUnsentPages
<1>3. PICK at \in Nat : LastPassAt(at) /\ \A j \in Jobs : HeardAt(j, at) /\ TriedLast(j, at)
  BY DEF OInv
<1>4. ASSUME NEW j \in Jobs
      PROVE  /\ row'[j].bad_since = row[j].bad_since /\ row'[j].state = row[j].state
             /\ row'[j] = row[j] \/ TriedAt(j, at)
  <2>1. CASE \E i \in unsent[t] : i.job = j /\ same_episode(i)
    <3>1. PICK i \in unsent[t] : i.job = j /\ row'[j] = row_given_back(row[j], i)
      BY <2>1 DEF ReturnUnsentPages
    <3>2. i \in InFlight(SCHEDULER, j)
      BY <1>1, <1>2, <3>1 DEF InFlight, IInv, EpisodeShape
    <3>3. PICK k \in 0..2 : attempted[j].when[k] = at
      BY <1>3, <3>2 DEF TriedLast
    <3>4. attempted[j].when[k] # None /\ at - attempted[j].when[k] < ALERT_RETRY_MIN_S
      BY <3>3, NoneAssumption, DurationAssumption DEF SteadyScheduler
    <3>5. row[j] \in Row
      BY <1>1 DEF IInv, TypeOK
    <3> QED BY <3>1, <3>4, <3>5 DEF row_given_back, TriedAt, Row
  <2>2. CASE ~\E i \in unsent[t] : i.job = j /\ same_episode(i)
    BY <2>2 DEF ReturnUnsentPages
  <2> QED BY <2>1, <2>2
<1>5. ASSUME NEW j \in Jobs PROVE SpansRun(j)'
  <2>1. SpansRun(j) /\ Horizon' = Horizon /\ log'[j] = log[j]
    BY <1>2 DEF OInv, Horizon
  <2> QED BY <1>4, <2>1 DEF SpansRun, Stamped
<1>6. ASSUME NEW j \in Jobs PROVE TriedAt(j, at)' = TriedAt(j, at)
  BY <1>2 DEF TriedAt
<1>7. ASSUME NEW j \in Jobs PROVE HeardAt(j, at)'
  <2>1. CASE TriedAt(j, at)
    BY <1>6, <2>1 DEF HeardAt
  <2>2. CASE row'[j] = row[j] /\ ~TriedAt(j, at)
    <3> SUFFICES ASSUME NEW r \in 1..2, DueAt(j, r, at)'
                 PROVE  PagedAt(j, r)' \/ SpokenForAt(j, at)'
      BY DEF HeardAt
    <3>1. DueAt(j, r, at)
      BY <1>2, <2>2 DEF DueAt, RunStart
    <3>2. PagedAt(j, r) \/ SpokenForAt(j, at)
      BY <1>3, <2>2, <3>1 DEF HeardAt
    <3>3. CASE PagedAt(j, r)
      BY <2>2, <3>3 DEF PagedAt
    <3>4. CASE SpokenForAt(j, at)
      <4>1. PICK p : p = machine_probe(Machine[j])
        OBVIOUS
      <4>2. p # None /\ p # j /\ row[j].state = "LATE" /\ AnsweredAt(p, at)
        BY <3>4, <4>1 DEF SpokenForAt
      <4>3. p \in Jobs
        BY <4>1, <4>2, ProbeOnMachine
      <4>4. AnsweredAt(p, at)'
        <5>1. CASE TriedAt(p, at)
          BY <1>6, <4>3, <5>1 DEF AnsweredAt
        <5>2. CASE ~TriedAt(p, at)
          <6>1. row'[p] = row[p]
            BY <1>4, <4>3, <5>2
          <6> QED BY <4>2, <5>2, <6>1 DEF AnsweredAt, PagedAt
        <5> QED BY <5>1, <5>2
      <4> QED BY <2>2, <4>1, <4>2, <4>4 DEF SpokenForAt
    <3> QED BY <3>2, <3>3, <3>4
  <2> QED BY <1>4, <2>1, <2>2
<1>8. \A j \in Jobs : InFlight(SCHEDULER, j)' = {}
  BY <1>2 DEF InFlight, NoIntents
<1>9. LastPassAt(at)'
  <2>1. read[t] <= at /\ clock <= read[t] + TICK_GAP /\ read[t] \in Nat /\ TICK_GAP \in Nat
    BY <1>1, <1>2, <1>3, ThreadAssumption DEF LastPassAt, IInv, TypeOK
  <2> QED BY <1>2, <2>1 DEF LastPassAt
<1> QED BY <1>1, <1>3, <1>5, <1>7, <1>8, <1>9 DEF OInv, TriedLast

\* A POST puts no page on its way that was not.
LEMMA DispatchMovesOn ==
    ASSUME TypeOK, NEW t \in Threads, Dispatch(t), NEW k \in Jobs,
           \A j \in Jobs : \A n \in DOMAIN queue[t][j] : queue[t][j][n].job = j
    PROVE  InFlight(t, k)' \subseteq InFlight(t, k)
<1>1. PICK j \in Jobs : /\ queue[t][j] # <<>>
                        /\ queue' = [queue EXCEPT ![t][j] = Tail(queue[t][j])]
                        /\ unsent'[t] \subseteq unsent[t] \cup {Head(queue[t][j])}
  <2>1. PICK j \in Jobs, o \in Outcomes :
          /\ is_next(t, j)
          /\ queue' = [queue EXCEPT ![t][j] = Tail(queue[t][j])]
          /\ unsent' = [unsent EXCEPT ![t] =
                IF Head(queue[t][j]).kind \in PageKinds /\ ~o.ok /\ NotifierEnabled
                THEN @ \cup {Head(queue[t][j])} ELSE @]
    BY DEF Dispatch
  <2>2. unsent'[t] \subseteq unsent[t] \cup {Head(queue[t][j])}
    BY <2>1 DEF TypeOK
  <2> QED BY <2>1, <2>2 DEF is_next
<1> DEFINE q == queue[t][j]
<1>2. q \in Seq(AlertIntent) /\ q # <<>>
  BY <1>1 DEF TypeOK
<1>3. \A l \in Jobs : queue'[t][l] = IF l = j THEN Tail(q) ELSE queue[t][l]
  BY <1>1 DEF TypeOK
<1>4. /\ 1 \in DOMAIN q /\ Head(q) = q[1]
      /\ \A n \in DOMAIN Tail(q) : n + 1 \in DOMAIN q /\ Tail(q)[n] = q[n + 1]
  <2> HIDE DEF q
  <2>1. /\ Tail(q) \in Seq(AlertIntent) /\ Len(Tail(q)) = Len(q) - 1
        /\ \A n \in 1..Len(Tail(q)) : Tail(q)[n] = q[n + 1]
    BY <1>2, HeadTailProperties
  <2>2. /\ Len(q) \in Nat \ {0} /\ DOMAIN q = 1..Len(q)
        /\ DOMAIN Tail(q) = 1..Len(Tail(q)) /\ Head(q) = q[1]
    BY <1>2, <2>1, LenProperties, EmptySeq
  <2> QED BY <2>1, <2>2
<1>5. q[1].job = j
  BY <1>4
<1> SUFFICES ASSUME NEW x \in InFlight(t, k)' PROVE x \in InFlight(t, k)
  OBVIOUS
<1>6. x.job = k /\ x.kind \in PageKinds
  BY DEF InFlight
<1>7. CASE x \in unsent'[t]
  <2>1. CASE x = Head(q)
    <3>1. k = j /\ x = q[1]
      BY <1>4, <1>5, <1>6, <2>1
    <3> QED BY <1>4, <1>6, <3>1 DEF InFlight
  <2>2. CASE x \in unsent[t]
    BY <1>6, <2>2 DEF InFlight
  <2> QED BY <1>1, <1>7, <2>1, <2>2
<1>8. CASE x \notin unsent'[t]
  <2>1. PICK n \in DOMAIN queue'[t][k] : x = queue'[t][k][n]
    BY <1>8 DEF InFlight
  <2>2. \E m \in DOMAIN queue[t][k] : x = queue[t][k][m]
    <3>1. CASE k = j
      <4>1. queue'[t][k] = Tail(q) /\ queue[t][k] = q
        BY <1>3, <3>1
      <4> HIDE DEF q
      <4> QED BY <1>4, <2>1, <4>1
    <3>2. CASE k # j
      BY <1>3, <2>1, <3>2
    <3> QED BY <3>1, <3>2
  <2> QED BY <1>6, <2>2 DEF InFlight
<1> QED BY <1>7, <1>8

\* No job is due when the process starts: its row is fresh, or of an episode that begins now.
LEMMA InitOInv == ASSUME SteadyScheduler PROVE Init => OInv
<1> SUFFICES ASSUME Init PROVE OInv
  OBVIOUS
<1>1. CInv
  BY InitCInv DEF SteadyScheduler
<1>2. /\ queue[SCHEDULER] = NoIntents /\ unsent[SCHEDULER] = {} /\ clock = 0
      /\ read[SCHEDULER] = 0 /\ todo[SCHEDULER] = <<>> /\ pc[SCHEDULER] = "idle"
  BY ThreadAssumption DEF Init
<1>3. \A j \in Jobs : InFlight(SCHEDULER, j) = {}
  BY <1>2 DEF NoIntents, InFlight
<1>4. Horizon = 0 /\ 0 \in WholeSeconds
  <2>1. ISO_S * 0 = 0
    BY DurationAssumption
  <2> QED BY <1>2, <2>1 DEF WholeSeconds, Horizon
<1>5. ASSUME NEW j \in Jobs PROVE SpansRun(j) /\ HeardAt(j, 0)
  <2>1. row[j] \in InitialRows(j)
    BY DEF Init
  <2>2. CASE row[j] = FreshRow
    <3>1. log[j] = <<>> /\ row[j].bad_since = None /\ row[j].state = "UNKNOWN"
      BY <2>2 DEF Init, FreshRow
    <3>2. alert_severity("UNKNOWN") = 0
      BY DEF alert_severity, ALERTABLE_STATES, HIGH_PRIORITY_STATES
    <3> QED BY <3>1, <3>2 DEF SpansRun, HeardAt, DueAt
  <2>3. CASE row[j] # FreshRow
    <3>1. PICK st \in ALERTABLE_STATES, p \in {None, 0} : row[j] = UpgradedRow(st, p) /\ j \in Upgraded
      BY <2>1, <2>3 DEF InitialRows
    <3>2. row[j].state = st /\ row[j].bad_since = 0
      BY <3>1 DEF UpgradedRow, FreshRow
    <3>3. log[j] = <<[at |-> 0, to |-> st]>>
      BY <2>3, <3>2 DEF Init
    <3>4. Len(log[j]) = 1 /\ DOMAIN log[j] = {1} /\ log[j][1].to = st /\ log[j][1].at = 0
      BY <3>3
    <3>5. log[j] # <<>> /\ 0 # None
      BY <3>3, NoneAssumption
    <3>6. SpansRun(j)
      BY <1>4, <3>2, <3>4, <3>5 DEF SpansRun, Stamped
    <3>7. ASSUME NEW r \in 1..2 PROVE ~DueAt(j, r, 0)
      <4> SUFFICES ASSUME DueAt(j, r, 0) PROVE FALSE
        OBVIOUS
      <4>1. alert_severity(row[j].state) >= r /\ 0 >= RunFrom(log[j], r) + alert_after_s[j]
        BY DEF DueAt, RunStart, RunFrom
      <4>2. log[j] \in Seq(Change) /\ row[j].bad_since \in MaybeTime
        BY <1>1 DEF CInv, IInv, TypeOK, Row
      <4>3. RunFrom(log[j], r) \in Nat
        BY <3>6, <4>1, <4>2, RunInEpisode DEF SpansRun
      <4>4. alert_after_s[j] \in Nat /\ alert_after_s[j] # 0
        BY <3>1, RegistryAssumption DEF SteadyScheduler
      <4> QED BY <4>1, <4>3, <4>4
    <3> QED BY <3>6, <3>7 DEF HeardAt
  <2> QED BY <2>2, <2>3
<1>6. LastPassAt(0)
  BY <1>2, ThreadAssumption DEF LastPassAt
<1> QED BY <1>1, <1>3, <1>5, <1>6 DEF OInv, TriedLast

\* Every step of the scheduler's thread, and time, which waits for it.
LEMMA NextOInv == ASSUME SteadyScheduler PROVE OInv /\ [Next]_vars => OInv'
<1> SUFFICES ASSUME OInv, [Next]_vars PROVE OInv'
  OBVIOUS
<1>1. CInv /\ IInv /\ InTurn /\ CInv' /\ IInv'
  <2>1. CInv /\ CInv'
    BY NextCInv DEF OInv, SteadyScheduler
  <2> QED BY <2>1 DEF CInv
<1>2. /\ clock \in Nat /\ clock' \in Nat /\ read[SCHEDULER] \in Nat /\ read'[SCHEDULER] \in Nat
      /\ Horizon \in Nat /\ Horizon' \in Nat /\ TICK_GAP \in Nat /\ SCHEDULER \in Threads
      /\ read[SCHEDULER] <= clock
  BY <1>1, ThreadAssumption DEF IInv, TypeOK, Horizon, InTurn
<1>3. ASSUME NEW t \in Threads PROVE t = SCHEDULER
  BY DEF SteadyScheduler, InOrderReadings
<1>4. CASE UNCHANGED vars
  <2>1. UNCHANGED <<row, log, attempted>> /\ Horizon' = Horizon
    BY <1>4 DEF vars, thread, Horizon
  <2>2. \A j \in Jobs : InFlight(SCHEDULER, j)' \subseteq InFlight(SCHEDULER, j)
    BY <1>4 DEF vars, thread, InFlight
  <2>3. \A at \in Nat : LastPassAt(at) => LastPassAt(at)'
    BY <1>4 DEF vars, thread, LastPassAt
  <2>4. Horizon <= Horizon'
    BY <1>2, <2>1
  <2> QED BY <1>1, <1>2, <2>1, <2>2, <2>3, <2>4, QuietOInv
<1>5. ASSUME NEW t \in Threads, Enter(t) PROVE OInv'
  <2>1. /\ pc[SCHEDULER] = "idle" /\ pc'[SCHEDULER] = "begin" /\ read'[SCHEDULER] = clock
        /\ UNCHANGED <<clock, row, log, attempted, queue, unsent>>
    BY <1>1, <1>3, <1>5 DEF Enter, IInv, TypeOK
  <2>2. todo[SCHEDULER] = <<>>
    BY <1>1, <2>1 DEF InTurn
  <2>3. Horizon <= Horizon'
    BY <1>2, <2>1, <2>2 DEF Horizon
  <2>4. \A j \in Jobs : InFlight(SCHEDULER, j)' \subseteq InFlight(SCHEDULER, j)
    BY <2>1 DEF InFlight
  <2>5. ASSUME NEW at \in Nat, LastPassAt(at) PROVE LastPassAt(at)'
    <3>1. read[SCHEDULER] <= at /\ clock <= read[SCHEDULER] + TICK_GAP
      BY <1>2, <2>1, <2>5 DEF LastPassAt
    <3> QED BY <1>2, <2>1, <3>1 DEF LastPassAt
  <2> QED BY <1>1, <1>2, <2>1, <2>3, <2>4, <2>5, QuietOInv
<1>6. ASSUME NEW t \in Threads, RecomputePass(t) PROVE OInv'
  BY <1>6, RecomputeOInv
<1>7. ASSUME NEW t \in Threads, Dispatch(t) PROVE OInv'
  <2>1. /\ pc[SCHEDULER] = "post" /\ UNCHANGED <<clock, read, todo, row, log, attempted>>
    BY <1>3, <1>7 DEF Dispatch
  <2>2. Horizon <= Horizon'
    BY <1>2, <2>1 DEF Horizon
  <2>3. \A j \in Jobs : \A n \in DOMAIN queue[t][j] : queue[t][j][n].job = j
    BY <1>1, <1>3 DEF InTurn
  <2>4. \A j \in Jobs : InFlight(SCHEDULER, j)' \subseteq InFlight(SCHEDULER, j)
    BY <1>1, <1>3, <1>7, <2>3, DispatchMovesOn DEF IInv
  <2>5. ASSUME NEW at \in Nat, LastPassAt(at) PROVE LastPassAt(at)'
    BY <1>2, <2>1, <2>5 DEF LastPassAt
  <2> QED BY <1>1, <1>2, <2>1, <2>2, <2>4, <2>5, QuietOInv
<1>8. ASSUME NEW t \in Threads, ReturnUnsentPages(t) PROVE OInv'
  BY <1>8, ReturnOInv
<1>9. ASSUME NEW t \in Threads, ReturnUnsentFails(t) PROVE OInv'
  <2>1. /\ pc[SCHEDULER] = "give_back" /\ unsent'[SCHEDULER] = {}
        /\ UNCHANGED <<clock, read, todo, queue, row, log, attempted>>
    BY <1>1, <1>3, <1>9 DEF ReturnUnsentFails, IInv, TypeOK
  <2>2. Horizon <= Horizon'
    BY <1>2, <2>1 DEF Horizon
  <2>3. \A j \in Jobs : InFlight(SCHEDULER, j)' \subseteq InFlight(SCHEDULER, j)
    BY <2>1 DEF InFlight
  <2>4. ASSUME NEW at \in Nat, LastPassAt(at) PROVE LastPassAt(at)'
    BY <1>2, <2>1, <2>4 DEF LastPassAt
  <2> QED BY <1>1, <1>2, <2>1, <2>2, <2>3, <2>4, QuietOInv
<1>10. CASE Advance
  <2>1. /\ clock' = clock + 1 /\ clock - read[SCHEDULER] < TICK_GAP
        /\ UNCHANGED <<row, log, attempted, pc, read, todo, queue, unsent>>
    BY <1>10 DEF Advance, thread
  <2>2. Horizon <= Horizon'
    BY <1>2, <2>1 DEF Horizon
  <2>3. \A j \in Jobs : InFlight(SCHEDULER, j)' \subseteq InFlight(SCHEDULER, j)
    BY <2>1 DEF InFlight
  <2>4. ASSUME NEW at \in Nat, LastPassAt(at) PROVE LastPassAt(at)'
    BY <1>2, <2>1, <2>4 DEF LastPassAt
  <2> QED BY <1>1, <1>2, <2>1, <2>2, <2>3, <2>4, QuietOInv
<1>11. ~ClockBack /\ ~Restart /\ \A t \in Threads : ~RecomputeFails(t)
  BY DEF SteadyScheduler, InOrderReadings, ClockBack, Restart, RecomputeFails
<1> QED BY <1>4, <1>5, <1>6, <1>7, <1>8, <1>9, <1>10, <1>11 DEF Next

\* What the last pass answered for still holds two gaps later.
LEMMA HeardInTime == ASSUME SteadyScheduler PROVE OInv => NoSilentOutage
<1> SUFFICES ASSUME OInv, NEW j \in Jobs, NEW r \in 1..2, Overdue(j, r)
             PROVE  PagedAt(j, r) \/ JustTried(j) \/ ProbeSpeaksFor(j)
  BY DEF NoSilentOutage
<1>1. CInv /\ IInv
  BY DEF OInv, CInv
<1>2. PICK at \in Nat : LastPassAt(at) /\ \A k \in Jobs : HeardAt(k, at)
  BY DEF OInv
<1>3. clock \in Nat /\ TICK_GAP \in Nat /\ clock <= at + 2 * TICK_GAP
  <2>1. clock \in Nat /\ TICK_GAP \in Nat /\ read[SCHEDULER] \in Nat
    BY <1>1, ThreadAssumption DEF IInv, TypeOK
  <2>2. read[SCHEDULER] <= at + TICK_GAP /\ clock <= read[SCHEDULER] + TICK_GAP
    BY <1>2, <2>1 DEF LastPassAt
  <2> QED BY <2>1, <2>2
<1>4. /\ row[j] \in Row /\ log[j] \in Seq(Change) /\ SpansRun(j)
  BY <1>1 DEF OInv, IInv, TypeOK
<1>5. /\ ~alert_never[j] /\ alert_severity(row[j].state) >= r
      /\ clock >= RunFrom(log[j], r) + alert_after_s[j] + 2 * TICK_GAP
      /\ \/ row[j].alerted_at # None \/ row[j].last_paged_at = None
         \/ clock >= row[j].last_paged_at + cooldown_s(j) + 2 * TICK_GAP
  BY DEF Overdue, RunStart, RunFrom
<1>6. RunFrom(log[j], r) \in Nat
  <2>1. row[j].bad_since \in MaybeTime
    BY <1>4 DEF Row
  <2> QED BY <1>4, <1>5, <2>1, RunInEpisode DEF SpansRun
<1>7. \A k \in Jobs : alert_after_s[k] \in Nat /\ cooldown_s(k) \in Nat
  BY RegistryAssumption, WholeSecondsKeep DEF SteadyScheduler, InOrderReadings
<1>8. at >= RunFrom(log[j], r) + alert_after_s[j]
  BY <1>3, <1>5, <1>6, <1>7
<1>9. row[j].last_paged_at # None => row[j].last_paged_at \in Nat
  BY <1>4 DEF Row, MaybeTime, Time
<1>10. \/ row[j].alerted_at # None \/ row[j].last_paged_at = None
       \/ at >= row[j].last_paged_at + cooldown_s(j)
  BY <1>3, <1>5, <1>7, <1>9
<1>11. DueAt(j, r, at)
  <2>1. at >= RunStart(j, r) + alert_after_s[j]
    BY <1>8 DEF RunStart, RunFrom
  <2> QED BY <1>5, <1>10, <2>1 DEF DueAt
<1>12. ASSUME NEW k \in Jobs, TriedAt(k, at) PROVE JustTried(k)
  <2>1. PICK m \in 0..2 : attempted[k].when[m] # None /\ at - attempted[k].when[m] < ALERT_RETRY_MIN_S
    BY <1>12 DEF TriedAt
  <2>2. attempted[k].when[m] \in Nat
    BY <1>1, <2>1 DEF IInv, TypeOK, Attempt, MaybeTime, Time
  <2>3. clock - attempted[k].when[m] < ALERT_RETRY_MIN_S + 2 * TICK_GAP
    BY <1>3, <2>1, <2>2, DurationAssumption
  <2> QED BY <2>1, <2>3 DEF JustTried
<1>13. CASE SpokenForAt(j, at)
  <2>1. PICK p : p = machine_probe(Machine[j])
    OBVIOUS
  <2>2. p # None /\ p # j /\ row[j].state = "LATE" /\ AnsweredAt(p, at)
    BY <1>13, <2>1 DEF SpokenForAt
  <2>3. p \in Jobs
    BY <2>1, <2>2, ProbeOnMachine
  <2>4. \/ PagedAt(p, 1) \/ JustTried(p)
        \/ row[p].bad_since # None /\ clock < row[p].bad_since + alert_after_s[p] + 2 * TICK_GAP
    <3>1. CASE row[p].bad_since # None /\ at < row[p].bad_since + alert_after_s[p]
      <4>1. row[p].bad_since \in Nat
        BY <1>1, <2>3, <3>1 DEF IInv, TypeOK, Row, MaybeTime, Time
      <4> QED BY <1>3, <1>7, <2>3, <3>1, <4>1
    <3> QED BY <1>12, <2>2, <2>3, <3>1 DEF AnsweredAt
  <2> QED BY <2>1, <2>2, <2>4 DEF ProbeSpeaksFor
<1> QED BY <1>2, <1>11, <1>12, <1>13 DEF HeardAt

\* The hard ceiling, for every registry, every threshold in whole seconds and every failure of a
\* POST, of an answer or of a hand-back: while the scheduler keeps committing passes, a job that has been
\* broken for its whole threshold is paged at the rank it is broken at, or a POST about it was
\* tried within the retry spacing, or its machine's probe speaks for it (_resolve_alerts, _page,
\* _suppressed_offline and _return_unsent_pages taken together).
THEOREM NoOutageStaysSilent ==
    ASSUME SteadyScheduler PROVE Spec => []NoSilentOutage
<1> QED BY InitOInv, NextOInv, HeardInTime, PTL DEF Spec

=============================================================================
