---------------------------- MODULE SponsoredPost ----------------------------
(***************************************************************************)
(* Sponsored posts: a paid text is reviewed by a moderation service and    *)
(* published on X at most once (dacs/wire/sponsored-post.ts), under a      *)
(* reservation per job that survives a crash (sponsored-post/              *)
(* idempotency.ts).  X and the moderation service are external.            *)
(***************************************************************************)
EXTENDS Integers, Sequences, FiniteSets

CONSTANTS PostJobs,      \* job ids
          Texts,         \* texts that pass the policy
          BadTexts,      \* texts that do not
          MaxCalls,      \* bound on the calls of the work
          MaxPostCrashes \* bound on crashes

VARIABLES store,     \* job -> {} or {[status, text, post]}: the file of the job
          account,   \* the posts of the X account: sequence of [job, text]
          posting,   \* the call being served: [at, job, text]
          waiting,   \* calls queued behind it
          served,    \* deliverables handed back: set of [job, text, post]
          calls, postCrashes

postVars == <<store, account, posting, waiting, served, calls, postCrashes>>

IdlePost == [at |-> "idle", job |-> 0, text |-> 0]

PostInit ==
    /\ store = [j \in PostJobs |-> {}] /\ account = <<>> /\ posting = IdlePost /\ waiting = <<>>
    /\ served = {} /\ calls = 0 /\ postCrashes = 0

\* The calls of one process run one after the other, in the order they came.
CallWork ==
    /\ calls < MaxCalls
    /\ \E j \in PostJobs, t \in Texts \cup BadTexts : waiting' = Append(waiting, [job |-> j, text |-> t])
    /\ calls' = calls + 1
    /\ UNCHANGED <<store, account, posting, served, postCrashes>>

\* A text that the policy refuses reserves nothing.
StartWork ==
    /\ posting.at = "idle" /\ waiting # <<>>
    /\ posting' = IF waiting[1].text \in BadTexts THEN IdlePost
                  ELSE [at |-> "begin", job |-> waiting[1].job, text |-> waiting[1].text]
    /\ waiting' = Tail(waiting)
    /\ UNCHANGED <<store, account, served, calls, postCrashes>>

Reserved(status, text, post) == {[status |-> status, text |-> text, post |-> post]}
End == posting' = IdlePost

\* begin creates the file with the reservation, or finds one.
BeginNew(j, t) ==
    /\ store[j] = {}
    /\ store' = [store EXCEPT ![j] = Reserved("publishing", t, 0)]

\* A slip: a complete job answers for any text.
ReplaysAny(s, t) == s.status = "complete"

Replays(s, t) == s.text = t /\ s.status = "complete"

\* A job that is complete is delivered again from its record; one with another
\* text, or still publishing, is refused.
Begin ==
    /\ posting.at = "begin"
    /\ LET j == posting.job  t == posting.text IN
       \/ BeginNew(j, t) /\ posting' = [posting EXCEPT !.at = "moderate"] /\ UNCHANGED served
       \/ /\ \E s \in store[j] : Replays(s, t) /\ served' = served \cup {[job |-> j, text |-> t, post |-> s.post]}
          /\ End /\ UNCHANGED store
       \/ /\ \E s \in store[j] : ~Replays(s, t)
          /\ End /\ UNCHANGED <<store, served>>
    /\ UNCHANGED <<account, waiting, calls, postCrashes>>

releaseRejected(j, t) ==
    store' = [store EXCEPT ![j] = {s \in @ : ~(s.status = "publishing" /\ s.text = t)}]

\* approveSponsoredPost: the review allows, refuses or fails.
Moderate ==
    /\ posting.at = "moderate"
    /\ \/ posting' = [posting EXCEPT !.at = "publish"] /\ UNCHANGED store
       \/ releaseRejected(posting.job, posting.text) /\ End
    /\ UNCHANGED <<account, waiting, served, calls, postCrashes>>

\* publish: a client error is a refusal and frees the job; a timeout, a server
\* error or an answer that does not match leaves it reserved, for the text may
\* have been posted.
Releases(answer) == answer = "rejected"

\* One request makes one post, if it lands.
Request(j, t) == <<[job |-> j, text |-> t]>>

Publish ==
    /\ posting.at = "publish"
    /\ \E answer \in {"created", "rejected", "unknown"}, landed \in BOOLEAN :
           /\ answer = "created" => landed
           /\ answer = "rejected" => ~landed
           /\ account' = IF landed THEN account \o Request(posting.job, posting.text) ELSE account
           /\ posting' = IF answer = "created" THEN [posting EXCEPT !.at = "record"] ELSE IdlePost
           /\ IF Releases(answer) THEN releaseRejected(posting.job, posting.text) ELSE UNCHANGED store
    /\ UNCHANGED <<waiting, served, calls, postCrashes>>

\* complete replaces the record by renaming a new file over it; it may fail,
\* and then the job stays reserved.
Record ==
    /\ posting.at = "record"
    /\ \/ /\ \E s \in store[posting.job] : s.text = posting.text
          /\ store' = [store EXCEPT ![posting.job] = Reserved("complete", posting.text, Len(account))]
          /\ served' = served \cup {[job |-> posting.job, text |-> posting.text, post |-> Len(account)]}
       \/ UNCHANGED <<store, served>>
    /\ End
    /\ UNCHANGED <<account, waiting, calls, postCrashes>>

\* The process dies at any point; the files stay.  A file that was created and
\* not yet written does not parse, and every later begin of its job throws.
PostCrash ==
    /\ postCrashes < MaxPostCrashes
    /\ \/ UNCHANGED store
       \/ posting.at = "begin" /\ store[posting.job] = {} /\ store' = [store EXCEPT ![posting.job] = Reserved("torn", 0, 0)]
    /\ posting' = IdlePost /\ waiting' = <<>> /\ postCrashes' = postCrashes + 1
    /\ UNCHANGED <<account, served, calls>>

PostNext == CallWork \/ StartWork \/ Begin \/ Moderate \/ Publish \/ Record \/ PostCrash

-----------------------------------------------------------------------------

\* A job is posted at most once, through crashes between the post and its
\* record, answers that got lost and any number of retries: the account never
\* carries two posts for the same paid job.
PostedOnce == \A i, k \in DOMAIN account : account[i].job = account[k].job => i = k

\* What a buyer is handed, at first or on a retry, is a post of the account
\* with the text that was paid for, published for that very job.
DeliveredIsPosted ==
    \A d \in served : d.post \in DOMAIN account /\ account[d.post] = [job |-> d.job, text |-> d.text]

\* A post that is out always has its reservation on disk, so that no later
\* call can start the job afresh.
PostIsReserved == \A i \in DOMAIN account : \E s \in store[account[i].job] : s.text = account[i].text
=============================================================================
