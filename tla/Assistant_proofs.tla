--------------------------- MODULE Assistant_proofs ---------------------------
(***************************************************************************)
(* Proofs about Assistant, for every number of questions, submits, page    *)
(* changes, restarts of the service and turns kept.                        *)
(***************************************************************************)
EXTENDS Assistant, FiniteSetTheorems, TLAPS

USE BoundsAssumption

(***************************************************************************)
(* What the visible items look like after a step: the same questions under *)
(* the same runs, with the same thumbs.                                    *)
(***************************************************************************)
Relabels(m) ==
    /\ Len(m) = Len(log)
    /\ \A i \in 1..Len(log) : m[i].run = log[i].run /\ m[i].q = log[i].q /\ m[i].of = log[i].of

LEMMA RetryIsAQuestion ==
    ASSUME TypeOK
    PROVE  /\ RetryOf(history) \in 0..typed
           /\ RetryOf(history) # 0 => history # <<>> /\ Last(history)[1] = "user" /\ RetryOf(history) = Last(history)[2]
<1>1. history \in Seq({"user", "assistant"} \X Questions) /\ typed \in Nat
  BY DEF TypeOK, PageOK
<1>2. CASE history = <<>>
  BY <1>1, <1>2 DEF RetryOf
<1>3. CASE history # <<>>
  <2>1. Last(history) \in {"user", "assistant"} \X Questions
    BY <1>1, <1>3 DEF Last
  <2>2. Last(history)[2] \in 1..typed
    BY <2>1 DEF Questions
  <2> QED
    BY <1>1, <1>3, <2>2 DEF RetryOf
<1> QED
  BY <1>2, <1>3

LEMMA StoppedLog ==
    ASSUME TypeOK, NEW r \in runs
    PROVE  OfRun(r, Stopped) \in Seq(Items) /\ Relabels(OfRun(r, Stopped))
<1>1. log \in Seq(Items) /\ runs \subseteq Runs
  BY DEF TypeOK, PageOK
<1>2. OfRun(r, Stopped) = [i \in DOMAIN log |-> IF log[i].run = r.id THEN Stopped(log[i]) ELSE log[i]]
  BY DEF OfRun
<1>3. \A item \in Items : Stopped(item) \in Items /\ Stopped(item).run = item.run /\ Stopped(item).q = item.q
                            /\ Stopped(item).of = item.of
  BY DEF Stopped, Items
<1> QED
  BY <1>1, <1>2, <1>3 DEF Relabels

LEMMA FailItem ==
    ASSUME TypeOK, NEW word \in Words, NEW item \in Items
    PROVE  /\ Fail(item, word, history) \in Items
           /\ Fail(item, word, history).run = item.run
           /\ Fail(item, word, history).q = item.q
           /\ Fail(item, word, history).of = item.of
<1>1. RetryOf(history) \in 0..typed /\ 0 \in 0..typed
  BY RetryIsAQuestion DEF TypeOK
<1> QED
  BY <1>1 DEF Fail, Items, Words

LEMMA FailsLog ==
    ASSUME TypeOK, NEW r \in runs, NEW word \in Words, Fails(r, word)
    PROVE  log' \in Seq(Items) /\ Relabels(log')
<1>1. log \in Seq(Items) /\ runs \subseteq Runs
  BY DEF TypeOK, PageOK
<1>2. log' = [i \in DOMAIN log |-> IF log[i].run = r.id THEN (IF r.aborted THEN Stopped(log[i]) ELSE Fail(log[i], word, history)) ELSE log[i]]
  BY DEF OfRun, Fails
<1>3. \A item \in Items : Stopped(item) \in Items /\ Stopped(item).run = item.run /\ Stopped(item).q = item.q
                            /\ Stopped(item).of = item.of
  BY DEF Stopped, Items
<1>4. \A item \in Items : /\ Fail(item, word, history) \in Items
                          /\ Fail(item, word, history).run = item.run
                          /\ Fail(item, word, history).q = item.q
                          /\ Fail(item, word, history).of = item.of
  BY FailItem
<1> QED
  BY <1>1, <1>2, <1>3, <1>4 DEF Relabels

Errs(r, word) == log' = OfRun(r, LAMBDA item : Fail(item, word, history))

LEMMA ErrorLog ==
    ASSUME TypeOK, NEW r \in runs, NEW word \in Words, Errs(r, word)
    PROVE  log' \in Seq(Items) /\ Relabels(log')
<1>1. log \in Seq(Items) /\ runs \subseteq Runs
  BY DEF TypeOK, PageOK
<1>2. log' = [i \in DOMAIN log |-> IF log[i].run = r.id THEN Fail(log[i], word, history) ELSE log[i]]
  BY DEF OfRun, Errs
<1>4. \A item \in Items : /\ Fail(item, word, history) \in Items
                          /\ Fail(item, word, history).run = item.run
                          /\ Fail(item, word, history).q = item.q
                          /\ Fail(item, word, history).of = item.of
  BY FailItem
<1> QED
  BY <1>1, <1>2, <1>4 DEF Relabels

Shows(r) == log' = OfRun(r, LAMBDA item : Shown(item, r.turn))

LEMMA ShownLog ==
    ASSUME TypeOK, NEW r \in runs, Shows(r)
    PROVE  /\ log' \in Seq(Items) /\ Len(log') = Len(log)
           /\ \A i \in 1..Len(log) :
                /\ log'[i].run = log[i].run /\ log'[i].q = log[i].q
                /\ \/ log'[i].of = log[i].of
                   \/ log[i].run = r.id /\ log'[i].of \in {0, conversation}
<1>1. log \in Seq(Items) /\ r \in Runs /\ conversation \in Nat
  BY DEF TypeOK, PageOK
<1>2. log' = [i \in DOMAIN log |-> IF log[i].run = r.id THEN Shown(log[i], r.turn) ELSE log[i]]
  BY DEF OfRun, Shows
<1>3. \A item \in Items : /\ Shown(item, r.turn) \in Items
                          /\ Shown(item, r.turn).run = item.run
                          /\ Shown(item, r.turn).q = item.q
                          /\ Shown(item, r.turn).of \in {0, conversation}
  BY <1>1 DEF Shown, Items, Runs
<1> QED
  BY <1>1, <1>2, <1>3

(***************************************************************************)
(* A run that was not stopped is the one the box waits for.                *)
(***************************************************************************)
LEMMA NotStopped ==
    ASSUME TypeOK, OneRun, NEW r \in runs, r.at \notin Waiting \cup {"none"} \/ ~r.aborted
    PROVE  /\ ~r.aborted /\ busy = r.id
           /\ \A s \in runs : ~s.aborted => s = r
<1>1. runs \subseteq Runs /\ r \in Runs
  BY DEF TypeOK, PageOK
<1>2. ~r.aborted
  BY <1>1 DEF OneRun, Runs
<1> QED
  BY <1>1, <1>2 DEF OneRun, OneAnswerAtATime

(***************************************************************************)
(* A run goes on as s: still the same question, in the same conversation.  *)
(***************************************************************************)
GoesOn(r, s) ==
    /\ s \in Runs
    /\ s.id = r.id /\ s.q = r.q /\ s.in = r.in /\ s.resumes = r.resumes /\ s.resumable = r.resumable
    /\ s.aborted => s.at \in Waiting \cup {"none"}
    /\ ~s.aborted => ~r.aborted
    /\ s.at \in {"post", "repost"} => ~s.resumes
    /\ s.at \in Waiting \cup {"post", "repost"} => r.at \in Waiting \cup {"post", "repost"}
    /\ s.at \in Reading \cup {"resume"} => r.at \in Reading \cup {"resume"} \/ r.resumes
    /\ s.at \in Reading \ {"open"} => r.at \in Reading \ {"open"}

RunsOK == runs \subseteq Runs /\ busy \in 0..submits

LEMMA MovesOneRun ==
    ASSUME TypeOK, OneRun, NEW r \in runs, NEW s, s.id = r.id, s.aborted => s.at \in Waiting \cup {"none"},
           ~s.aborted => ~r.aborted, Moves(r, s), UNCHANGED <<busy, submits>>
    PROVE  OneRun'
<1>1. runs' = (runs \ {r}) \cup {s}
  BY DEF Moves
<1>2. \A t \in runs' : t.id \in 1..submits' /\ (t.aborted => t.at \in Waiting \cup {"none"})
  BY <1>1 DEF OneRun
<1>3. \A t, u \in runs' : t.id = u.id => t = u
  BY <1>1 DEF OneRun
<1>4. \A t \in runs' : ~t.aborted => busy' = t.id
  BY <1>1 DEF OneRun, OneAnswerAtATime
<1>5. busy' # 0 => \E t \in runs' : t.id = busy'
  BY <1>1 DEF OneRun, OneAnswerAtATime
<1> QED
  BY <1>2, <1>3, <1>4, <1>5 DEF OneRun, OneAnswerAtATime

LEMMA MovesKeep ==
    ASSUME TypeOK, OneRun, Owes, RunsBelong, NEW r \in runs, NEW s, GoesOn(r, s), Moves(r, s),
           UNCHANGED <<busy, submits, typed, conversation, served, owed, gone>>
    PROVE  RunsOK' /\ OneRun' /\ Owes' /\ RunsBelong'
<1>1. runs \subseteq Runs /\ r \in Runs /\ s \in Runs /\ busy \in 0..submits /\ submits \in Nat
  BY DEF TypeOK, PageOK, GoesOn
<1>2. runs' = (runs \ {r}) \cup {s}
  BY DEF Moves
<1>3. Runs' = Runs
  BY DEF Runs, Questions
<1>4. RunsOK'
  BY <1>1, <1>2, <1>3 DEF RunsOK
<1>5. OneRun'
  BY MovesOneRun DEF GoesOn
<1>6. Owes'
  BY <1>1, <1>2 DEF Owes, GoesOn
<1>7. RunsBelong'
  <2>1. \A q, c : Asked(q, c)' <=> Asked(q, c)
    BY DEF Asked
  <2>2. /\ busy = s.id => s.q \notin gone
        /\ (s.resumable \/ s.resumes \/ s.at \in Reading \cup {"resume"}) => Asked(s.q, s.in)
        /\ s.at \in Reading \ {"open"} => conversation = s.in
    BY DEF RunsBelong, GoesOn
  <2>3. \A t \in runs :
         /\ busy = t.id => t.q \notin gone
         /\ (t.resumable \/ t.resumes \/ t.at \in Reading \cup {"resume"}) => Asked(t.q, t.in)
         /\ t.at \in Reading \ {"open"} => conversation = t.in
    BY DEF RunsBelong
  <2> QED
    BY <1>2, <2>1, <2>2, <2>3 DEF RunsBelong
<1> QED
  BY <1>4, <1>5, <1>6, <1>7

LEMMA SettlesKeep ==
    ASSUME TypeOK, OneRun, Owes, RunsBelong, NEW r \in runs, Settles(r),
           UNCHANGED <<submits, typed, conversation, served, owed, gone>>
    PROVE  RunsOK' /\ OneRun' /\ Owes' /\ RunsBelong'
<1>1. runs \subseteq Runs /\ r \in Runs /\ busy \in 0..submits /\ submits \in Nat
  BY DEF TypeOK, PageOK
<1>2. runs' = runs \ {r} /\ busy' = IF busy = r.id THEN 0 ELSE busy
  BY DEF Settles
<1>3. Runs' = Runs
  BY DEF Runs, Questions
<1>4. RunsOK'
  BY <1>1, <1>2, <1>3 DEF RunsOK
<1>5. OneRun'
  <2>1. \A t \in runs' : t.id \in 1..submits' /\ (t.aborted => t.at \in Waiting \cup {"none"})
    BY <1>2 DEF OneRun
  <2>2. \A t, u \in runs' : t.id = u.id => t = u
    BY <1>2 DEF OneRun
  <2>3. \A t \in runs' : ~t.aborted => busy' = t.id
    BY <1>2 DEF OneRun, OneAnswerAtATime
  <2>4. busy' # 0 => \E t \in runs' : t.id = busy'
    BY <1>2 DEF OneRun, OneAnswerAtATime
  <2> QED
    BY <2>1, <2>2, <2>3, <2>4 DEF OneRun, OneAnswerAtATime
<1>6. Owes'
  BY <1>1, <1>2 DEF Owes
<1>7. RunsBelong'
  <2>1. \A q, c : Asked(q, c)' <=> Asked(q, c)
    BY DEF Asked
  <2>2. \A t \in runs' : busy' = t.id => busy = t.id
    BY <1>2 DEF OneRun
  <2>3. \A t \in runs :
         /\ busy = t.id => t.q \notin gone
         /\ (t.resumable \/ t.resumes \/ t.at \in Reading \cup {"resume"}) => Asked(t.q, t.in)
         /\ t.at \in Reading \ {"open"} => conversation = t.in
    BY DEF RunsBelong
  <2> QED
    BY <1>2, <2>1, <2>2, <2>3 DEF RunsBelong
<1> QED
  BY <1>4, <1>5, <1>6, <1>7

(***************************************************************************)
(* An abort of `busy` leaves stopped runs that wait for a token, no other. *)
(***************************************************************************)
LEMMA AbortedAre ==
    ASSUME TypeOK, OneRun
    PROVE  /\ Aborted \subseteq Runs
           /\ \A r \in Aborted : r.aborted /\ r.at \in Waiting \cup {"none"}
           /\ \A r \in Aborted : \E s \in runs : r = [s EXCEPT !.aborted = TRUE]
<1>1. runs \subseteq Runs
  BY DEF TypeOK, PageOK
<1>2. \A s \in runs : s.id # busy => s.aborted /\ s.at \in Waiting \cup {"none"}
  BY <1>1 DEF OneRun, OneAnswerAtATime, Runs
<1>3. \A s \in Runs : s.aborted => s = [s EXCEPT !.aborted = TRUE]
  BY DEF Runs
<1>4. ASSUME NEW r \in Aborted
      PROVE  /\ r \in Runs /\ r.aborted /\ r.at \in Waiting \cup {"none"}
             /\ \E s \in runs : r = [s EXCEPT !.aborted = TRUE]
  <2>1. PICK s \in runs : (s.id # busy \/ s.at \in Waiting) /\ r = IF s.id = busy THEN [s EXCEPT !.aborted = TRUE] ELSE s
    BY DEF Aborted
  <2>2. s \in Runs
    BY <1>1
  <2>3. r = [s EXCEPT !.aborted = TRUE]
    BY <1>2, <1>3, <2>1, <2>2
  <2>4. r \in Runs /\ r.aborted /\ r.at = s.at
    BY <2>2, <2>3 DEF Runs
  <2> QED
    BY <1>2, <2>1, <2>3, <2>4
<1> QED
  BY <1>4

(***************************************************************************)
(* What a step does to the visible items, and to the runs they belong to.  *)
(***************************************************************************)
ComeFrom == submits' = submits /\ \A t \in runs' : \E s \in runs : t.id = s.id /\ t.q = s.q

LEMMA MovesComeFrom ==
    ASSUME NEW r \in runs, NEW s, GoesOn(r, s), Moves(r, s), submits' = submits
    PROVE  ComeFrom
  BY DEF ComeFrom, Moves, GoesOn

LEMMA SettlesComeFrom ==
    ASSUME NEW r \in runs, Settles(r), submits' = submits
    PROVE  ComeFrom
  BY DEF ComeFrom, Settles

LEMMA SameLog ==
    ASSUME TypeOK, log' = log
    PROVE  log' \in Seq(Items) /\ Relabels(log')
  BY DEF TypeOK, PageOK, Relabels

LEMMA AskedStays ==
    ASSUME NEW q, NEW c, served' = served
    PROVE  Asked(q, c)' <=> Asked(q, c)
  BY DEF Asked

(***************************************************************************)
(* A step of a run, or of its visitor, that only relabels items.           *)
(***************************************************************************)
LEMMA QuietStep ==
    ASSUME IInv, log' \in Seq(Items), Relabels(log'), ComeFrom,
           RunsOK', OneRun', Owes', RunsBelong', visitor' \in {"none", "earning", "held"},
           UNCHANGED <<conversation, asked, history, kept, stored, service, loads, forgets, typed, submits, observed>>
    PROVE  IInv'
<1>1. log \in Seq(Items) /\ TypeOK
  BY DEF IInv, TypeOK, PageOK
<1>2. DOMAIN log = 1..Len(log) /\ DOMAIN log' = 1..Len(log) /\ Len(log') = Len(log)
  BY <1>1 DEF Relabels
<1>3. Items' = Items /\ Turns' = Turns /\ Conversations' = Conversations /\ Questions' = Questions /\ Runs' = Runs
  BY DEF Items, Turns, Conversations, Questions, Runs, service
<1>4. PageOK'
  BY <1>1, <1>3 DEF TypeOK, PageOK, RunsOK, service
<1>5. TypeOK'
  BY <1>1, <1>3, <1>4 DEF TypeOK, service, observed
<1>6. ItemsOfRuns'
  BY <1>2 DEF IInv, ItemsOfRuns, ComeFrom, Relabels
<1>7. \A q, c : Asked(q, c)' <=> Asked(q, c)
  BY AskedStays DEF service
<1>8. ThumbsBelong'
  BY <1>2, <1>7 DEF IInv, ThumbsBelong, Relabels
<1>9. KeptBelong'
  BY <1>7 DEF IInv, KeptBelong
<1>10. NothingComesBack'
  BY <1>2 DEF IInv, NothingComesBack, Relabels, observed
<1> QED
  BY <1>5, <1>6, <1>8, <1>9, <1>10 DEF IInv

(***************************************************************************)
(* A step that shows an answer of the conversation now open.               *)
(***************************************************************************)
LEMMA ShownStep ==
    ASSUME IInv, NEW r \in runs, r.at \in {"answer", "text"}, Shows(r), ComeFrom,
           UNCHANGED <<served, gone>>
    PROVE  /\ log' \in Seq(Items) /\ ItemsOfRuns' /\ ThumbsBelong'
           /\ \A i \in DOMAIN log' : log'[i].q \notin gone'
<1>1. log \in Seq(Items) /\ TypeOK
  BY DEF IInv, TypeOK, PageOK
<1>2. /\ log' \in Seq(Items) /\ Len(log') = Len(log)
      /\ \A i \in 1..Len(log) :
           /\ log'[i].run = log[i].run /\ log'[i].q = log[i].q
           /\ \/ log'[i].of = log[i].of
              \/ log[i].run = r.id /\ log'[i].of \in {0, conversation}
  BY <1>1, ShownLog
<1>3. DOMAIN log = 1..Len(log) /\ DOMAIN log' = 1..Len(log)
  BY <1>1, <1>2
<1>4. Asked(r.q, conversation)
  BY DEF IInv, RunsBelong, Reading
<1>5. ItemsOfRuns'
  BY <1>2 DEF IInv, ItemsOfRuns, ComeFrom
<1>6. \A q, c : Asked(q, c)' <=> Asked(q, c)
  BY AskedStays
<1>7. ThumbsBelong'
  BY <1>2, <1>4, <1>6 DEF IInv, ThumbsBelong, ItemsOfRuns
<1>8. \A i \in DOMAIN log' : log'[i].q \notin gone'
  BY <1>2, <1>3 DEF IInv, NothingComesBack
<1> QED
  BY <1>2, <1>5, <1>7, <1>8

(***************************************************************************)
(* Steps that only move or settle a run and relabel its item.              *)
(***************************************************************************)
LEMMA MovesQuietly ==
    ASSUME IInv, NEW r \in runs, NEW s, GoesOn(r, s), Moves(r, s), log' \in Seq(Items), Relabels(log'),
           visitor' \in {"none", "earning", "held"},
           UNCHANGED <<conversation, asked, history, kept, busy, stored, service, loads, forgets, typed, submits, observed>>
    PROVE  IInv'
<1>1. RunsOK' /\ OneRun' /\ Owes' /\ RunsBelong'
  BY MovesKeep DEF IInv, service, observed
<1>2. ComeFrom
  BY MovesComeFrom
<1> QED
  BY <1>1, <1>2, QuietStep

LEMMA SettlesQuietly ==
    ASSUME IInv, NEW r \in runs, Settles(r), log' \in Seq(Items), Relabels(log'),
           visitor' \in {"none", "earning", "held"},
           UNCHANGED <<conversation, asked, history, kept, stored, service, loads, forgets, typed, submits, observed>>
    PROVE  IInv'
<1>1. RunsOK' /\ OneRun' /\ Owes' /\ RunsBelong'
  BY SettlesKeep DEF IInv, service, observed
<1>2. ComeFrom
  BY SettlesComeFrom
<1> QED
  BY <1>1, <1>2, QuietStep

LEMMA FailsQuietly ==
    ASSUME IInv, NEW r \in runs, NEW word \in Words, Fails(r, word),
           visitor' \in {"none", "earning", "held"},
           UNCHANGED <<conversation, asked, history, kept, stored, service, loads, forgets, typed, submits, observed>>
    PROVE  IInv'
<1>1. log' \in Seq(Items) /\ Relabels(log')
  BY FailsLog DEF IInv
<1>2. Settles(r)
  BY DEF Fails
<1> QED
  BY <1>1, <1>2, SettlesQuietly

LEMMA RunTyped ==
    ASSUME TypeOK, NEW r \in runs
    PROVE  r \in Runs /\ visitor \in {"none", "earning", "held"}
  BY DEF TypeOK, PageOK

LEMMA StopKeeps ==
    ASSUME IInv, Stop
    PROVE  IInv'
<1>1. PICK r \in runs :
        /\ busy = r.id /\ ~r.aborted
        /\ IF r.at \in Waiting
           THEN Moves(r, [r EXCEPT !.aborted = TRUE]) /\ UNCHANGED <<busy, log>>
           ELSE Settles(r) /\ log' = OfRun(r, Stopped)
        /\ UNCHANGED <<conversation, asked, history, kept, visitor, stored, service, counters, observed>>
  BY DEF Stop
<1>2. r \in Runs /\ visitor \in {"none", "earning", "held"} /\ TypeOK
  BY RunTyped DEF IInv
<1>3. CASE r.at \in Waiting
  <2>1. GoesOn(r, [r EXCEPT !.aborted = TRUE])
    BY <1>2, <1>3 DEF GoesOn, Runs, IInv, Owes, Waiting, Reading
  <2>2. log' \in Seq(Items) /\ Relabels(log')
    BY <1>1, <1>2, <1>3, SameLog
  <2> QED
    BY <1>1, <1>2, <1>3, <2>1, <2>2, MovesQuietly DEF counters
<1>4. CASE r.at \notin Waiting
  <2>1. log' \in Seq(Items) /\ Relabels(log')
    BY <1>1, <1>2, <1>4, StoppedLog
  <2> QED
    BY <1>1, <1>2, <1>4, <2>1, SettlesQuietly DEF counters
<1> QED
  BY <1>3, <1>4

LEMMA TokenHeldKeeps ==
    ASSUME IInv, NEW r \in runs, TokenHeld(r)
    PROVE  IInv'
<1>1. r \in Runs /\ visitor \in {"none", "earning", "held"} /\ TypeOK
  BY RunTyped DEF IInv
<1>2. /\ r.at \in Waiting
      /\ UNCHANGED <<conversation, asked, history, kept, stored, service, loads, forgets, typed, submits, observed>>
  BY DEF TokenHeld, counters
<1>3. CASE r.aborted /\ Settles(r) /\ log' = OfRun(r, Stopped) /\ UNCHANGED visitor
  <2>1. log' \in Seq(Items) /\ Relabels(log')
    BY <1>1, <1>3, StoppedLog
  <2> QED
    BY <1>1, <1>2, <1>3, <2>1, SettlesQuietly
<1>4. ASSUME NEW s, Moves(r, s), UNCHANGED <<busy, log>>, GoesOn(r, s), visitor' \in {"none", "earning", "held"}
      PROVE  IInv'
  <2>1. log' \in Seq(Items) /\ Relabels(log')
    BY <1>1, <1>4, SameLog
  <2> QED
    BY <1>1, <1>2, <1>4, <2>1, MovesQuietly
<1>5. CASE /\ ~r.aborted
           /\ Moves(r, [r EXCEPT !.at = IF r.resumes THEN "resume" ELSE IF r.at = "again" THEN "repost" ELSE "post"])
           /\ UNCHANGED <<busy, log, visitor>>
  <2>1. GoesOn(r, [r EXCEPT !.at = IF r.resumes THEN "resume" ELSE IF r.at = "again" THEN "repost" ELSE "post"])
    BY <1>1, <1>2, <1>5 DEF GoesOn, Runs, Waiting, Reading
  <2> QED
    BY <1>1, <1>4, <1>5, <2>1
<1>6. CASE /\ r.at = "token" /\ ~r.resumes
           /\ visitor' = "earning"
           /\ Moves(r, [r EXCEPT !.at = "refresh"])
           /\ UNCHANGED <<busy, log>>
  <2>1. GoesOn(r, [r EXCEPT !.at = "refresh"])
    BY <1>1, <1>2, <1>6 DEF GoesOn, Runs, Waiting, Reading
  <2> QED
    BY <1>1, <1>4, <1>6, <2>1
<1> QED
  BY <1>3, <1>5, <1>6 DEF TokenHeld

LEMMA NoTokenKeeps ==
    ASSUME IInv, NEW r \in runs, NoToken(r)
    PROVE  IInv'
<1>1. visitor \in {"none", "earning", "held"}
  BY RunTyped DEF IInv
<1> QED
  BY <1>1, FailsQuietly DEF NoToken, counters, Words

LEMMA ResumedKeeps ==
    ASSUME IInv, NEW r \in runs, Resumed(r)
    PROVE  IInv'
<1>1. r \in Runs /\ visitor \in {"none", "earning", "held"} /\ TypeOK
  BY RunTyped DEF IInv
<1>2. /\ r.at = "resume"
      /\ UNCHANGED <<conversation, asked, history, kept, visitor, stored, service, loads, forgets, typed, submits, observed>>
  BY DEF Resumed, counters
<1>3. CASE Moves(r, [r EXCEPT !.at = "open"]) /\ UNCHANGED <<busy, log>>
  <2>1. ~r.aborted
    BY <1>2, NotStopped DEF IInv, Waiting
  <2>2. GoesOn(r, [r EXCEPT !.at = "open"])
    BY <1>1, <1>2, <2>1 DEF GoesOn, Runs, Waiting, Reading
  <2>3. log' \in Seq(Items) /\ Relabels(log')
    BY <1>1, <1>3, SameLog
  <2> QED
    BY <1>1, <1>2, <1>3, <2>2, <2>3, MovesQuietly
<1>4. CASE Fails(r, "again")
  BY <1>1, <1>2, <1>4, FailsQuietly DEF Words
<1> QED
  BY <1>3, <1>4 DEF Resumed

LEMMA LostKeeps ==
    ASSUME IInv, NEW r \in runs, Lost(r)
    PROVE  IInv'
<1>1. visitor \in {"none", "earning", "held"}
  BY RunTyped DEF IInv
<1> QED
  BY <1>1, FailsQuietly DEF Lost, counters, Words

LEMMA ErrorEventKeeps ==
    ASSUME IInv, NEW r \in runs, ErrorEvent(r)
    PROVE  IInv'
<1>1. r \in Runs /\ visitor \in {"none", "earning", "held"} /\ TypeOK
  BY RunTyped DEF IInv
<1>2. PICK word \in Words : Errs(r, word)
  BY DEF ErrorEvent, Errs
<1>3. log' \in Seq(Items) /\ Relabels(log')
  BY <1>1, <1>2, ErrorLog
<1>4. r.at = "text" /\ Moves(r, [r EXCEPT !.at = "failed", !.text = FALSE])
  BY DEF ErrorEvent
<1>5. ~r.aborted
  BY <1>4, NotStopped DEF IInv, Waiting
<1>6. GoesOn(r, [r EXCEPT !.at = "failed", !.text = FALSE])
  BY <1>1, <1>4, <1>5 DEF GoesOn, Runs, Waiting, Reading
<1> QED
  BY <1>1, <1>3, <1>4, <1>6, MovesQuietly DEF ErrorEvent, counters

(***************************************************************************)
(* The token is earned or not; the service restarts.                       *)
(***************************************************************************)
LEMMA NotEarnedKeeps ==
    ASSUME IInv, NotEarned
    PROVE  IInv'
<1>1. runs \subseteq Runs /\ submits \in Nat /\ busy \in 0..submits /\ TypeOK
  BY DEF IInv, TypeOK, PageOK
<1>2. /\ runs' = {IF r.at \in Waiting THEN [r EXCEPT !.at = "none"] ELSE r : r \in runs}
      /\ visitor' = "none"
      /\ UNCHANGED <<conversation, asked, history, kept, log, busy, stored, service, loads, forgets, typed, submits, observed>>
  BY DEF NotEarned, counters
<1>3. \A t \in runs' : \E r \in runs :
        /\ t.id = r.id /\ t.q = r.q /\ t.aborted = r.aborted /\ t.resumes = r.resumes /\ t.resumable = r.resumable
        /\ t.in = r.in /\ t \in Runs
        /\ t = IF r.at \in Waiting THEN [r EXCEPT !.at = "none"] ELSE r
        /\ t.at = IF r.at \in Waiting THEN "none" ELSE r.at
  <2>1. \A r \in Runs : [r EXCEPT !.at = "none"] \in Runs
    BY DEF Runs
  <2>2. \A r \in Runs : LET t == [r EXCEPT !.at = "none"]
                        IN t.id = r.id /\ t.q = r.q /\ t.aborted = r.aborted /\ t.resumes = r.resumes
                           /\ t.resumable = r.resumable /\ t.in = r.in /\ t.at = "none"
    BY DEF Runs
  <2>3. ASSUME NEW t \in runs'
        PROVE  \E r \in runs : t = IF r.at \in Waiting THEN [r EXCEPT !.at = "none"] ELSE r
    BY <1>2
  <2>4. ASSUME NEW t, NEW r \in runs, t = IF r.at \in Waiting THEN [r EXCEPT !.at = "none"] ELSE r
        PROVE  /\ t.id = r.id /\ t.q = r.q /\ t.aborted = r.aborted /\ t.resumes = r.resumes /\ t.resumable = r.resumable
               /\ t.in = r.in /\ t \in Runs
               /\ t.at = IF r.at \in Waiting THEN "none" ELSE r.at
    BY <1>1, <2>1, <2>2, <2>4
  <2> QED
    BY <2>3, <2>4
<1>4. Runs' = Runs
  BY <1>2 DEF Runs, Questions
<1>5. RunsOK'
  BY <1>1, <1>2, <1>3, <1>4 DEF RunsOK
<1>6. OneRun'
  <2>1. \A t \in runs' : t.id \in 1..submits' /\ (t.aborted => t.at \in Waiting \cup {"none"})
    BY <1>2, <1>3 DEF IInv, OneRun
  <2>2. \A t, u \in runs' : t.id = u.id => t = u
    BY <1>3 DEF IInv, OneRun
  <2>3. \A t \in runs' : ~t.aborted => busy' = t.id
    BY <1>2, <1>3 DEF IInv, OneRun, OneAnswerAtATime
  <2>4. busy' # 0 => \E t \in runs' : t.id = busy'
    <3>1. \A r \in runs : \E t \in runs' : t.id = r.id
      <4>1. \A r \in Runs : [r EXCEPT !.at = "none"].id = r.id
        BY DEF Runs
      <4>2. ASSUME NEW r \in runs
            PROVE  \E t \in runs' : t.id = r.id
        <5>1. PICK t : t = IF r.at \in Waiting THEN [r EXCEPT !.at = "none"] ELSE r
          OBVIOUS
        <5>2. t \in runs'
          BY <1>2, <5>1
        <5>3. t.id = r.id
          BY <1>1, <4>1, <5>1, SMTT(30)
        <5> QED
          BY <5>2, <5>3
      <4> QED
        BY <4>2
    <3> QED
      BY <1>2, <3>1 DEF IInv, OneRun, OneAnswerAtATime
  <2> QED
    BY <2>1, <2>2, <2>3, <2>4 DEF OneRun, OneAnswerAtATime
<1>7. Owes'
  <2>1. \A t \in runs' : t.at \in Waiting \cup {"post", "repost"} => \E r \in runs : t = r
    BY <1>3 DEF Waiting
  <2>2. \A r \in runs : /\ (~r.aborted /\ ~r.resumes /\ r.at \in Waiting \cup {"post", "repost"}) => owed'[r.q] > 0
                        /\ r.at \in {"post", "repost"} => ~r.resumes
    BY <1>2 DEF IInv, Owes, observed
  <2> QED
    BY <2>1, <2>2 DEF Owes
<1>8. \A q, c : Asked(q, c)' <=> Asked(q, c)
  BY <1>2, AskedStays DEF service
<1>9. RunsBelong'
  <2>1. \A r \in runs : /\ busy' = r.id => r.q \notin gone'
                        /\ (r.resumable \/ r.resumes \/ r.at \in Reading \cup {"resume"}) => Asked(r.q, r.in)'
                        /\ r.at \in Reading \ {"open"} => conversation' = r.in
    BY <1>2, <1>8 DEF IInv, RunsBelong, observed
  <2>2. \A t \in runs' : t.at \in Reading \cup {"resume"} => \E r \in runs : t = r
    BY <1>3 DEF Reading
  <2> QED
    BY <1>3, <2>1, <2>2 DEF RunsBelong
<1>10. ComeFrom
  BY <1>2, <1>3 DEF ComeFrom
<1>11. log' \in Seq(Items) /\ Relabels(log')
  BY <1>1, <1>2, SameLog
<1> QED
  BY <1>2, <1>5, <1>6, <1>7, <1>9, <1>10, <1>11, QuietStep

LEMMA EarnedKeeps ==
    ASSUME IInv, Earned
    PROVE  IInv'
<1>1. UNCHANGED <<conversation, asked, history, kept, log, busy, runs, stored, served, known, loads, forgets, typed, submits,
                  owed, gone>>
      /\ visitor' = "held" /\ trusts' = TRUE
  BY DEF Earned, counters, observed
<1>2. TypeOK'
  BY <1>1 DEF IInv, TypeOK, PageOK, Items, Turns, Conversations, Questions, Runs
<1>3. \A q, c : Asked(q, c)' <=> Asked(q, c)
  BY <1>1, AskedStays
<1>4. OneRun' /\ Owes' /\ ItemsOfRuns'
  BY <1>1 DEF IInv, OneRun, OneAnswerAtATime, Owes, ItemsOfRuns
<1>5. RunsBelong' /\ KeptBelong' /\ ThumbsBelong'
  BY <1>1, <1>3 DEF IInv, RunsBelong, KeptBelong, ThumbsBelong
<1>6. NothingComesBack'
  BY <1>1 DEF IInv, NothingComesBack
<1> QED
  BY <1>2, <1>4, <1>5, <1>6 DEF IInv

LEMMA ForgetsKeeps ==
    ASSUME IInv, Forgets
    PROVE  IInv'
<1>1. UNCHANGED <<conversation, asked, history, kept, log, busy, runs, visitor, stored, served, loads, typed, submits,
                  owed, gone>>
      /\ known' = {} /\ trusts' = FALSE /\ forgets < MaxForgets /\ forgets' = forgets + 1
  BY DEF Forgets, page, observed
<1>2. TypeOK'
  <2>1. forgets' \in 0..MaxForgets
    BY <1>1 DEF IInv, TypeOK
  <2> QED
    BY <1>1, <2>1 DEF IInv, TypeOK, PageOK, Items, Turns, Conversations, Questions, Runs
<1>3. \A q, c : Asked(q, c)' <=> Asked(q, c)
  BY <1>1, AskedStays
<1>4. OneRun' /\ Owes' /\ ItemsOfRuns'
  BY <1>1 DEF IInv, OneRun, OneAnswerAtATime, Owes, ItemsOfRuns
<1>5. RunsBelong' /\ KeptBelong' /\ ThumbsBelong'
  BY <1>1, <1>3 DEF IInv, RunsBelong, KeptBelong, ThumbsBelong
<1>6. NothingComesBack'
  BY <1>1 DEF IInv, NothingComesBack
<1> QED
  BY <1>2, <1>4, <1>5, <1>6 DEF IInv

(***************************************************************************)
(* The service accepts a question.                                         *)
(***************************************************************************)
TakenIn(m, c, turns, q) == served' = [i \in 1..m |-> IF i = c THEN Append(turns, q) ELSE served[i]]

LEMMA ServedGrows ==
    ASSUME served \in Seq(Seq(Questions)), NEW m \in Nat, NEW c \in 1..m, NEW turns \in Seq(Questions), NEW q \in Questions,
           m >= Len(served), \A i \in 1..m : i # c => i \in 1..Len(served),
           c \in 1..Len(served) => turns = served[c],
           TakenIn(m, c, turns, q)
    PROVE  /\ served' \in Seq(Seq(Questions)) /\ Len(served') = m
           /\ \A p, d : Asked(p, d) => Asked(p, d)'
           /\ Asked(q, c)'
<1>1. /\ Append(turns, q) \in Seq(Questions) /\ Len(turns) \in Nat /\ Len(Append(turns, q)) = Len(turns) + 1
      /\ \A n \in 1..Len(turns) : n \in 1..(Len(turns) + 1) /\ Append(turns, q)[n] = turns[n]
      /\ Append(turns, q)[Len(turns) + 1] = q
  OBVIOUS
<1>2. \A i \in 1..m : served'[i] \in Seq(Questions)
  BY <1>1 DEF TakenIn
<1>3. served' \in Seq(Seq(Questions)) /\ Len(served') = m
  BY <1>2 DEF TakenIn
<1>4. served'[c] = Append(turns, q)
  BY DEF TakenIn
<1>5. ASSUME NEW p, NEW d, Asked(p, d)
      PROVE  Asked(p, d)'
  <2>1. d \in 1..Len(served) /\ d \in 1..m
    BY <1>5 DEF Asked
  <2>2. PICK n \in 1..Len(served[d]) : served[d][n] = p
    BY <1>5 DEF Asked
  <2>3. CASE d = c
    <3>1. n \in 1..Len(turns) /\ turns[n] = p
      BY <2>1, <2>2, <2>3
    <3>2. n \in 1..Len(served'[d]) /\ served'[d][n] = p
      BY <1>1, <1>4, <2>3, <3>1
    <3> QED
      BY <1>3, <2>1, <3>2 DEF Asked
  <2>4. CASE d # c
    <3>1. served'[d] = served[d]
      BY <2>1, <2>4 DEF TakenIn
    <3> QED
      BY <1>3, <2>1, <2>2, <3>1 DEF Asked
  <2> QED
    BY <2>3, <2>4
<1>6. Asked(q, c)'
  <2>1. Len(turns) + 1 \in 1..Len(served'[c]) /\ served'[c][Len(turns) + 1] = q
    BY <1>1, <1>4
  <2> QED
    BY <1>3, <2>1 DEF Asked
<1> QED
  BY <1>3, <1>5, <1>6

LEMMA AcceptedBy ==
    ASSUME TypeOK, NEW r \in runs, Accepts(r)
    PROVE  \E c \in 1..Len(served'), n \in Nat :
             /\ Len(served') >= Len(served)
             /\ served' \in Seq(Seq(Questions))
             /\ known' \subseteq 1..Len(served')
             /\ \A p, d : Asked(p, d) => Asked(p, d)'
             /\ Asked(r.q, c)'
             /\ Moves(r, [r EXCEPT !.at = "open", !.in = c, !.n = n])
             /\ owed' = [owed EXCEPT ![r.q] = @ - 1]
<1>0. served \in Seq(Seq(Questions)) /\ known \subseteq 1..Len(served) /\ r \in Runs
  BY DEF TypeOK, PageOK
<1>1. served \in Seq(Seq(Questions)) /\ known \subseteq 1..Len(served) /\ r.q \in Questions /\ Len(served) \in Nat
  BY <1>0 DEF Runs
<1>2. \E c \in 1..(Len(served) + 1) : c = IF r.asks \in known THEN r.asks ELSE Len(served) + 1
  <2>1. CASE r.asks \in known
    <3>1. r.asks \in 1..(Len(served) + 1)
      <4>1. r.asks \in 1..Len(served)
        BY <1>1, <2>1, Zenon
      <4>2. \A a \in 1..Len(served) : a \in 1..(Len(served) + 1)
        BY <1>1
      <4> QED
        BY <4>1, <4>2, Zenon
    <3> QED
      BY <2>1, <3>1
  <2>2. CASE r.asks \notin known
    <3>1. Len(served) + 1 \in 1..(Len(served) + 1)
      BY <1>1
    <3> QED
      BY <2>2, <3>1
  <2> QED
    BY <2>1, <2>2
<1>3. PICK c \in 1..(Len(served) + 1) : c = IF r.asks \in known THEN r.asks ELSE Len(served) + 1
  BY <1>2
<1>4. \E m \in Nat : m = IF c > Len(served) THEN c ELSE Len(served)
  BY <1>1
<1>5. PICK m \in Nat : m = IF c > Len(served) THEN c ELSE Len(served)
  BY <1>4
<1>6. \E turns \in Seq(Questions) : turns = IF c > Len(served) THEN <<>> ELSE served[c]
  <2>1. CASE c > Len(served)
    <3>1. <<>> \in Seq(Questions)
      OBVIOUS
    <3> QED
      BY <2>1, <3>1
  <2>2. CASE ~(c > Len(served))
    <3>1. served[c] \in Seq(Questions)
      BY <1>1, <2>2
    <3> QED
      BY <2>2, <3>1
  <2> QED
    BY <2>1, <2>2
<1>7. PICK turns \in Seq(Questions) : turns = IF c > Len(served) THEN <<>> ELSE served[c]
  BY <1>6
<1>8. /\ TakenIn(m, c, turns, r.q)
      /\ known' = known \cup {c}
      /\ owed' = [owed EXCEPT ![r.q] = @ - 1]
      /\ Moves(r, [r EXCEPT !.at = "open", !.in = c, !.n = Len(turns) + 1])
  BY <1>3, <1>5, <1>7 DEF Accepts, TakenIn
<1>9. /\ c \in 1..m /\ m >= Len(served) /\ (\A i \in 1..m : i # c => i \in 1..Len(served))
      /\ c \in 1..Len(served) => turns = served[c]
  BY <1>1, <1>5, <1>7
<1>10. /\ served' \in Seq(Seq(Questions)) /\ Len(served') = m
       /\ \A p, d : Asked(p, d) => Asked(p, d)'
       /\ Asked(r.q, c)'
  BY <1>1, <1>8, <1>9, ServedGrows
<1>11. known' \subseteq 1..Len(served') /\ c \in 1..Len(served') /\ Len(served') >= Len(served)
  BY <1>1, <1>8, <1>9, <1>10
<1>12. Len(turns) + 1 \in Nat
  OBVIOUS
<1> QED
  BY <1>8, <1>10, <1>11, <1>12

LEMMA AcceptsKeeps ==
    ASSUME IInv, NEW r \in runs, r.at \in {"post", "repost"}, Accepts(r),
           UNCHANGED <<conversation, asked, history, kept, log, busy, visitor, stored, trusts, counters, gone>>
    PROVE  IInv'
<1>1. PICK c \in 1..Len(served'), n \in Nat :
        /\ Len(served') >= Len(served)
        /\ served' \in Seq(Seq(Questions))
        /\ known' \subseteq 1..Len(served')
        /\ \A p, d : Asked(p, d) => Asked(p, d)'
        /\ Asked(r.q, c)'
        /\ Moves(r, [r EXCEPT !.at = "open", !.in = c, !.n = n])
        /\ owed' = [owed EXCEPT ![r.q] = @ - 1]
  BY AcceptedBy DEF IInv
<1> DEFINE s == [r EXCEPT !.at = "open", !.in = c, !.n = n]
<1>2. r \in Runs /\ runs \subseteq Runs /\ TypeOK /\ OneRun /\ Owes /\ owed \in [1..MaxTyped -> Nat] /\ typed \in 0..MaxTyped
  BY DEF IInv, TypeOK, PageOK
<1> c \in Nat
  BY <1>1
<1>3. ~r.aborted /\ busy = r.id /\ \A t \in runs : ~t.aborted => t = r
  BY <1>2, NotStopped DEF Waiting
<1>4. /\ s \in Runs /\ s.id = r.id /\ s.q = r.q /\ s.in = c /\ s.at = "open" /\ s.aborted = r.aborted
      /\ s.resumable = r.resumable /\ s.resumes = r.resumes
  BY <1>2 DEF Runs, Reading
<1>5. Moves(r, s)
  BY <1>1
<1> HIDE DEF s
<1>6. runs' = (runs \ {r}) \cup {s}
  BY <1>5 DEF Moves
<1>7. UNCHANGED <<submits, typed, loads, forgets>>
  BY DEF counters
<1>8. OneRun'
  BY <1>2, <1>3, <1>4, <1>5, <1>7, MovesOneRun
<1>9. Items' = Items /\ Turns' = Turns /\ Questions' = Questions /\ Runs' = Runs
  BY <1>7 DEF Items, Turns, Questions, Runs
<1>10. Conversations \subseteq Conversations' /\ 0..Len(served) \subseteq 0..Len(served')
  <2>1. 0..Len(served) \subseteq 0..Len(served')
    BY <1>1
  <2> QED
    BY <1>9, <2>1 DEF Conversations
<1>11. owed' \in [1..MaxTyped -> Nat]
  <2>1. r.q \in 1..MaxTyped
    BY <1>2 DEF Runs, Questions
  <2>2. owed[r.q] > 0
    BY <1>2, <1>3 DEF Owes
  <2>3. owed[r.q] - 1 \in Nat
    BY <1>2, <2>1, <2>2
  <2> QED
    BY <1>1, <1>2, <2>1, <2>3
<1>12. PageOK'
  <2>1. runs' \subseteq Runs
    BY <1>2, <1>4, <1>6
  <2> QED
    BY <1>2, <1>7, <1>9, <1>10, <2>1 DEF TypeOK, PageOK
<1>13. TypeOK'
  BY <1>1, <1>2, <1>7, <1>9, <1>10, <1>11, <1>12 DEF TypeOK
<1>14. Owes'
  <2>1. \A t \in runs : t # r => t.aborted /\ t.at \notin {"post", "repost"}
    BY <1>3 DEF IInv, OneRun, Waiting
  <2>2. s.at \notin Waiting \cup {"post", "repost"}
    BY <1>4 DEF Waiting
  <2> QED
    BY <1>6, <2>1, <2>2 DEF Owes
<1>15. ItemsOfRuns'
  BY <1>4, <1>6, <1>7 DEF IInv, ItemsOfRuns
<1>16. RunsBelong'
  <2>1. \A t \in runs : /\ busy' = t.id => t.q \notin gone'
                        /\ (t.resumable \/ t.resumes \/ t.at \in Reading \cup {"resume"}) => Asked(t.q, t.in)'
                        /\ t.at \in Reading \ {"open"} => conversation' = t.in
    BY <1>1 DEF IInv, RunsBelong
  <2>2. /\ busy' = s.id => s.q \notin gone'
        /\ Asked(s.q, s.in)'
        /\ s.at \notin Reading \ {"open"}
    BY <1>1, <1>4 DEF IInv, RunsBelong
  <2> QED
    BY <1>6, <2>1, <2>2 DEF RunsBelong
<1>17. KeptBelong' /\ ThumbsBelong'
  BY <1>1 DEF IInv, KeptBelong, ThumbsBelong
<1>18. NothingComesBack'
  BY DEF IInv, NothingComesBack
<1> QED
  BY <1>8, <1>13, <1>14, <1>15, <1>16, <1>17, <1>18 DEF IInv

LEMMA ResponseKeeps ==
    ASSUME IInv, NEW r \in runs, Response(r)
    PROVE  IInv'
<1>1. /\ r.at \in {"post", "repost"}
      /\ UNCHANGED <<conversation, asked, history, kept, stored, trusts, counters, gone>>
  BY DEF Response
<1>2. r \in Runs /\ visitor \in {"none", "earning", "held"} /\ TypeOK
  BY RunTyped DEF IInv
<1>3. CASE Accepts(r) /\ UNCHANGED <<busy, log, visitor>>
  BY <1>1, <1>3, AcceptsKeeps
<1>4. CASE /\ r.at = "post"
           /\ visitor' = "earning"
           /\ Moves(r, [r EXCEPT !.at = "again"])
           /\ UNCHANGED <<busy, log, served, known, owed>>
  <2>1. ~r.aborted /\ ~r.resumes
    BY <1>1, NotStopped DEF IInv, Owes, Waiting
  <2>2. GoesOn(r, [r EXCEPT !.at = "again"])
    BY <1>2, <1>4, <2>1 DEF GoesOn, Runs, Waiting, Reading
  <2>3. log' \in Seq(Items) /\ Relabels(log')
    BY <1>2, <1>4, SameLog
  <2> QED
    BY <1>1, <1>2, <1>4, <2>2, <2>3, MovesQuietly DEF counters, service, observed
<1>5. ASSUME NEW word \in Words, Fails(r, word), UNCHANGED <<visitor, served, known, owed>>
      PROVE  IInv'
  BY <1>1, <1>2, <1>5, FailsQuietly DEF counters, service, observed
<1> QED
  BY <1>3, <1>4, <1>5 DEF Response, Words

(***************************************************************************)
(* The events of an answer.                                                *)
(***************************************************************************)
LEMMA OpenedKeeps ==
    ASSUME IInv, NEW r \in runs, Opened(r)
    PROVE  IInv'
<1>0. PICK s : s = [r EXCEPT !.at = "text", !.turn = asked', !.resumable = TRUE]
  OBVIOUS
<1>1. /\ r.at = "open"
      /\ asked' = (IF r.in # conversation THEN 0 ELSE asked) + 1
      /\ conversation' = r.in
      /\ Moves(r, s)
      /\ UNCHANGED <<history, kept, log, busy, visitor, stored, served, known, trusts, loads, forgets, submits, typed, owed, gone>>
  BY <1>0 DEF Opened, service, counters, observed
<1>2. r \in Runs /\ runs \subseteq Runs /\ TypeOK /\ OneRun /\ asked \in Nat
  BY DEF IInv, TypeOK, PageOK
<1>3. ~r.aborted /\ busy = r.id /\ \A t \in runs : ~t.aborted => t = r
  BY <1>1, <1>2, NotStopped DEF Waiting
<1>4. asked' \in Nat
  BY <1>1, <1>2
<1>5. /\ s \in Runs /\ s.id = r.id /\ s.q = r.q /\ s.in = r.in /\ s.at = "text" /\ s.aborted = r.aborted
  BY <1>0, <1>2, <1>4 DEF Runs, Reading
<1>6. Asked(r.q, r.in)
  BY <1>1 DEF IInv, RunsBelong, Reading
<1>7. runs' = (runs \ {r}) \cup {s}
  BY <1>1 DEF Moves
<1>8. OneRun'
  BY <1>1, <1>2, <1>3, <1>5, MovesOneRun
<1>9. Items' = Items /\ Turns' = Turns /\ Questions' = Questions /\ Runs' = Runs /\ Conversations' = Conversations
  BY <1>1 DEF Items, Turns, Questions, Runs, Conversations
<1>10. PageOK'
  <2>1. conversation' \in 0..Len(served')
    BY <1>1, <1>6 DEF Asked
  <2>2. runs' \subseteq Runs'
    BY <1>2, <1>5, <1>7, <1>9
  <2> QED
    BY <1>1, <1>2, <1>4, <1>9, <2>1, <2>2 DEF TypeOK, PageOK
<1>11. TypeOK'
  BY <1>1, <1>2, <1>9, <1>10 DEF TypeOK
<1>12. \A q, c : Asked(q, c)' <=> Asked(q, c)
  BY <1>1, AskedStays
<1>13. Owes'
  <2>1. s.at \notin Waiting \cup {"post", "repost"}
    BY <1>5 DEF Waiting
  <2> QED
    BY <1>1, <1>7, <2>1 DEF IInv, Owes
<1>14. ItemsOfRuns'
  BY <1>1, <1>5, <1>7 DEF IInv, ItemsOfRuns
<1>15. RunsBelong'
  <2>1. \A t \in runs : t # r => t.at \notin Reading
    BY <1>3 DEF IInv, OneRun, Waiting, Reading
  <2>2. \A t \in runs : t # r =>
          /\ busy' = t.id => t.q \notin gone'
          /\ (t.resumable \/ t.resumes \/ t.at \in Reading \cup {"resume"}) => Asked(t.q, t.in)'
          /\ t.at \in Reading \ {"open"} => conversation' = t.in
    BY <1>1, <1>12, <2>1 DEF IInv, RunsBelong
  <2>3. /\ busy' = s.id => s.q \notin gone'
        /\ Asked(s.q, s.in)'
        /\ conversation' = s.in
    BY <1>1, <1>5, <1>6, <1>12 DEF IInv, RunsBelong
  <2> QED
    BY <1>7, <2>2, <2>3 DEF RunsBelong
<1>16. KeptBelong' /\ ThumbsBelong'
  BY <1>1, <1>12 DEF IInv, KeptBelong, ThumbsBelong
<1>17. NothingComesBack'
  BY <1>1 DEF IInv, NothingComesBack
<1> QED
  BY <1>8, <1>11, <1>13, <1>14, <1>15, <1>16, <1>17 DEF IInv

LEMMA StreamsKeeps ==
    ASSUME IInv, NEW r \in runs, Streams(r)
    PROVE  IInv'
<1>1. /\ r.at = "text"
      /\ UNCHANGED <<conversation, asked, kept, log, busy, visitor, stored, served, known, trusts, loads, forgets, submits, typed,
                     owed, gone>>
  BY DEF Streams, service, counters, observed
<1>2. r \in Runs /\ TypeOK /\ history \in Seq({"user", "assistant"} \X Questions)
      /\ visitor \in {"none", "earning", "held"}
  BY DEF IInv, TypeOK, PageOK
<1>3. ~r.aborted /\ busy = r.id
  BY <1>1, NotStopped DEF IInv, Waiting
<1>4. CASE Moves(r, [r EXCEPT !.text = TRUE]) /\ UNCHANGED history
  <2>1. GoesOn(r, [r EXCEPT !.text = TRUE])
    BY <1>1, <1>2, <1>3 DEF GoesOn, Runs, Waiting, Reading
  <2>2. log' \in Seq(Items) /\ Relabels(log')
    BY <1>1, <1>2, SameLog
  <2> QED
    BY <1>1, <1>2, <1>4, <2>1, <2>2, MovesQuietly DEF service, observed
<1>5. CASE Moves(r, [r EXCEPT !.at = "answer"]) /\ history' = Append(history, Bot(r.q))
  <2>1. GoesOn(r, [r EXCEPT !.at = "answer"])
    BY <1>1, <1>2, <1>3 DEF GoesOn, Runs, Waiting, Reading
  <2>2. RunsOK' /\ OneRun' /\ Owes' /\ RunsBelong'
    BY <1>1, <1>5, <2>1, MovesKeep DEF IInv
  <2>3. ComeFrom
    BY <1>1, <1>5, <2>1, MovesComeFrom
  <2>4. Items' = Items /\ Turns' = Turns /\ Questions' = Questions /\ Runs' = Runs /\ Conversations' = Conversations
    BY <1>1 DEF Items, Turns, Questions, Runs, Conversations
  <2>5. Bot(r.q) \in {"user", "assistant"} \X Questions /\ Bot(r.q)[2] = r.q /\ r.q \notin gone
    BY <1>2, <1>3 DEF IInv, Bot, Runs, RunsBelong
  <2>6. history' \in Seq({"user", "assistant"} \X Questions)
    BY <1>2, <1>5, <2>5
  <2>7. \A i \in DOMAIN history' : history'[i][2] \notin gone
    <3>1. \A i \in DOMAIN history' : (i \in DOMAIN history /\ history'[i] = history[i]) \/ history'[i] = Bot(r.q)
      BY <1>2, <1>5, <2>5
    <3> QED
      BY <2>5, <3>1 DEF IInv, NothingComesBack
  <2>8. PageOK'
    BY <1>1, <1>2, <2>2, <2>4, <2>6 DEF TypeOK, PageOK, RunsOK
  <2>9. TypeOK'
    BY <1>1, <1>2, <2>4, <2>8 DEF TypeOK
  <2>10. \A q, c : Asked(q, c)' <=> Asked(q, c)
    BY <1>1, AskedStays
  <2>11. ItemsOfRuns'
    BY <1>1, <2>3 DEF IInv, ItemsOfRuns, ComeFrom
  <2>12. KeptBelong' /\ ThumbsBelong'
    BY <1>1, <2>10 DEF IInv, KeptBelong, ThumbsBelong
  <2>13. NothingComesBack'
    BY <1>1, <2>7 DEF IInv, NothingComesBack
  <2> QED
    BY <2>2, <2>9, <2>11, <2>12, <2>13 DEF IInv
<1> QED
  BY <1>4, <1>5 DEF Streams

(***************************************************************************)
(* What is kept of an answer that is shown.                                *)
(***************************************************************************)
LEMMA RememberIs ==
    ASSUME NEW k \in Conversations, NEW c, NEW number, NEW entry \in Turns
    PROVE  \E some \in Seq(Turns) :
             /\ Remember(k, c, number, entry) = [conversation |-> c, asked |-> number, turns |-> some]
             /\ Len(some) <= MaxKept
             /\ \A i \in 1..Len(some) :
                  some[i] = entry \/ (k.conversation = c /\ \E j \in 1..Len(k.turns) : some[i] = k.turns[j])
<1>0. k.turns \in Seq(Turns) /\ <<>> \in Seq(Turns)
  BY DEF Conversations
<1> PICK turns \in Seq(Turns) : turns = IF k.conversation = c THEN k.turns ELSE <<>>
  BY <1>0
<1> DEFINE all == Append(turns, entry)
<1>1. /\ all \in Seq(Turns) /\ Len(turns) \in Nat /\ Len(all) = Len(turns) + 1
      /\ \A j \in 1..Len(all) : all[j] = entry \/ \E m \in 1..Len(turns) : all[j] = turns[m]
  <2>1. all \in Seq(Turns) /\ Len(turns) \in Nat /\ Len(all) = Len(turns) + 1
    OBVIOUS
  <2>2. \A j \in 1..Len(turns) : all[j] = turns[j]
    OBVIOUS
  <2>3. all[Len(turns) + 1] = entry
    OBVIOUS
  <2> QED
    BY <2>1, <2>2, <2>3
<1> HIDE DEF all
<1>2. PICK n \in Nat : n = Len(all)
  BY <1>1
<1>3. PICK from \in Nat : from = IF n > MaxKept THEN n - MaxKept + 1 ELSE 1
  <2>1. n > MaxKept => n - MaxKept + 1 \in Nat
    BY <1>2
  <2> QED
    BY <2>1
<1>4. from \in 1..n /\ n - from + 1 <= MaxKept
  BY <1>1, <1>2, <1>3
<1>5. PICK some : some = SubSeq(all, from, n)
  OBVIOUS
<1>6. /\ some \in Seq(Turns) /\ Len(some) = n - from + 1
      /\ \A i \in 1..Len(some) : some[i] = all[from + i - 1]
  BY <1>1, <1>2, <1>4, <1>5, SMTT(30)
<1>7. \A i \in 1..Len(some) : some[i] = entry \/ \E j \in 1..Len(turns) : some[i] = turns[j]
  <2>1. ASSUME NEW i \in 1..Len(some)
        PROVE  from + i - 1 \in 1..Len(all)
    BY <1>2, <1>4, <1>6
  <2>2. ASSUME NEW i \in 1..Len(some)
        PROVE  some[i] = entry \/ \E j \in 1..Len(turns) : some[i] = turns[j]
    <3>1. some[i] = all[from + i - 1]
      BY <1>6
    <3>2. all[from + i - 1] = entry \/ \E j \in 1..Len(turns) : all[from + i - 1] = turns[j]
      BY <1>1, <2>1
    <3> QED
      BY <3>1, <3>2
  <2> QED
    BY <2>2
<1>8. Len(some) <= MaxKept
  BY <1>4, <1>6
<1>9. Remember(k, c, number, entry) = [conversation |-> c, asked |-> number, turns |-> some]
  BY <1>2, <1>3, <1>5 DEF Remember, all
<1>10. \A i \in 1..Len(some) :
         some[i] = entry \/ (k.conversation = c /\ \E j \in 1..Len(k.turns) : some[i] = k.turns[j])
  <2>1. CASE k.conversation = c
    <3>1. turns = k.turns
      BY <2>1
    <3> QED
      BY <1>7, <2>1, <3>1
  <2>2. CASE k.conversation # c
    <3>1. Len(turns) = 0
      BY <2>2
    <3>2. \A j \in 1..Len(turns) : FALSE
      BY <3>1
    <3> QED
      BY <1>7, <3>2
  <2> QED
    BY <2>1, <2>2
<1> QED
  BY <1>6, <1>8, <1>9, <1>10

LEMMA SaveKeeps ==
    ASSUME IInv, NEW r \in runs, r.at = "answer", Save(r), UNCHANGED <<conversation, asked, served, typed, gone>>
    PROVE  /\ kept' \in Conversations /\ Len(kept'.turns) <= MaxKept /\ stored' = kept'
           /\ KeptBelong'
           /\ \A i \in DOMAIN stored'.turns : stored'.turns[i].q \notin gone'
<1>1. /\ TypeOK /\ r \in Runs /\ conversation \in 0..Len(served) /\ asked \in Nat
      /\ kept \in Conversations /\ Len(kept.turns) <= MaxKept /\ kept = stored
  BY DEF IInv, TypeOK, PageOK, KeptBelong
<1>2. stored' = kept'
  BY DEF Save
<1>3. r.q \notin gone /\ Asked(r.q, conversation)
  <2>1. busy = r.id
    BY NotStopped DEF IInv, Waiting
  <2> QED
    BY <2>1 DEF IInv, RunsBelong, Reading
<1>4. \A q, c : Asked(q, c)' <=> Asked(q, c)
  BY AskedStays
<1>5. CASE conversation = 0 \/ r.turn = 0
  <2>1. kept' = kept
    BY <1>5 DEF Save
  <2> QED
    BY <1>1, <1>2, <1>4, <2>1 DEF IInv, KeptBelong, NothingComesBack
<1>6. CASE conversation # 0 /\ r.turn # 0
  <2> DEFINE entry == [q |-> r.q, turn |-> r.turn, more |-> FALSE]
  <2>1. entry \in Turns /\ entry.q = r.q
    BY <1>1 DEF Turns, Runs
  <2>2. kept' = Remember(kept, conversation, asked, entry)
    BY <1>6 DEF Save
  <2> HIDE DEF entry
  <2>3. PICK some \in Seq(Turns) :
             /\ kept' = [conversation |-> conversation, asked |-> asked, turns |-> some]
             /\ Len(some) <= MaxKept
             /\ \A i \in 1..Len(some) :
                  some[i] = entry \/ (kept.conversation = conversation /\ \E j \in 1..Len(kept.turns) : some[i] = kept.turns[j])
    BY <1>1, <2>1, <2>2, RememberIs
  <2>4. kept' \in Conversations /\ Len(kept'.turns) <= MaxKept /\ kept'.turns = some /\ kept'.conversation = conversation
    BY <1>1, <2>3 DEF Conversations
  <2>5. kept.turns \in Seq(Turns)
    BY <1>1 DEF Conversations
  <2>6. \A j \in 1..Len(kept.turns) : Asked(kept.turns[j].q, kept.conversation) /\ kept.turns[j].q \notin gone
    BY <1>1, <2>5 DEF IInv, KeptBelong, NothingComesBack
  <2>7. \A i \in 1..Len(some) : Asked(some[i].q, conversation) /\ some[i].q \notin gone
    BY <1>3, <2>1, <2>3, <2>6
  <2>8. KeptBelong'
    BY <1>2, <1>4, <2>4, <2>7 DEF KeptBelong
  <2>9. \A i \in DOMAIN stored'.turns : stored'.turns[i].q \notin gone'
    BY <1>2, <2>4, <2>7
  <2> QED
    BY <1>2, <2>4, <2>8, <2>9
<1> QED
  BY <1>5, <1>6

(***************************************************************************)
(* A step that changes what is shown and kept, and moves or settles a run. *)
(***************************************************************************)
LEMMA KeepingStep ==
    ASSUME IInv, log' \in Seq(Items), ItemsOfRuns', ThumbsBelong', \A i \in DOMAIN log' : log'[i].q \notin gone',
           RunsOK', OneRun', Owes', RunsBelong',
           kept' \in Conversations, Len(kept'.turns) <= MaxKept, stored' = kept', KeptBelong',
           \A i \in DOMAIN stored'.turns : stored'.turns[i].q \notin gone',
           UNCHANGED <<conversation, asked, history, visitor, service, loads, forgets, typed, submits, observed>>
    PROVE  IInv'
<1>1. TypeOK
  BY DEF IInv
<1>2. Items' = Items /\ Turns' = Turns /\ Conversations' = Conversations /\ Questions' = Questions /\ Runs' = Runs
  BY DEF Items, Turns, Conversations, Questions, Runs, service
<1>3. PageOK'
  BY <1>1, <1>2 DEF TypeOK, PageOK, RunsOK, service
<1>4. TypeOK'
  BY <1>1, <1>2, <1>3 DEF TypeOK, service, observed
<1>5. NothingComesBack'
  BY DEF IInv, NothingComesBack, observed
<1> QED
  BY <1>4, <1>5 DEF IInv

LEMMA CitedKeeps ==
    ASSUME IInv, NEW r \in runs, Cited(r)
    PROVE  IInv'
<1>1. /\ r.at = "answer" /\ Shows(r) /\ Save(r)
      /\ Moves(r, [r EXCEPT !.at = "cited", !.text = FALSE])
      /\ UNCHANGED <<conversation, asked, history, busy, visitor, service, loads, forgets, typed, submits, observed>>
  BY DEF Cited, Shows, counters
<1>2. r \in Runs
  BY RunTyped DEF IInv
<1>3. ~r.aborted
  BY <1>1, NotStopped DEF IInv, Waiting
<1>4. GoesOn(r, [r EXCEPT !.at = "cited", !.text = FALSE])
  BY <1>1, <1>2, <1>3 DEF GoesOn, Runs, Waiting, Reading
<1>5. RunsOK' /\ OneRun' /\ Owes' /\ RunsBelong'
  BY <1>1, <1>4, MovesKeep DEF IInv, service, observed
<1>6. ComeFrom
  BY <1>1, <1>4, MovesComeFrom
<1>7. /\ log' \in Seq(Items) /\ ItemsOfRuns' /\ ThumbsBelong'
      /\ \A i \in DOMAIN log' : log'[i].q \notin gone'
  BY <1>1, <1>6, ShownStep DEF service, observed
<1>8. /\ kept' \in Conversations /\ Len(kept'.turns) <= MaxKept /\ stored' = kept' /\ KeptBelong'
      /\ \A i \in DOMAIN stored'.turns : stored'.turns[i].q \notin gone'
  BY <1>1, SaveKeeps DEF service, observed
<1> QED
  BY <1>1, <1>5, <1>7, <1>8, KeepingStep

LEMMA EndsKeeps ==
    ASSUME IInv, NEW r \in runs, Ends(r)
    PROVE  IInv'
<1>1. /\ Settles(r)
      /\ UNCHANGED <<conversation, asked, history, visitor, service, loads, forgets, typed, submits, observed>>
  BY DEF Ends, counters
<1>2. visitor \in {"none", "earning", "held"} /\ TypeOK
  BY RunTyped DEF IInv
<1>3. RunsOK' /\ OneRun' /\ Owes' /\ RunsBelong'
  BY <1>1, SettlesKeep DEF IInv, service, observed
<1>4. ComeFrom
  BY <1>1, SettlesComeFrom
<1>5. ASSUME r.at \in {"answer", "text"}, Shows(r)
      PROVE  /\ log' \in Seq(Items) /\ ItemsOfRuns' /\ ThumbsBelong'
             /\ \A i \in DOMAIN log' : log'[i].q \notin gone'
  BY <1>1, <1>4, <1>5, ShownStep DEF service, observed
<1>6. CASE r.at = "answer" /\ Shows(r) /\ Save(r)
  <2>1. /\ kept' \in Conversations /\ Len(kept'.turns) <= MaxKept /\ stored' = kept' /\ KeptBelong'
        /\ \A i \in DOMAIN stored'.turns : stored'.turns[i].q \notin gone'
    BY <1>1, <1>6, SaveKeeps DEF service, observed
  <2> QED
    BY <1>1, <1>3, <1>5, <1>6, <2>1, KeepingStep
<1>7. CASE r.at = "text" /\ Shows(r) /\ UNCHANGED <<kept, stored>>
  <2>1. kept \in Conversations /\ Len(kept.turns) <= MaxKept /\ kept = stored
    BY DEF IInv, TypeOK, PageOK, KeptBelong
  <2>2. \A q, c : Asked(q, c)' <=> Asked(q, c)
    BY <1>1, AskedStays DEF service
  <2>3. KeptBelong'
    BY <1>7, <2>2 DEF IInv, KeptBelong
  <2>4. \A i \in DOMAIN stored'.turns : stored'.turns[i].q \notin gone'
    BY <1>1, <1>7 DEF IInv, NothingComesBack, observed
  <2> QED
    BY <1>1, <1>3, <1>5, <1>7, <2>1, <2>3, <2>4, KeepingStep
<1>8. CASE UNCHANGED <<log, kept, stored>>
  <2>1. log' \in Seq(Items) /\ Relabels(log')
    BY <1>2, <1>8, SameLog
  <2> QED
    BY <1>1, <1>2, <1>8, <2>1, SettlesQuietly
<1> QED
  BY <1>6, <1>7, <1>8 DEF Ends, Shows

LEMMA FollowUpsKeeps ==
    ASSUME IInv, NEW r \in runs, FollowUps(r)
    PROVE  IInv'
<1> DEFINE n == Len(kept.turns)
<1>1. /\ n > 0 /\ kept' = [kept EXCEPT !.turns[n].more = TRUE] /\ stored' = kept'
      /\ UNCHANGED <<conversation, asked, history, log, busy, runs, visitor, service, loads, forgets, typed, submits, observed>>
  BY DEF FollowUps, counters
<1>2. kept \in Conversations /\ n <= MaxKept /\ kept = stored /\ log \in Seq(Items) /\ runs \subseteq Runs /\ busy \in 0..submits
  BY DEF IInv, TypeOK, PageOK, KeptBelong
<1>3. kept.turns \in Seq(Turns) /\ n \in 1..n
  BY <1>1, <1>2 DEF Conversations
<1>4. [kept.turns[n] EXCEPT !.more = TRUE] \in Turns /\ [kept.turns[n] EXCEPT !.more = TRUE].q = kept.turns[n].q
  <2>1. kept.turns[n] \in Turns
    BY <1>3
  <2> QED
    BY <2>1 DEF Turns
<1>5. PICK entry \in Turns : entry = [kept.turns[n] EXCEPT !.more = TRUE]
  BY <1>4
<1>6. kept' = [kept EXCEPT !.turns = [kept.turns EXCEPT ![n] = entry]]
  BY <1>1, <1>5
<1>7. PICK turns : turns = [kept.turns EXCEPT ![n] = entry]
  OBVIOUS
<1>8. turns \in Seq(Turns) /\ Len(turns) = n /\ \A i \in 1..n : turns[i].q = kept.turns[i].q
  BY <1>3, <1>4, <1>5, <1>7
<1>9. kept' \in Conversations /\ kept'.turns = turns /\ kept'.conversation = kept.conversation
  BY <1>2, <1>6, <1>7, <1>8 DEF Conversations
<1>10. \A q, c : Asked(q, c)' <=> Asked(q, c)
  BY <1>1, AskedStays DEF service
<1>11. KeptBelong'
  BY <1>1, <1>2, <1>8, <1>9, <1>10 DEF IInv, KeptBelong
<1>12. \A i \in DOMAIN stored'.turns : stored'.turns[i].q \notin gone'
  BY <1>1, <1>2, <1>3, <1>8, <1>9 DEF IInv, NothingComesBack, observed
<1>13. RunsOK' /\ OneRun' /\ Owes' /\ ItemsOfRuns'
  <2>1. Runs' = Runs
    BY <1>1 DEF Runs, Questions
  <2> QED
    BY <1>1, <1>2, <2>1 DEF IInv, RunsOK, OneRun, OneAnswerAtATime, Owes, ItemsOfRuns, observed
<1>14. RunsBelong' /\ ThumbsBelong'
  BY <1>1, <1>10 DEF IInv, RunsBelong, ThumbsBelong, observed
<1>15. \A i \in DOMAIN log' : log'[i].q \notin gone'
  BY <1>1 DEF IInv, NothingComesBack, observed
<1> QED
  BY <1>1, <1>2, <1>8, <1>9, <1>11, <1>12, <1>13, <1>14, <1>15, KeepingStep

(***************************************************************************)
(* Something is submitted, while nothing is busy.                          *)
(***************************************************************************)
Said == {"user", "assistant"} \X Questions

LEMMA TypesGrow ==
    ASSUME typed \in Nat, typed' \in Nat, typed' >= typed, served' = served
    PROVE  /\ Questions \subseteq Questions' /\ Items \subseteq Items' /\ Runs \subseteq Runs' /\ Said \subseteq Said'
           /\ Turns \subseteq Turns' /\ Conversations \subseteq Conversations'
           /\ Seq(Seq(Questions)) \subseteq Seq(Seq(Questions))'
<1>1. Questions \subseteq Questions' /\ 0..typed \subseteq 0..typed'
  BY DEF Questions
<1>2. Items \subseteq Items' /\ Turns \subseteq Turns' /\ Said \subseteq Said'
  BY <1>1 DEF Items, Turns, Said
<1>3. Runs \subseteq Runs'
  BY <1>1 DEF Runs
<1>4. Seq(Turns) \subseteq Seq(Turns')
  BY <1>2
<1>5. Conversations \subseteq Conversations'
  BY <1>4 DEF Conversations
<1>6. Seq(Questions) \subseteq Seq(Questions')
  BY <1>1
<1>7. Seq(Seq(Questions)) \subseteq Seq(Seq(Questions'))
  BY <1>6
<1> QED
  BY <1>1, <1>2, <1>3, <1>5, <1>7

LEMMA AllStopped ==
    ASSUME TypeOK, OneRun, busy = 0
    PROVE  \A r \in runs : r.aborted /\ r.at \in Waiting \cup {"none"} /\ r.id # submits + 1 /\ r.id # 0
<1>1. submits \in Nat
  BY DEF TypeOK
<1> QED
  BY <1>1 DEF OneRun, OneAnswerAtATime

\* A log that holds nothing but items of the log shown.
DrawnFrom(l) == \A i \in 1..Len(l) : \E j \in 1..Len(log) : l[i] = log[j]

LEMMA AsksKeep ==
    ASSUME IInv, busy = 0, NEW q \in Questions', NEW l \in Seq(Items), NEW h \in Seq(Said), NEW c \in Nat,
           Asks(q, l, h, c, runs), served' = served, typed' \in typed..MaxTyped,
           DrawnFrom(l), q \notin gone',
           \A i \in 1..Len(l) : l[i].q \notin gone',
           \A i \in 1..Len(h) : h[i][2] \notin gone'
    PROVE  /\ log' \in Seq(Items') /\ history' \in Seq(Said') /\ runs' \subseteq Runs' /\ busy' \in 0..submits'
           /\ submits' \in Nat /\ visitor' \in {"none", "earning", "held"} /\ owed' \in [1..MaxTyped -> Nat]
           /\ OneRun' /\ Owes' /\ ItemsOfRuns' /\ RunsBelong' /\ ThumbsBelong'
           /\ \A i \in DOMAIN log' : log'[i].q \notin gone'
           /\ \A i \in DOMAIN history' : history'[i][2] \notin gone'
<1>1. /\ TypeOK /\ submits \in Nat /\ typed \in 0..MaxTyped /\ log \in Seq(Items) /\ runs \subseteq Runs /\ OneRun
      /\ owed \in [1..MaxTyped -> Nat] /\ visitor \in {"none", "earning", "held"}
  BY DEF IInv, TypeOK, PageOK
<1>2. PICK id \in Nat : id = submits + 1
  BY <1>1
<1>3. PICK item : item = Item(id, q)
  OBVIOUS
<1>4. PICK run : run = Run(id, q, "token", c, 0)
  OBVIOUS
<1>5. /\ submits' = id
      /\ log' = Append(l, item)
      /\ history' = Append(h, User(q))
      /\ busy' = id
      /\ runs' = runs \cup {run}
      /\ visitor' = TokenAsked
      /\ owed' = [owed EXCEPT ![q] = @ + 1]
  BY <1>2, <1>3, <1>4 DEF Asks
<1>6. /\ item.run = id /\ item.q = q /\ item.of = 0
      /\ run.id = id /\ run.q = q /\ run.at = "token" /\ ~run.aborted /\ ~run.resumable /\ ~run.resumes
  BY <1>3, <1>4 DEF Item, Run
<1>7. q \in 1..typed' /\ q \in 1..MaxTyped /\ typed' \in Nat
  BY <1>1 DEF Questions
<1>8. Items \subseteq Items' /\ Runs \subseteq Runs' /\ Said \subseteq Said'
  BY <1>1, TypesGrow
<1>9. item \in Items' /\ run \in Runs' /\ User(q) \in Said'
  <2>1. item \in Items'
    BY <1>3, <1>7 DEF Item, Items, Questions
  <2>2. run \in Runs'
    BY <1>4, <1>7 DEF Run, Runs, Questions, Waiting
  <2>3. User(q) \in Said'
    BY DEF User, Said
  <2> QED
    BY <2>1, <2>2, <2>3
<1>10. log' \in Seq(Items') /\ Len(log') = Len(l) + 1 /\ Len(l) \in Nat
       /\ (\A i \in 1..Len(l) : log'[i] = l[i]) /\ log'[Len(l) + 1] = item
  <2>1. l \in Seq(Items')
    BY <1>8
  <2> QED
    BY <1>5, <1>9, <2>1
<1>11. history' \in Seq(Said') /\ Len(history') = Len(h) + 1 /\ Len(h) \in Nat
       /\ (\A i \in 1..Len(h) : history'[i] = h[i]) /\ history'[Len(h) + 1] = User(q)
  <2>1. h \in Seq(Said')
    BY <1>8
  <2> QED
    BY <1>5, <1>9, <2>1
<1>12. runs' \subseteq Runs' /\ busy' \in 0..submits' /\ submits' \in Nat
  BY <1>1, <1>2, <1>5, <1>8, <1>9
<1>13. visitor' \in {"none", "earning", "held"}
  BY <1>1, <1>5 DEF TokenAsked
<1>14. owed[q] \in Nat /\ owed' \in [1..MaxTyped -> Nat] /\ owed'[q] > 0
  BY <1>1, <1>5, <1>7, SMTT(60)
<1>15. \A r \in runs : r.aborted /\ r.at \in Waiting \cup {"none"} /\ r.id # id /\ r.id # 0
  BY <1>1, <1>2, AllStopped
<1>16. OneRun'
  <2>1. \A r \in runs' : r.id \in 1..submits' /\ (r.aborted => r.at \in Waiting \cup {"none"})
    BY <1>1, <1>2, <1>5, <1>6, <1>15 DEF OneRun
  <2>2. \A r, s \in runs' : r.id = s.id => r = s
    BY <1>1, <1>5, <1>6, <1>15 DEF OneRun
  <2>3. OneAnswerAtATime'
    BY <1>5, <1>6, <1>15 DEF OneAnswerAtATime
  <2> QED
    BY <2>1, <2>2, <2>3 DEF OneRun
<1>17. Owes'
  BY <1>5, <1>6, <1>14, <1>15 DEF Owes, Waiting
<1>18. ItemsOfRuns'
  <2>1. ASSUME NEW i \in 1..Len(l)
        PROVE  l[i].run \in 0..submits /\ \A r \in runs : l[i].run = r.id => l[i].q = r.q
    <3>1. PICK j \in 1..Len(log) : l[i] = log[j]
      BY DEF DrawnFrom
    <3>2. ItemsOfRuns
      BY DEF IInv
    <3>3. log[j].run \in 0..submits /\ \A r \in runs : log[j].run = r.id => log[j].q = r.q
      BY <3>2, Zenon DEF ItemsOfRuns
    <3> QED
      BY <3>1, <3>3, Zenon
  <2>2. \A i \in 1..Len(log') : log'[i].run \in 0..submits' /\ \A r \in runs' : log'[i].run = r.id => log'[i].q = r.q
    <3>1. ASSUME NEW i \in 1..Len(l)
          PROVE  log'[i].run \in 0..submits' /\ \A r \in runs' : log'[i].run = r.id => log'[i].q = r.q
      <4>1. log'[i] = l[i] /\ l[i].run \in 0..submits
        BY <1>10, <2>1
      <4>2. l[i].run \in 0..submits' /\ l[i].run # id
        <5>1. \A n \in 0..submits : n \in 0..id /\ n # id
          BY <1>1, <1>2
        <5> QED
          BY <1>5, <4>1, <5>1
      <4>3. \A r \in runs : log'[i].run = r.id => log'[i].q = r.q
        BY <2>1, <4>1
      <4>4. log'[i].run # run.id
        BY <1>6, <4>1, <4>2
      <4> QED
        BY <1>5, <4>1, <4>2, <4>3, <4>4
    <3>2. item.run \in 0..submits' /\ \A r \in runs' : item.run = r.id => item.q = r.q
      BY <1>2, <1>5, <1>6, <1>15
    <3> QED
      BY <1>10, <3>1, <3>2
  <2> QED
    BY <2>2 DEF ItemsOfRuns
<1>19. \A p, d : Asked(p, d)' <=> Asked(p, d)
  BY AskedStays
<1>20. RunsBelong'
  <2>1. \A r \in runs : /\ busy' = r.id => r.q \notin gone'
                        /\ (r.resumable \/ r.resumes \/ r.at \in Reading \cup {"resume"}) => Asked(r.q, r.in)'
                        /\ r.at \notin Reading
    BY <1>5, <1>15, <1>19 DEF IInv, RunsBelong, Reading, Waiting
  <2>2. run.q \notin gone' /\ run.at \notin Reading \cup {"resume"}
    BY <1>6 DEF Reading
  <2> QED
    BY <1>5, <1>6, <2>1, <2>2 DEF RunsBelong
<1>21. ThumbsBelong'
  <2>1. ASSUME NEW i \in 1..Len(l), l[i].of # 0
        PROVE  Asked(l[i].q, l[i].of)
    <3>1. PICK j \in 1..Len(log) : l[i] = log[j]
      BY DEF DrawnFrom
    <3>2. ThumbsBelong
      BY DEF IInv
    <3>3. log[j].of # 0 => Asked(log[j].q, log[j].of)
      BY <3>2, Zenon DEF ThumbsBelong
    <3> QED
      BY <2>1, <3>1, <3>3, Zenon
  <2>2. \A i \in 1..Len(log') : (i \in 1..Len(l) /\ log'[i] = l[i]) \/ log'[i] = item
    BY <1>10
  <2> QED
    BY <1>6, <1>19, <2>1, <2>2 DEF ThumbsBelong
<1>22. \A i \in DOMAIN log' : log'[i].q \notin gone'
  <2>1. \A i \in DOMAIN log' : (i \in 1..Len(l) /\ log'[i] = l[i]) \/ log'[i] = item
    BY <1>10
  <2> QED
    BY <1>6, <2>1
<1>23. \A i \in DOMAIN history' : history'[i][2] \notin gone'
  BY <1>11 DEF User
<1> QED
  BY <1>10, <1>11, <1>12, <1>13, <1>14, <1>16, <1>17, <1>18, <1>20, <1>21, <1>22, <1>23

LEMMA SubmitKeeps ==
    ASSUME IInv, Submit
    PROVE  IInv'
<1>0. PICK q : q = typed + 1
  OBVIOUS
<1>1. /\ busy = 0 /\ typed < MaxTyped /\ typed' = q
      /\ Asks(q, log, history, conversation, runs)
      /\ UNCHANGED <<conversation, asked, kept, stored, served, known, trusts, loads, forgets, gone>>
  BY <1>0 DEF Submit, service
<1>2. /\ TypeOK /\ typed \in 0..MaxTyped /\ log \in Seq(Items) /\ history \in Seq(Said) /\ gone \subseteq Questions
      /\ conversation \in Nat /\ kept = stored
  BY DEF IInv, TypeOK, PageOK, Said, KeptBelong
<1>3. typed' \in typed..MaxTyped /\ q \in Questions' /\ q \notin gone'
  BY <1>0, <1>1, <1>2 DEF Questions
<1>4. /\ \A i \in 1..Len(log) : log[i].q \notin gone'
      /\ \A i \in 1..Len(history) : history[i][2] \notin gone'
      /\ \A i \in DOMAIN stored'.turns : stored'.turns[i].q \notin gone'
  BY <1>1, <1>2 DEF IInv, NothingComesBack
<1>5. DrawnFrom(log)
  BY DEF DrawnFrom
<1>6. /\ log' \in Seq(Items') /\ history' \in Seq(Said') /\ runs' \subseteq Runs' /\ busy' \in 0..submits'
      /\ submits' \in Nat /\ visitor' \in {"none", "earning", "held"} /\ owed' \in [1..MaxTyped -> Nat]
      /\ OneRun' /\ Owes' /\ ItemsOfRuns' /\ RunsBelong' /\ ThumbsBelong'
      /\ \A i \in DOMAIN log' : log'[i].q \notin gone'
      /\ \A i \in DOMAIN history' : history'[i][2] \notin gone'
  BY <1>1, <1>2, <1>3, <1>4, <1>5, AsksKeep
<1>7. /\ Questions \subseteq Questions' /\ Conversations \subseteq Conversations'
      /\ Seq(Seq(Questions)) \subseteq Seq(Seq(Questions))'
  BY <1>1, <1>2, <1>3, TypesGrow
<1>8. PageOK'
  BY <1>1, <1>2, <1>6, <1>7 DEF TypeOK, PageOK, Said
<1>9. TypeOK'
  BY <1>1, <1>2, <1>3, <1>6, <1>7, <1>8, SMTT(30) DEF TypeOK
<1>10. \A p, c : Asked(p, c)' <=> Asked(p, c)
  BY <1>1, AskedStays
<1>11. KeptBelong'
  BY <1>1, <1>10 DEF IInv, KeptBelong
<1>12. NothingComesBack'
  BY <1>4, <1>6 DEF NothingComesBack
<1> QED
  BY <1>6, <1>9, <1>11, <1>12 DEF IInv

LEMMA FrontIs ==
    ASSUME NEW S, NEW h \in Seq(S), h # <<>>
    PROVE  /\ Front(h) \in Seq(S) /\ Len(h) \in Nat /\ Len(h) > 0 /\ Len(Front(h)) = Len(h) - 1
           /\ Last(h) = h[Len(h)]
           /\ \A j \in 1..Len(Front(h)) : j \in 1..Len(h) /\ Front(h)[j] = h[j]
<1>1. Len(h) \in Nat /\ Len(h) > 0
  OBVIOUS
<1>2. PICK n \in Nat : n = Len(h) - 1
  BY <1>1
<1>3. Front(h) = SubSeq(h, 1, n)
  BY <1>2 DEF Front
<1>4. PICK front : front = SubSeq(h, 1, n)
  OBVIOUS
<1>5. front \in Seq(S) /\ Len(front) = n
  BY <1>1, <1>2, <1>4
<1>6. \A j \in 1..n : j \in 1..Len(h) /\ front[j] = h[j]
  BY <1>1, <1>2, <1>4
<1> QED
  BY <1>1, <1>2, <1>3, <1>4, <1>5, <1>6 DEF Last

LEMMA RetryKeeps ==
    ASSUME IInv, NEW i \in DOMAIN log, Retry(i)
    PROVE  IInv'
<1> DEFINE l == RemoveAt(log, i)
           h == Front(history)
           q == RetryOf(history)
<1>1. /\ busy = 0 /\ q # 0
      /\ Asks(q, l, h, conversation, runs)
      /\ UNCHANGED <<conversation, asked, kept, stored, served, known, trusts, loads, forgets, typed, gone>>
  BY DEF Retry, service
<1>2. /\ TypeOK /\ typed \in 0..MaxTyped /\ log \in Seq(Items) /\ history \in Seq(Said) /\ gone \subseteq Questions
      /\ conversation \in Nat /\ kept = stored
  BY DEF IInv, TypeOK, PageOK, Said, KeptBelong
<1>3. history # <<>> /\ q = Last(history)[2] /\ q \in 0..typed
  BY <1>1, <1>2, RetryIsAQuestion
<1>4. /\ h \in Seq(Said) /\ Len(history) \in 1..Len(history) /\ Last(history) = history[Len(history)]
      /\ \A j \in 1..Len(h) : j \in 1..Len(history) /\ h[j] = history[j]
  BY <1>2, <1>3, FrontIs
<1>5. l \in Seq(Items) /\ DrawnFrom(l)
  <2>1. i \in 1..Len(log) /\ Len(log) \in Nat
    BY <1>2
  <2>2. PICK before : before = SubSeq(log, 1, i - 1)
    OBVIOUS
  <2>3. PICK after : after = SubSeq(log, i + 1, Len(log))
    OBVIOUS
  <2>4. /\ before \in Seq(Items) /\ Len(before) = i - 1
        /\ \A j \in 1..Len(before) : j \in 1..Len(log) /\ before[j] = log[j]
    BY <1>2, <2>1, <2>2
  <2>5. /\ after \in Seq(Items) /\ Len(after) = Len(log) - i
        /\ \A j \in 1..Len(after) : i + j \in 1..Len(log) /\ after[j] = log[i + j]
    BY <1>2, <2>1, <2>3, SMTT(30)
  <2>6. l = before \o after
    BY <2>2, <2>3 DEF RemoveAt
  <2>7. \A j \in 1..Len(l) : (j \in 1..Len(before) /\ l[j] = before[j])
                             \/ (j - Len(before) \in 1..Len(after) /\ l[j] = after[j - Len(before)])
    BY <2>4, <2>5, <2>6
  <2>8. l \in Seq(Items)
    BY <2>4, <2>5, <2>6
  <2>9. \A j \in 1..Len(l) : \E k \in 1..Len(log) : l[j] = log[k]
    BY <2>4, <2>5, <2>7
  <2> QED
    BY <2>8, <2>9 DEF DrawnFrom
<1> HIDE DEF l, h, q
<1>6. typed' \in typed..MaxTyped /\ q \in Questions' /\ q \notin gone'
  <2>1. history[Len(history)][2] \notin gone
    BY <1>2, <1>4 DEF IInv, NothingComesBack
  <2> QED
    BY <1>1, <1>2, <1>3, <1>4, <2>1 DEF Questions
<1>7. /\ \A j \in 1..Len(l) : l[j].q \notin gone'
      /\ \A j \in 1..Len(h) : h[j][2] \notin gone'
      /\ \A j \in DOMAIN stored'.turns : stored'.turns[j].q \notin gone'
  <2>1. /\ \A j \in 1..Len(log) : log[j].q \notin gone'
        /\ \A j \in 1..Len(history) : history[j][2] \notin gone'
    BY <1>1, <1>2 DEF IInv, NothingComesBack
  <2>2. \A j \in DOMAIN stored'.turns : stored'.turns[j].q \notin gone'
    BY <1>1 DEF IInv, NothingComesBack
  <2>3. \A j \in 1..Len(h) : h[j][2] \notin gone'
    BY <1>4, <2>1
  <2>4. \A j \in 1..Len(l) : l[j].q \notin gone'
    BY <1>5, <2>1 DEF DrawnFrom
  <2> QED
    BY <2>2, <2>3, <2>4
<1>8. /\ log' \in Seq(Items') /\ history' \in Seq(Said') /\ runs' \subseteq Runs' /\ busy' \in 0..submits'
      /\ submits' \in Nat /\ visitor' \in {"none", "earning", "held"} /\ owed' \in [1..MaxTyped -> Nat]
      /\ OneRun' /\ Owes' /\ ItemsOfRuns' /\ RunsBelong' /\ ThumbsBelong'
      /\ \A j \in DOMAIN log' : log'[j].q \notin gone'
      /\ \A j \in DOMAIN history' : history'[j][2] \notin gone'
  BY <1>1, <1>2, <1>4, <1>5, <1>6, <1>7, AsksKeep
<1>9. /\ Questions \subseteq Questions' /\ Conversations \subseteq Conversations'
      /\ Seq(Seq(Questions)) \subseteq Seq(Seq(Questions))'
  BY <1>1, <1>2, <1>6, TypesGrow
<1>10. PageOK'
  BY <1>1, <1>2, <1>8, <1>9 DEF TypeOK, PageOK, Said
<1>11. TypeOK'
  BY <1>1, <1>2, <1>6, <1>8, <1>9, <1>10 DEF TypeOK
<1>12. \A p, c : Asked(p, c)' <=> Asked(p, c)
  BY <1>1, AskedStays
<1>13. KeptBelong'
  BY <1>1, <1>12 DEF IInv, KeptBelong
<1>14. NothingComesBack'
  BY <1>7, <1>8 DEF NothingComesBack
<1> QED
  BY <1>8, <1>11, <1>13, <1>14 DEF IInv

(***************************************************************************)
(* A conversation is left.                                                 *)
(***************************************************************************)
LEMMA LeftAre ==
    ASSUME IInv
    PROVE  Left \subseteq Questions
<1>1. log \in Seq(Items) /\ kept.turns \in Seq(Turns)
  BY DEF IInv, TypeOK, PageOK, Conversations
<1>2. \A i \in DOMAIN log : log[i].q \in Questions
  <2>1. \A i \in DOMAIN log : log[i] \in Items
    BY <1>1
  <2>2. \A item \in Items : item.q \in Questions
    BY DEF Items
  <2> QED
    BY <2>1, <2>2
<1>3. \A i \in DOMAIN kept.turns : kept.turns[i].q \in Questions
  <2>1. \A i \in DOMAIN kept.turns : kept.turns[i] \in Turns
    BY <1>1
  <2>2. \A turn \in Turns : turn.q \in Questions
    BY DEF Turns
  <2> QED
    BY <2>1, <2>2
<1> QED
  BY <1>2, <1>3 DEF Left

LEMMA NoneIs ==
    ASSUME Len(served) \in Nat
    PROVE  /\ None \in Conversations /\ None.turns = <<>> /\ Len(None.turns) = 0 /\ DOMAIN None.turns = {}
           /\ Len(None.turns) <= MaxKept
<1>1. <<>> \in Seq(Turns) /\ Len(<<>>) = 0 /\ DOMAIN <<>> = {}
  OBVIOUS
<1> QED
  BY <1>1 DEF None, Conversations

LEMMA AskAnewKeeps ==
    ASSUME IInv, NEW i \in DOMAIN log, AskAnew(i)
    PROVE  IInv'
<1>0. PICK q : q = log[i].resend
  OBVIOUS
<1>1. /\ busy = 0 /\ q # 0
      /\ conversation' = 0 /\ asked' = 0 /\ kept' = None /\ stored' = None
      /\ Asks(q, <<>>, <<>>, 0, runs)
      /\ gone' = (gone \cup Left) \ {q}
      /\ UNCHANGED <<served, known, trusts, loads, forgets, typed>>
  BY <1>0 DEF AskAnew, NewConversation, service
<1>2. TypeOK /\ typed \in 0..MaxTyped /\ log \in Seq(Items) /\ gone \subseteq Questions /\ Len(served) \in Nat
  BY DEF IInv, TypeOK, PageOK
<1>3. q \in Questions
  <2>1. log[i] \in Items
    BY <1>2
  <2> QED
    BY <1>0, <1>1, <1>2, <2>1 DEF Items, Questions
<1>4. typed' \in typed..MaxTyped /\ q \in Questions' /\ q \notin gone'
  BY <1>1, <1>2, <1>3 DEF Questions
<1>5. /\ <<>> \in Seq(Items) /\ <<>> \in Seq(Said) /\ 0 \in Nat
      /\ \A j \in 1..Len(<<>>) : FALSE
  <2>1. Len(<<>>) = 0
    OBVIOUS
  <2> QED
    BY <2>1
<1>6. PICK l \in Seq(Items) : l = <<>>
  BY <1>5
<1>7. PICK h \in Seq(Said) : h = <<>>
  BY <1>5
<1>8. /\ DrawnFrom(l)
      /\ \A j \in 1..Len(l) : l[j].q \notin gone'
      /\ \A j \in 1..Len(h) : h[j][2] \notin gone'
  BY <1>5, <1>6, <1>7 DEF DrawnFrom
<1>9. Asks(q, l, h, 0, runs)
  BY <1>1, <1>6, <1>7
<1>10. /\ log' \in Seq(Items') /\ history' \in Seq(Said') /\ runs' \subseteq Runs' /\ busy' \in 0..submits'
       /\ submits' \in Nat /\ visitor' \in {"none", "earning", "held"} /\ owed' \in [1..MaxTyped -> Nat]
       /\ OneRun' /\ Owes' /\ ItemsOfRuns' /\ RunsBelong' /\ ThumbsBelong'
       /\ \A j \in DOMAIN log' : log'[j].q \notin gone'
       /\ \A j \in DOMAIN history' : history'[j][2] \notin gone'
  BY <1>1, <1>4, <1>5, <1>8, <1>9, AsksKeep
<1>11. Questions' = Questions /\ Conversations' = Conversations
  BY <1>1 DEF Questions, Conversations, Turns
<1>12. None \in Conversations /\ Len(None.turns) = 0 /\ DOMAIN None.turns = {} /\ Len(None.turns) <= MaxKept
  BY <1>2, NoneIs
<1>13. gone' \subseteq Questions'
  BY <1>1, <1>2, <1>11, LeftAre
<1>14. PageOK'
  BY <1>1, <1>2, <1>10, <1>11, <1>12 DEF PageOK, Said
<1>15. TypeOK'
  BY <1>1, <1>2, <1>4, <1>10, <1>11, <1>12, <1>13, <1>14 DEF TypeOK
<1>16. KeptBelong'
  BY <1>1, <1>12 DEF KeptBelong
<1>17. NothingComesBack'
  BY <1>1, <1>10, <1>12 DEF NothingComesBack
<1> QED
  BY <1>10, <1>15, <1>16, <1>17 DEF IInv

LEMMA FreshKeeps ==
    ASSUME IInv, Fresh
    PROVE  IInv'
<1>1. /\ conversation' = 0 /\ asked' = 0 /\ kept' = None /\ stored' = None
      /\ history' = <<>> /\ log' = <<>>
      /\ runs' = Aborted /\ busy' = 0
      /\ gone' = gone \cup Left
      /\ UNCHANGED <<visitor, served, known, trusts, loads, forgets, submits, typed, owed>>
  BY DEF Fresh, NewConversation, service, counters
<1>2. TypeOK /\ submits \in Nat /\ gone \subseteq Questions /\ Len(served) \in Nat /\ runs \subseteq Runs /\ OneRun
  BY DEF IInv, TypeOK, PageOK
<1>3. /\ runs' \subseteq Runs
      /\ \A r \in runs' : r.aborted /\ r.at \in Waiting \cup {"none"}
      /\ \A r \in runs' : \E s \in runs : r = [s EXCEPT !.aborted = TRUE]
  BY <1>1, <1>2, AbortedAre
<1>4. \A r \in runs' : \E s \in runs : /\ r = [s EXCEPT !.aborted = TRUE] /\ r.id = s.id /\ r.q = s.q /\ r.in = s.in
                                       /\ r.at = s.at /\ r.resumable = s.resumable /\ r.resumes = s.resumes
  <2>1. \A s \in Runs : LET r == [s EXCEPT !.aborted = TRUE]
                        IN /\ r.id = s.id /\ r.q = s.q /\ r.in = s.in
                           /\ r.at = s.at /\ r.resumable = s.resumable /\ r.resumes = s.resumes
    BY DEF Runs
  <2>2. ASSUME NEW r \in runs'
        PROVE  \E s \in runs : /\ r = [s EXCEPT !.aborted = TRUE] /\ r.id = s.id /\ r.q = s.q /\ r.in = s.in
                               /\ r.at = s.at /\ r.resumable = s.resumable /\ r.resumes = s.resumes
    <3>1. PICK s \in runs : r = [s EXCEPT !.aborted = TRUE]
      BY <1>3
    <3>2. s \in Runs
      BY <1>2
    <3>3. /\ r.id = s.id /\ r.q = s.q /\ r.in = s.in
          /\ r.at = s.at /\ r.resumable = s.resumable /\ r.resumes = s.resumes
      BY <2>1, <3>1, <3>2
    <3> QED
      BY <3>1, <3>3
  <2> QED
    BY <2>2
<1>5. Items' = Items /\ Turns' = Turns /\ Questions' = Questions /\ Runs' = Runs /\ Conversations' = Conversations
  BY <1>1 DEF Items, Turns, Questions, Runs, Conversations
<1>6. None \in Conversations /\ Len(None.turns) = 0 /\ DOMAIN None.turns = {} /\ Len(None.turns) <= MaxKept
  BY <1>2, NoneIs
<1>7. gone' \subseteq Questions'
  BY <1>1, <1>2, <1>5, LeftAre
<1>8. Len(<<>>) = 0 /\ DOMAIN <<>> = {}
  OBVIOUS
<1>9. PageOK'
  <2>1. log' \in Seq(Items') /\ history' \in Seq({"user", "assistant"} \X Questions')
    BY <1>1
  <2>2. busy' \in 0..submits' /\ conversation' \in 0..Len(served') /\ asked' \in Nat
    BY <1>1, <1>2
  <2> QED
    BY <1>1, <1>2, <1>3, <1>5, <1>6, <2>1, <2>2 DEF TypeOK, PageOK
<1>10. TypeOK'
  BY <1>1, <1>2, <1>5, <1>6, <1>7, <1>9 DEF TypeOK
<1>11. OneRun'
  <2>1. \A r \in runs' : r.id \in 1..submits'
    BY <1>1, <1>4 DEF IInv, OneRun
  <2>2. ASSUME NEW r \in runs', NEW t \in runs', r.id = t.id
        PROVE  r = t
    <3>1. PICK s \in runs : r = [s EXCEPT !.aborted = TRUE] /\ r.id = s.id
      BY <1>4
    <3>2. PICK u \in runs : t = [u EXCEPT !.aborted = TRUE] /\ t.id = u.id
      BY <1>4
    <3>3. s = u
      BY <2>2, <3>1, <3>2 DEF IInv, OneRun
    <3> QED
      BY <3>1, <3>2, <3>3
  <2> QED
    BY <1>1, <1>3, <2>1, <2>2 DEF OneRun, OneAnswerAtATime
<1>12. Owes'
  BY <1>3 DEF Owes, Waiting
<1>13. ItemsOfRuns' /\ ThumbsBelong'
  BY <1>1, <1>8 DEF ItemsOfRuns, ThumbsBelong
<1>14. \A q, c : Asked(q, c)' <=> Asked(q, c)
  BY <1>1, AskedStays
<1>15. RunsBelong'
  <2>1. \A r \in runs' : busy' # r.id
    BY <1>1, <1>4 DEF IInv, OneRun
  <2>2. \A r \in runs' : r.at \notin Reading
    BY <1>3 DEF Waiting, Reading
  <2>3. \A r \in runs' : (r.resumable \/ r.resumes \/ r.at \in Reading \cup {"resume"}) => Asked(r.q, r.in)'
    BY <1>4, <1>14 DEF IInv, RunsBelong
  <2> QED
    BY <2>1, <2>2, <2>3 DEF RunsBelong
<1>16. KeptBelong' /\ NothingComesBack'
  BY <1>1, <1>6, <1>8 DEF KeptBelong, NothingComesBack
<1> QED
  BY <1>10, <1>11, <1>12, <1>13, <1>15, <1>16 DEF IInv

(***************************************************************************)
(* The page changes: what was kept is shown again, an answer under way is  *)
(* resumed.                                                                *)
(***************************************************************************)
LEMMA AgainIs ==
    ASSUME NEW k \in Conversations, typed \in Nat, Len(served) \in Nat
    PROVE  /\ Again(k) \in Seq(Items) /\ Len(Again(k)) = Len(k.turns)
           /\ \A i \in 1..Len(k.turns) :
                Again(k)[i].run = 0 /\ Again(k)[i].q = k.turns[i].q /\ Again(k)[i].of = k.conversation
<1>1. k.turns \in Seq(Turns) /\ k.conversation \in Nat
  BY DEF Conversations
<1>2. \A turn \in Turns :
        LET item == [Item(0, turn.q) EXCEPT !.st = "answered", !.of = k.conversation, !.turn = turn.turn]
        IN item \in Items /\ item.run = 0 /\ item.q = turn.q /\ item.of = k.conversation
  <2>1. ASSUME NEW turn \in Turns, NEW item,
               item = [Item(0, turn.q) EXCEPT !.st = "answered", !.of = k.conversation, !.turn = turn.turn]
        PROVE  item \in Items /\ item.run = 0 /\ item.q = turn.q /\ item.of = k.conversation
    <3>1. item = [run |-> 0, q |-> turn.q, st |-> "answered", of |-> k.conversation, turn |-> turn.turn, resend |-> 0]
      BY <2>1 DEF Item
    <3>2. turn.q \in Questions /\ turn.turn \in Nat
      BY DEF Turns
    <3> QED
      BY <1>1, <3>1, <3>2 DEF Items
  <2> QED
    BY <2>1
<1>3. \A i \in DOMAIN k.turns : k.turns[i] \in Turns
  BY <1>1
<1>4. DOMAIN k.turns = 1..Len(k.turns) /\ Len(k.turns) \in Nat
  BY <1>1
<1>5. Again(k) = [i \in 1..Len(k.turns) |->
                    [Item(0, k.turns[i].q) EXCEPT !.st = "answered", !.of = k.conversation, !.turn = k.turns[i].turn]]
  BY <1>4 DEF Again
<1>6. \A i \in 1..Len(k.turns) :
        Again(k)[i] \in Items /\ Again(k)[i].run = 0 /\ Again(k)[i].q = k.turns[i].q /\ Again(k)[i].of = k.conversation
  <2>1. ASSUME NEW i \in 1..Len(k.turns)
        PROVE  /\ Again(k)[i] \in Items /\ Again(k)[i].run = 0 /\ Again(k)[i].q = k.turns[i].q
               /\ Again(k)[i].of = k.conversation
    <3>1. PICK turn \in Turns : turn = k.turns[i]
      BY <1>3, <1>4
    <3>2. PICK item : item = [Item(0, turn.q) EXCEPT !.st = "answered", !.of = k.conversation, !.turn = turn.turn]
      OBVIOUS
    <3>3. Again(k)[i] = item
      BY <1>5, <3>1, <3>2
    <3>4. item \in Items /\ item.run = 0 /\ item.q = turn.q /\ item.of = k.conversation
      BY <1>2, <3>2, Zenon
    <3> QED
      BY <3>1, <3>3, <3>4
  <2> QED
    BY <2>1
<1>7. DOMAIN Again(k) = 1..Len(k.turns)
  BY <1>5
<1>8. \E n \in Nat : Again(k) \in [1..n -> Items]
  BY <1>4, <1>5, <1>6, Zenon
<1> QED
  BY <1>4, <1>6, <1>7, <1>8

LEMMA HistoryIs ==
    ASSUME NEW k \in Conversations
    PROVE  /\ HistoryOf(k) \in Seq(Said)
           /\ \A i \in 1..Len(HistoryOf(k)) : \E j \in 1..Len(k.turns) : HistoryOf(k)[i][2] = k.turns[j].q
<1>1. k.turns \in Seq(Turns)
  BY DEF Conversations
<1>2. PICK n \in Nat : n = Len(k.turns)
  BY <1>1
<1>3. PICK m \in Nat : m = 2 * n
  BY <1>2
<1>4. \A i \in 1..m : (i + 1) \div 2 \in 1..n
  BY <1>2, <1>3
<1>5. \A j \in 1..n : k.turns[j].q \in Questions
  <2>1. \A j \in 1..n : k.turns[j] \in Turns
    BY <1>1, <1>2
  <2>2. \A turn \in Turns : turn.q \in Questions
    BY DEF Turns
  <2> QED
    BY <2>1, <2>2
<1>6. HistoryOf(k) = [i \in 1..m |-> IF i % 2 = 1 THEN User(k.turns[(i + 1) \div 2].q) ELSE Bot(k.turns[(i + 1) \div 2].q)]
  BY <1>2, <1>3 DEF HistoryOf
<1>7. ASSUME NEW i \in 1..m
      PROVE  HistoryOf(k)[i] \in Said /\ \E j \in 1..n : HistoryOf(k)[i][2] = k.turns[j].q
  <2>1. PICK j \in 1..n : j = (i + 1) \div 2
    BY <1>4
  <2>2. HistoryOf(k)[i] = User(k.turns[j].q) \/ HistoryOf(k)[i] = Bot(k.turns[j].q)
    BY <1>6, <2>1
  <2>3. k.turns[j].q \in Questions
    BY <1>5
  <2> QED
    BY <2>2, <2>3 DEF User, Bot, Said
<1>8. HistoryOf(k) \in Seq(Said) /\ Len(HistoryOf(k)) = m
  BY <1>6, <1>7
<1> QED
  BY <1>2, <1>7, <1>8

LEMMA StreamingIs ==
    ASSUME IInv, NEW s \in StreamingNow
    PROVE  /\ s.q \in Questions /\ s.in \in Nat /\ s.number \in Nat /\ s.n \in Nat
           /\ s.conversation = conversation /\ s.q \notin gone /\ Asked(s.q, s.in)
<1>1. PICK r \in runs :
        /\ r.id = busy /\ r.resumable
        /\ s = [q |-> r.q, in |-> r.in, conversation |-> conversation, number |-> r.turn, n |-> r.n]
  BY DEF StreamingNow
<1>2. r \in Runs
  BY DEF IInv, TypeOK, PageOK
<1>3. r.q \notin gone /\ Asked(r.q, r.in)
  BY <1>1 DEF IInv, RunsBelong
<1> QED
  BY <1>1, <1>2, <1>3 DEF Runs

LEMMA PageChangeKeeps ==
    ASSUME IInv, PageChange
    PROVE  IInv'
<1>1. /\ loads < MaxLoads /\ loads' = loads + 1
      /\ kept' = stored /\ visitor' = "earning"
      /\ UNCHANGED <<stored, served, known, trusts, forgets, typed, owed, gone>>
  BY DEF PageChange, service, observed
<1>2. /\ TypeOK /\ submits \in Nat /\ typed \in Nat /\ stored \in Conversations /\ Len(served) \in Nat
      /\ conversation \in 0..Len(served) /\ Len(stored.turns) <= MaxKept
  BY DEF IInv, TypeOK, PageOK
<1>3. /\ stored.conversation \in 0..Len(served) /\ stored.asked \in Nat /\ stored.turns \in Seq(Turns)
      /\ DOMAIN stored.turns = 1..Len(stored.turns)
  BY <1>2 DEF Conversations
<1>4. /\ Questions' = Questions /\ Items' = Items /\ Turns' = Turns /\ Conversations' = Conversations
      /\ Runs' = Runs
  BY <1>1 DEF Questions, Items, Turns, Conversations, Runs
<1>5. \A q, c : Asked(q, c)' <=> Asked(q, c)
  BY <1>1, AskedStays
<1>6. KeptBelong'
  BY <1>1, <1>5 DEF IInv, KeptBelong
<1>7. \A i \in 1..Len(stored.turns) : stored.turns[i].q \notin gone /\ Asked(stored.turns[i].q, stored.conversation)
  BY <1>3 DEF IInv, NothingComesBack, KeptBelong
<1>8. PICK again \in Seq(Items) : again = Again(stored) /\ Len(again) = Len(stored.turns)
        /\ \A i \in 1..Len(stored.turns) :
             again[i].run = 0 /\ again[i].q = stored.turns[i].q /\ again[i].of = stored.conversation
  BY <1>2, AgainIs
<1>9. PICK past \in Seq(Said) : past = HistoryOf(stored)
        /\ \A i \in 1..Len(past) : \E j \in 1..Len(stored.turns) : past[i][2] = stored.turns[j].q
  BY <1>2, HistoryIs
<1>10. /\ \A i \in 1..Len(again) : again[i].run = 0 /\ again[i].q \notin gone /\ Asked(again[i].q, again[i].of)
       /\ \A i \in 1..Len(past) : past[i][2] \notin gone
  BY <1>7, <1>8, <1>9
<1>11. ASSUME conversation' \in 0..Len(served), asked' \in Nat, log' \in Seq(Items), history' \in Seq(Said),
              runs' \subseteq Runs, busy' \in 0..submits', submits' \in Nat
       PROVE  TypeOK'
  <2>1. PageOK'
    BY <1>1, <1>2, <1>4, <1>11 DEF PageOK, Said
  <2>2. loads' \in 0..MaxLoads
    BY <1>1, <1>2 DEF TypeOK
  <2> QED
    BY <1>1, <1>2, <1>4, <1>11, <2>1, <2>2 DEF TypeOK
<1> DEFINE resumed == {s \in StreamingNow : Resumes(s, stored)}
           old == stored.turns # <<>>
<1>12. CASE resumed = {}
  <2>1. /\ conversation' = IF old THEN stored.conversation ELSE 0
        /\ asked' = IF old THEN stored.asked ELSE 0
        /\ log' = again /\ history' = past /\ runs' = {} /\ busy' = 0 /\ submits' = submits
    BY <1>8, <1>9, <1>12 DEF PageChange
  <2>2. conversation' \in 0..Len(served) /\ asked' \in Nat
    BY <1>2, <1>3, <2>1
  <2>3. TypeOK'
    BY <1>2, <1>11, <2>1, <2>2
  <2>4. OneRun' /\ Owes' /\ RunsBelong'
    BY <2>1 DEF OneRun, OneAnswerAtATime, Owes, RunsBelong
  <2>5. ItemsOfRuns' /\ ThumbsBelong'
    BY <1>2, <1>5, <1>10, <2>1 DEF ItemsOfRuns, ThumbsBelong
  <2>6. NothingComesBack'
    BY <1>1, <1>3, <1>7, <1>10, <2>1 DEF NothingComesBack
  <2> QED
    BY <1>6, <2>3, <2>4, <2>5, <2>6 DEF IInv
<1>13. CASE resumed # {}
  <2>1. PICK s : s \in resumed /\ s = CHOOSE x \in resumed : TRUE
    BY <1>13
  <2>2. PICK id \in Nat : id = submits + 1
    BY <1>2
  <2>3. PICK run : run = [Run(id, s.q, "token", s.conversation, s.n)
                            EXCEPT !.in = s.in, !.turn = s.number, !.resumable = TRUE, !.resumes = TRUE]
    BY Zenon
  <2>4. PICK item : item = Item(id, s.q)
    BY Zenon
  <2>5. /\ conversation' = s.conversation
        /\ asked' = IF old /\ stored.asked > s.number THEN stored.asked ELSE s.number
        /\ log' = Append(again, item)
        /\ history' = Append(past, User(s.q))
        /\ busy' = id
        /\ submits' = id
        /\ runs' = {run}
    BY <1>8, <1>9, <1>13, <2>1, <2>2, <2>3, <2>4 DEF PageChange
  <2>6. /\ s.q \in Questions /\ s.in \in Nat /\ s.number \in Nat /\ s.n \in Nat
        /\ s.conversation = conversation /\ s.q \notin gone /\ Asked(s.q, s.in)
    BY <2>1, StreamingIs
  <2>7. /\ run \in Runs /\ run.id = id /\ run.q = s.q /\ run.in = s.in /\ run.at = "token" /\ ~run.aborted
        /\ run.resumable /\ run.resumes
    <3>1. run = [id |-> id, q |-> s.q, at |-> "token", aborted |-> FALSE, asks |-> s.conversation, in |-> s.in, n |-> s.n,
                 turn |-> s.number, resumable |-> TRUE, text |-> FALSE, resumes |-> TRUE]
      BY <2>3 DEF Run
    <3>2. s.conversation \in Nat
      BY <1>2, <2>6
    <3> QED
      BY <2>6, <3>1, <3>2 DEF Runs, Waiting
  <2>8. item \in Items /\ item.run = id /\ item.q = s.q /\ item.of = 0
    BY <1>2, <2>4, <2>6 DEF Item, Items, Questions
  <2>9. User(s.q) \in Said /\ User(s.q)[2] = s.q
    BY <2>6 DEF User, Said
  <2>10. conversation' \in 0..Len(served) /\ asked' \in Nat
    BY <1>2, <1>3, <2>5, <2>6
  <2>11. /\ log' \in Seq(Items) /\ DOMAIN log' = 1..Len(log')
         /\ \A i \in 1..Len(log') : (i \in 1..Len(again) /\ log'[i] = again[i]) \/ log'[i] = item
    BY <2>5, <2>8
  <2>12. /\ history' \in Seq(Said)
         /\ \A i \in DOMAIN history' : (i \in 1..Len(past) /\ history'[i] = past[i]) \/ history'[i] = User(s.q)
    BY <2>5, <2>9
  <2>13. TypeOK'
    <3>1. runs' \subseteq Runs /\ busy' \in 0..submits' /\ submits' \in Nat
      BY <2>5, <2>7
    <3> QED
      BY <1>11, <2>10, <2>11, <2>12, <3>1
  <2>14. OneRun'
    BY <1>2, <2>2, <2>5, <2>7 DEF OneRun, OneAnswerAtATime
  <2>15. Owes'
    BY <2>5, <2>7 DEF Owes
  <2>16. ItemsOfRuns'
    <3>1. \A i \in 1..Len(log') : (log'[i].run = 0 \/ (log'[i].run = id /\ log'[i].q = s.q))
      BY <1>10, <2>8, <2>11
    <3>2. 0 \in 0..id /\ id \in 0..id /\ id # 0
      BY <1>2, <2>2
    <3> QED
      BY <2>5, <2>7, <3>1, <3>2 DEF ItemsOfRuns
  <2>17. ThumbsBelong'
    BY <1>5, <1>10, <2>8, <2>11 DEF ThumbsBelong
  <2>18. RunsBelong'
    BY <1>1, <1>5, <2>5, <2>6, <2>7 DEF RunsBelong, Reading
  <2>19. NothingComesBack'
    <3>1. \A i \in DOMAIN log' : log'[i].q \notin gone
      BY <1>10, <2>6, <2>8, <2>11
    <3>2. \A i \in DOMAIN history' : history'[i][2] \notin gone
      BY <1>10, <2>6, <2>9, <2>12
    <3> QED
      BY <1>1, <1>3, <1>7, <3>1, <3>2 DEF NothingComesBack
  <2> QED
    BY <1>6, <2>13, <2>14, <2>15, <2>16, <2>17, <2>18, <2>19 DEF IInv
<1> QED
  BY <1>12, <1>13

(***************************************************************************)
(* The invariant is inductive.                                             *)
(***************************************************************************)
LEMMA InitIInv ==
    ASSUME Init
    PROVE  IInv
<1>1. /\ conversation = 0 /\ asked = 0 /\ history = <<>> /\ kept = None /\ log = <<>> /\ busy = 0 /\ runs = {}
      /\ visitor = "earning" /\ stored = None /\ served = <<>> /\ known = {} /\ trusts = FALSE
      /\ loads = 0 /\ forgets = 0 /\ submits = 0 /\ typed = 0
      /\ owed = [q \in 1..MaxTyped |-> 0] /\ gone = {}
  BY DEF Init
<1>2. Len(served) = 0 /\ Len(log) = 0 /\ DOMAIN log = {} /\ DOMAIN history = {}
  BY <1>1
<1>3. None \in Conversations /\ None.turns = <<>> /\ Len(None.turns) = 0 /\ DOMAIN None.turns = {} /\ Len(None.turns) <= MaxKept
  BY <1>2, NoneIs
<1>4. PageOK
  <2>1. log \in Seq(Items) /\ history \in Seq({"user", "assistant"} \X Questions)
    BY <1>1
  <2>2. conversation \in 0..Len(served) /\ asked \in Nat /\ busy \in 0..submits /\ runs \subseteq Runs
    BY <1>1, <1>2
  <2> QED
    BY <1>1, <1>3, <2>1, <2>2 DEF PageOK
<1>5. TypeOK
  <2>1. served \in Seq(Seq(Questions)) /\ known \subseteq 1..Len(served)
    BY <1>1
  <2>2. owed \in [1..MaxTyped -> Nat] /\ gone \subseteq Questions
    BY <1>1
  <2>3. loads \in 0..MaxLoads /\ forgets \in 0..MaxForgets /\ submits \in Nat /\ typed \in 0..MaxTyped
    BY <1>1
  <2> QED
    BY <1>1, <1>3, <1>4, <2>1, <2>2, <2>3 DEF TypeOK
<1>6. OneRun /\ Owes /\ RunsBelong
  BY <1>1 DEF OneRun, OneAnswerAtATime, Owes, RunsBelong
<1>7. ItemsOfRuns /\ ThumbsBelong /\ KeptBelong /\ NothingComesBack
  BY <1>1, <1>2, <1>3 DEF ItemsOfRuns, ThumbsBelong, KeptBelong, NothingComesBack
<1> QED
  BY <1>5, <1>6, <1>7 DEF IInv

LEMMA StutterIInv ==
    ASSUME IInv, UNCHANGED vars
    PROVE  IInv'
<1>1. UNCHANGED <<conversation, asked, history, kept, log, busy, runs, visitor, stored, served, known, trusts,
                  loads, forgets, submits, typed, owed, gone>>
  BY DEF vars, page, service, counters, observed
<1>2. TypeOK'
  BY <1>1 DEF IInv, TypeOK, PageOK, Items, Turns, Conversations, Questions, Runs
<1>3. \A q, c : Asked(q, c)' <=> Asked(q, c)
  BY <1>1, AskedStays
<1>4. OneRun' /\ Owes' /\ ItemsOfRuns'
  BY <1>1 DEF IInv, OneRun, OneAnswerAtATime, Owes, ItemsOfRuns
<1>5. RunsBelong' /\ KeptBelong' /\ ThumbsBelong'
  BY <1>1, <1>3 DEF IInv, RunsBelong, KeptBelong, ThumbsBelong
<1>6. NothingComesBack'
  BY <1>1 DEF IInv, NothingComesBack
<1> QED
  BY <1>2, <1>4, <1>5, <1>6 DEF IInv

LEMMA NextIInv ==
    ASSUME IInv, [Next]_vars
    PROVE  IInv'
<1>1. CASE Submit
  BY <1>1, SubmitKeeps
<1>2. CASE Stop
  BY <1>2, StopKeeps
<1>3. CASE Fresh
  BY <1>3, FreshKeeps
<1>4. ASSUME NEW i \in DOMAIN log, Retry(i) PROVE IInv'
  BY <1>4, RetryKeeps
<1>5. ASSUME NEW i \in DOMAIN log, AskAnew(i) PROVE IInv'
  BY <1>5, AskAnewKeeps
<1>6. CASE PageChange
  BY <1>6, PageChangeKeeps
<1>7. CASE Earned
  BY <1>7, EarnedKeeps
<1>8. CASE NotEarned
  BY <1>8, NotEarnedKeeps
<1>9. ASSUME NEW r \in runs, Arrives(r) PROVE IInv'
  <2>1. CASE TokenHeld(r)
    BY <2>1, TokenHeldKeeps
  <2>2. CASE NoToken(r)
    BY <2>2, NoTokenKeeps
  <2>3. CASE Response(r)
    BY <2>3, ResponseKeeps
  <2>4. CASE Resumed(r)
    BY <2>4, ResumedKeeps
  <2>5. CASE Opened(r)
    BY <2>5, OpenedKeeps
  <2>6. CASE Streams(r)
    BY <2>6, StreamsKeeps
  <2>7. CASE Cited(r)
    BY <2>7, CitedKeeps
  <2>8. CASE FollowUps(r)
    BY <2>8, FollowUpsKeeps
  <2>9. CASE ErrorEvent(r)
    BY <2>9, ErrorEventKeeps
  <2>10. CASE Ends(r)
    BY <2>10, EndsKeeps
  <2>11. CASE Lost(r)
    BY <2>11, LostKeeps
  <2> QED
    BY <1>9, <2>1, <2>2, <2>3, <2>4, <2>5, <2>6, <2>7, <2>8, <2>9, <2>10, <2>11 DEF Arrives
<1>10. CASE Forgets
  BY <1>10, ForgetsKeeps
<1>11. CASE UNCHANGED vars
  BY <1>11, StutterIInv
<1> QED
  BY <1>1, <1>2, <1>3, <1>4, <1>5, <1>6, <1>7, <1>8, <1>9, <1>10, <1>11 DEF Next, Visitor, Network

LEMMA Inductive == Spec => []IInv
<1>1. Init => IInv
  BY InitIInv
<1>2. IInv /\ [Next]_vars => IInv'
  BY NextIInv
<1> QED
  BY <1>1, <1>2, PTL DEF Spec

(***************************************************************************)
(* Every variable of the page, of sessionStorage and of the service stays  *)
(* what widget.js declares it to be (widget.js 1020-1060, 2600-2700).      *)
(***************************************************************************)
THEOREM TypeCorrect == Spec => []TypeOK
<1>1. IInv => TypeOK
  BY DEF IInv
<1> QED
  BY <1>1, Inductive, PTL

(***************************************************************************)
(* A stopped, left or retried question never unlocks the box under another *)
(* one, and the service accepts each question at most once for each time   *)
(* it was submitted: at most one run may post, and its question is owed.   *)
(***************************************************************************)
THEOREM AnswersEach == Spec => []OneAnswerEach
<1>1. ASSUME IInv, NEW q \in 1..MaxTyped
      PROVE  owed[q] >= Cardinality({r \in runs : r.q = q /\ r.at \in {"post", "repost"}})
  <2> DEFINE posts == {r \in runs : r.q = q /\ r.at \in {"post", "repost"}}
  <2>1. owed \in [1..MaxTyped -> Nat] /\ TypeOK /\ OneRun
    BY <1>1 DEF IInv, TypeOK
  <2>2. CASE posts = {}
    <3>1. Cardinality(posts) = 0
      BY <2>2, FS_EmptySet
    <3> QED
      BY <2>1, <3>1
  <2>3. CASE posts # {}
    <3>1. PICK r \in posts : TRUE
      BY <2>3
    <3>2. \A s \in posts : ~s.aborted
      BY <2>1, NotStopped DEF Waiting
    <3>3. \A s \in posts : s = r
      BY <2>1, <3>1, <3>2, NotStopped
    <3>4. posts = {r}
      BY <3>1, <3>3
    <3>5. Cardinality(posts) = 1
      BY <3>4, FS_Singleton
    <3>6. owed[q] > 0
      BY <1>1, <3>1, <3>2 DEF IInv, Owes
    <3>7. owed[q] \in Nat
      BY <2>1
    <3> QED
      BY <3>5, <3>6, <3>7
  <2> QED
    BY <2>2, <2>3
<1>2. IInv => OneAnswerEach
  BY <1>1 DEF IInv, OneRun, OneAnswerEach, AskedOncePerSubmit
<1> QED
  BY <1>2, Inductive, PTL

(***************************************************************************)
(* Nothing of a conversation that was left comes back, late or after a     *)
(* page change, and a thumb names the conversation in which the service    *)
(* answered that question (widget.js:1041, 2828).                          *)
(***************************************************************************)
THEOREM KeepApart == Spec => []ConversationsKeepApart
<1>1. ASSUME IInv
      PROVE  FeedbackStaysInItsConversation
  <2>1. log \in Seq(Items) /\ served \in Seq(Seq(Questions))
    BY <1>1 DEF IInv, TypeOK, PageOK
  <2>2. ASSUME NEW i \in DOMAIN log, log[i].of # 0
        PROVE  \E n \in DOMAIN served[log[i].of] : served[log[i].of][n] = log[i].q
    <3>1. Asked(log[i].q, log[i].of)
      BY <1>1, <2>1, <2>2 DEF IInv, ThumbsBelong
    <3>2. served[log[i].of] \in Seq(Questions)
      BY <2>1, <3>1 DEF Asked
    <3> QED
      BY <3>1, <3>2 DEF Asked
  <2> QED
    BY <2>2 DEF FeedbackStaysInItsConversation
<1>2. IInv => ConversationsKeepApart
  BY <1>1 DEF IInv, ConversationsKeepApart
<1> QED
  BY <1>2, Inductive, PTL

(***************************************************************************)
(* A Retry takes back the question that nothing answered, never an answer: *)
(* every answered turn stands where it stood (widget.js, retryLast).       *)
(***************************************************************************)
THEOREM RetryKeepsAnswers == Spec => RetryKeepsTheAnswered
<1>1. ASSUME IInv, NEW i \in DOMAIN log, Retry(i)
      PROVE  \A j \in DOMAIN history : history[j][1] = "assistant" => j \in DOMAIN history' /\ history'[j] = history[j]
  <2>1. history \in Seq(Said) /\ TypeOK
    BY <1>1 DEF IInv, TypeOK, PageOK, Said
  <2>2. PICK q : q = RetryOf(history)
    OBVIOUS
  <2>3. history # <<>> /\ Last(history)[1] = "user"
    BY <1>1, <2>1, RetryIsAQuestion DEF Retry
  <2>4. PICK h : h = Front(history)
    OBVIOUS
  <2>5. history' = Append(h, User(q))
    BY <1>1, <2>2, <2>4 DEF Retry, Asks
  <2>6. Len(history) \in Nat /\ Len(history) > 0 /\ history[Len(history)][1] = "user"
    BY <2>1, <2>3, FrontIs
  <2>7. /\ h \in Seq(Said) /\ Len(h) = Len(history) - 1
        /\ \A j \in 1..Len(h) : h[j] = history[j]
    BY <2>1, <2>3, <2>4, FrontIs
  <2>8. Len(history') = Len(history) /\ DOMAIN history' = 1..Len(history) /\ \A j \in 1..Len(h) : history'[j] = h[j]
    BY <2>5, <2>6, <2>7
  <2> QED
    BY <2>1, <2>6, <2>7, <2>8
<1>2. IInv /\ [Next]_vars =>
        [(\E i \in DOMAIN log : Retry(i)) =>
           \A i \in DOMAIN history : history[i][1] = "assistant" => i \in DOMAIN history' /\ history'[i] = history[i]]_vars
  BY <1>1
<1> QED
  BY <1>2, Inductive, PTL DEF Spec, RetryKeepsTheAnswered
===============================================================================
