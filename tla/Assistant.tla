------------------------------- MODULE Assistant -------------------------------
(***************************************************************************)
(* The public chat of a knowledge assistant: one page of widget.js, the    *)
(* tab's sessionStorage it reads back after a page change, the visitor's   *)
(* token, and the chat service (external) it streams answers from.         *)
(*                                                                         *)
(* A question is a number, an answer is known by the question it answers.  *)
(* What is kept is the order of things: a run awaits a token, a response   *)
(* and events, and between any two of them the visitor stops, starts a new *)
(* conversation, asks again or leaves the page.                            *)
(***************************************************************************)
EXTENDS Naturals, Sequences, FiniteSets, SequencesExt

CONSTANTS
  MaxTyped,     \* the questions a visitor types, numbered from 1
  MaxSubmits,   \* how often anything is submitted, retries included
  MaxLoads,     \* page changes in this tab
  MaxForgets,   \* restarts of the service
  MaxKept       \* MAX_KEPT

ASSUME BoundsAssumption ==
  /\ MaxTyped \in Nat /\ MaxSubmits \in Nat /\ MaxLoads \in Nat /\ MaxForgets \in Nat
  /\ MaxKept \in Nat \ {0}

VARIABLES
  conversation,  \* the id every question carries; 0 is null
  asked,         \* questions counted in it
  history,       \* what a question carries: <<role, question>>
  kept,          \* the answered turns as the page holds them
  log,           \* the items shown, oldest first
  busy,          \* the run whose controller `busy` is; 0 is null
  runs,          \* the runs that have not come to their end
  visitor,       \* the promise of a visitor token
  stored,        \* the copy in sessionStorage
  served,        \* the service: the questions of each conversation it opened
  known,         \* the service: the conversations it still holds
  trusts,        \* the service: whether it knows the page's token
  loads, forgets, submits, typed,  \* bounded
  owed,          \* observer: how often each question was submitted and not yet accepted
  gone           \* observer: questions of conversations the visitor left

page == <<conversation, asked, history, kept, log, busy, runs, visitor>>
service == <<served, known, trusts>>
observed == <<owed, gone>>
counters == <<loads, forgets, submits, typed>>
vars == <<page, stored, service, counters, observed>>

None == [conversation |-> 0, asked |-> 0, turns |-> <<>>]
Waiting == {"token", "refresh", "again"}   \* await visitorToken(...)
Reading == {"open", "text", "answer", "cited", "failed"}
Words == {"again", "limit", "full"}        \* what kind of failure fail() words

User(q) == <<"user", q>>
Bot(q) == <<"assistant", q>>

\* A new item and the run that reads into it.
Item(id, q) == [run |-> id, q |-> q, st |-> "live", of |-> 0, turn |-> 0, resend |-> 0]
Run(id, q, at, c, n) ==
  [id |-> id, q |-> q, at |-> at, aborted |-> FALSE, asks |-> c, in |-> 0, n |-> n,
   turn |-> 0, resumable |-> FALSE, text |-> FALSE, resumes |-> FALSE]

-----------------------------------------------------------------------------
(* The visible items and the kept copy.                                    *)

\* What happens to the item of run r; an item no longer in the log is out of sight.
OfRun(r, F(_)) == [i \in DOMAIN log |-> IF log[i].run = r.id THEN F(log[i]) ELSE log[i]]

\* Shown as an answer: thumbs name the conversation now open and the turn given.
Shown(item, turn) == [item EXCEPT !.st = "answered", !.of = IF turn = 0 THEN 0 ELSE conversation, !.turn = turn]

RetryOf_AnyRole(h) == IF h # <<>> THEN Last(h)[2] ELSE 0

\* Retry: the last question of the history, when nothing answered it.
RetryOf(h) == IF h # <<>> /\ Last(h)[1] = "user" THEN Last(h)[2] ELSE 0

\* Mutants stand before the definition they change: turns of another conversation are kept too.
Remember_Mixed(k, c, n, entry) == [conversation |-> c, asked |-> n, turns |-> Append(k.turns, entry)]

Remember_All(k, c, n, entry) ==
  [conversation |-> c, asked |-> n, turns |-> Append(IF k.conversation = c THEN k.turns ELSE <<>>, entry)]

\* The kept conversation with one more answered turn, the oldest dropped.
Remember(k, c, n, entry) ==
  LET turns == Append(IF k.conversation = c THEN k.turns ELSE <<>>, entry)
      from == IF Len(turns) > MaxKept THEN Len(turns) - MaxKept + 1 ELSE 1
  IN [conversation |-> c, asked |-> n, turns |-> SubSeq(turns, from, Len(turns))]

Save(r) ==
  /\ kept' = IF conversation = 0 \/ r.turn = 0 THEN kept
             ELSE Remember(kept, conversation, asked, [q |-> r.q, turn |-> r.turn, more |-> FALSE])
  /\ stored' = kept'

Settles_Always(r) == runs' = runs \ {r} /\ busy' = 0

\* The run ends; only the run that holds `busy` gives it back.
Settles(r) ==
  /\ runs' = runs \ {r}
  /\ busy' = IF busy = r.id THEN 0 ELSE busy

Moves(r, s) == runs' = (runs \ {r}) \cup {s}

\* The failure line of an item, its Retry or its new conversation.
Fail(item, word, h) ==
  [item EXCEPT !.st = IF word = "again" THEN "failed" ELSE word, !.resend = IF word = "full" THEN RetryOf(h) ELSE 0]

\* What stays of an item whose run was aborted.
Stopped(item) == IF item.st = "live" THEN [item EXCEPT !.st = "stopped"] ELSE item

-----------------------------------------------------------------------------
(* The visitor.                                                            *)

\* visitorToken(): the held promise, or a new one.
TokenAsked == IF visitor = "none" THEN "earning" ELSE visitor

\* submit and ask up to its first await, over the log and history given.
Asks(q, l, h, c, others) ==
  LET id == submits + 1
  IN /\ submits < MaxSubmits
     /\ submits' = id
     /\ log' = Append(l, Item(id, q))
     /\ history' = Append(h, User(q))
     /\ busy' = id
     /\ runs' = others \cup {Run(id, q, "token", c, 0)}
     /\ visitor' = TokenAsked
     /\ owed' = [owed EXCEPT ![q] = @ + 1]

Submit ==
  /\ busy = 0
  /\ typed < MaxTyped
  /\ typed' = typed + 1
  /\ Asks(typed + 1, log, history, conversation, runs)
  /\ UNCHANGED <<conversation, asked, kept, stored, service, loads, forgets, gone>>

\* Stop: what is read ends at once; a wait for the token ends when the token comes.
Stop ==
  \E r \in runs :
    /\ busy = r.id /\ ~r.aborted
    /\ IF r.at \in Waiting
       THEN Moves(r, [r EXCEPT !.aborted = TRUE]) /\ UNCHANGED <<busy, log>>
       ELSE Settles(r) /\ log' = OfRun(r, Stopped)
    /\ UNCHANGED <<conversation, asked, history, kept, visitor, stored, service, counters, observed>>

Aborted_None == runs

\* The runs an abort of `busy` leaves: those still waiting for a token.
Aborted == {IF r.id = busy THEN [r EXCEPT !.aborted = TRUE] ELSE r : r \in {s \in runs : s.id # busy \/ s.at \in Waiting}}

Left == {log[i].q : i \in DOMAIN log} \cup {kept.turns[i].q : i \in DOMAIN kept.turns}

NewConversation_StaysStored == conversation' = 0 /\ asked' = 0 /\ kept' = None /\ stored' = stored

NewConversation ==
  /\ conversation' = 0
  /\ asked' = 0
  /\ kept' = None
  /\ stored' = None

\* The button "New conversation", also while an answer streams.
Fresh ==
  /\ log # <<>>
  /\ NewConversation
  /\ history' = <<>> /\ log' = <<>>
  /\ runs' = Aborted /\ busy' = 0
  /\ gone' = gone \cup Left
  /\ UNCHANGED <<visitor, service, counters, owed>>

\* Retry under a failed answer: the history's last question, whichever item it is under.
Retry(i) ==
  /\ busy = 0
  /\ log[i].st = "failed"
  /\ RetryOf(history) # 0
  /\ Asks(RetryOf(history), RemoveAt(log, i), Front(history), conversation, runs)
  /\ UNCHANGED <<conversation, asked, kept, stored, service, loads, forgets, typed, gone>>

\* A used-up conversation offers a new one that asks the same question again.
AskAnew(i) ==
  /\ busy = 0
  /\ log[i].st = "full" /\ log[i].resend # 0
  /\ NewConversation
  /\ Asks(log[i].resend, <<>>, <<>>, 0, runs)
  /\ gone' = (gone \cup Left) \ {log[i].resend}
  /\ UNCHANGED <<service, loads, forgets, typed>>

-----------------------------------------------------------------------------
(* The token, and the request that carries it.                             *)

Earned ==
  /\ visitor = "earning"
  /\ visitor' = "held" /\ trusts' = TRUE
  /\ UNCHANGED <<conversation, asked, history, kept, log, busy, runs, stored, served, known, counters, observed>>

\* No challenge, no proof or no token: the promise is dropped, whoever awaits it fails.
NotEarned ==
  /\ visitor = "earning"
  /\ visitor' = "none"
  /\ runs' = {IF r.at \in Waiting THEN [r EXCEPT !.at = "none"] ELSE r : r \in runs}
  /\ UNCHANGED <<conversation, asked, history, kept, log, busy, stored, service, counters, observed>>

\* Mutant: a resume asks the question again, as a new run would.
TokenHeld_Posts(r) ==
  /\ r.at \in Waiting /\ visitor = "held"
  /\ IF r.aborted
     THEN Settles(r) /\ log' = OfRun(r, Stopped)
     ELSE Moves(r, [r EXCEPT !.at = IF r.at = "again" THEN "repost" ELSE "post"]) /\ UNCHANGED <<busy, log>>
  /\ UNCHANGED <<conversation, asked, history, kept, visitor, stored, service, counters, observed>>

\* The promise settled: the run goes on, an aborted one to its end; an old token is earned again first, also by an
\* aborted run, which asks nothing of its signal until it posts.
TokenHeld(r) ==
  /\ r.at \in Waiting /\ visitor = "held"
  /\ \/ /\ r.aborted
        /\ Settles(r) /\ log' = OfRun(r, Stopped)
        /\ UNCHANGED visitor
     \/ /\ ~r.aborted
        /\ Moves(r, [r EXCEPT !.at = IF r.resumes THEN "resume" ELSE IF r.at = "again" THEN "repost" ELSE "post"])
        /\ UNCHANGED <<busy, log, visitor>>
     \/ /\ r.at = "token" /\ ~r.resumes
        /\ visitor' = "earning"
        /\ Moves(r, [r EXCEPT !.at = "refresh"])
        /\ UNCHANGED <<busy, log>>
  /\ UNCHANGED <<conversation, asked, history, kept, stored, service, counters, observed>>

Fails(r, word) ==
  /\ Settles(r)
  /\ log' = OfRun(r, LAMBDA item : IF r.aborted THEN Stopped(item) ELSE Fail(item, word, history))

\* Mutant: nobody hears that the token was refused.
NoToken_Silent(r) == r.at = "none" /\ UNCHANGED vars

NoToken(r) ==
  /\ r.at = "none"
  /\ Fails(r, "again")
  /\ UNCHANGED <<conversation, asked, history, kept, visitor, stored, service, counters, observed>>

\* The service takes the question: into the conversation it names while it is held, else a new one.
Accepts(r) ==
  LET c == IF r.asks \in known THEN r.asks ELSE Len(served) + 1
      turns == IF c > Len(served) THEN <<>> ELSE served[c]
  IN /\ served' = [i \in 1..(IF c > Len(served) THEN c ELSE Len(served)) |-> IF i = c THEN Append(turns, r.q) ELSE served[i]]
     /\ known' = known \cup {c}
     /\ owed' = [owed EXCEPT ![r.q] = @ - 1]
     /\ Moves(r, [r EXCEPT !.at = "open", !.in = c, !.n = Len(turns) + 1])

\* The response of the chat. A token the service does not know is earned again, once.
Response(r) ==
  /\ r.at \in {"post", "repost"}
  /\ \/ /\ trusts
        /\ Accepts(r)
        /\ UNCHANGED <<busy, log, visitor>>
     \/ /\ ~trusts /\ r.at = "post"
        /\ visitor' = "earning"
        /\ Moves(r, [r EXCEPT !.at = "again"])
        /\ UNCHANGED <<busy, log, served, known, owed>>
     \/ /\ ~trusts /\ r.at = "repost"
        /\ Fails(r, "again")
        /\ UNCHANGED <<visitor, served, known, owed>>
     \/ /\ trusts
        /\ \E word \in Words : Fails(r, word)
        /\ UNCHANGED <<visitor, served, known, owed>>
  /\ UNCHANGED <<conversation, asked, history, kept, stored, trusts, counters, gone>>

\* The answer to a resume: every event of the turn again, while the service holds it.
Resumed(r) ==
  /\ r.at = "resume"
  /\ IF trusts /\ r.in \in known
     THEN Moves(r, [r EXCEPT !.at = "open"]) /\ UNCHANGED <<busy, log>>
     ELSE Fails(r, "again")
  /\ UNCHANGED <<conversation, asked, history, kept, visitor, stored, service, counters, observed>>

-----------------------------------------------------------------------------
(* The events of an answer.                                                *)

\* `conversation`: the id, and one more question counted in it.
Opened(r) ==
  /\ r.at = "open"
  /\ asked' = (IF r.in # conversation THEN 0 ELSE asked) + 1
  /\ conversation' = r.in
  /\ Moves(r, [r EXCEPT !.at = "text", !.turn = asked', !.resumable = TRUE])
  /\ UNCHANGED <<history, kept, log, busy, visitor, stored, service, counters, observed>>

\* `delta`: the text streams; `answer`: it is whole, its citations come next.
Streams(r) ==
  /\ r.at = "text"
  /\ \/ ~r.text /\ Moves(r, [r EXCEPT !.text = TRUE]) /\ UNCHANGED history
     \/ Moves(r, [r EXCEPT !.at = "answer"]) /\ history' = Append(history, Bot(r.q))
  /\ UNCHANGED <<conversation, asked, kept, log, busy, visitor, stored, service, counters, observed>>

\* `citations`: the answer is shown with them and kept.
Cited(r) ==
  /\ r.at = "answer"
  /\ log' = OfRun(r, LAMBDA item : Shown(item, r.turn))
  /\ Save(r)
  /\ Moves(r, [r EXCEPT !.at = "cited", !.text = FALSE])
  /\ UNCHANGED <<conversation, asked, history, busy, visitor, service, counters, observed>>

\* `followups`: kept with the answer they follow.
FollowUps(r) ==
  /\ r.at = "cited"
  /\ LET n == Len(kept.turns)
     IN /\ n > 0 /\ kept.turns[n].turn = r.turn /\ conversation = kept.conversation /\ ~kept.turns[n].more
        /\ kept' = [kept EXCEPT !.turns[n].more = TRUE]
  /\ stored' = kept'
  /\ UNCHANGED <<conversation, asked, history, log, busy, runs, visitor, service, counters, observed>>

\* `error`: a failed answer, in the stream.
ErrorEvent(r) ==
  /\ r.at = "text"
  /\ \E word \in Words : log' = OfRun(r, LAMBDA item : Fail(item, word, history))
  /\ Moves(r, [r EXCEPT !.at = "failed", !.text = FALSE])
  /\ UNCHANGED <<conversation, asked, history, kept, busy, visitor, stored, service, counters, observed>>

\* The stream ends: an answer whose citations never came is shown alone and kept, an item nothing came for stays
\* as it is, its status line still shown.
Ends(r) ==
  /\ \/ /\ r.at = "answer"
        /\ log' = OfRun(r, LAMBDA item : Shown(item, r.turn))
        /\ Save(r)
     \/ /\ r.at = "text" /\ r.text
        /\ log' = OfRun(r, LAMBDA item : Shown(item, r.turn))
        /\ UNCHANGED <<kept, stored>>
     \/ /\ r.at \in {"open", "cited", "failed"} \/ (r.at = "text" /\ ~r.text)
        /\ UNCHANGED <<log, kept, stored>>
  /\ Settles(r)
  /\ UNCHANGED <<conversation, asked, history, visitor, service, counters, observed>>

\* The connection is lost before the stream ends.
Lost(r) ==
  /\ r.at \in Reading \cup {"post", "repost", "resume"}
  /\ Fails(r, "again")
  /\ UNCHANGED <<conversation, asked, history, kept, visitor, stored, service, counters, observed>>

-----------------------------------------------------------------------------
(* A page change, and a restart of the service.                            *)

\* pagehide: the answer still streaming, when the service named its turn.
StreamingNow ==
  {[q |-> r.q, in |-> r.in, conversation |-> conversation, number |-> r.turn, n |-> r.n] :
     r \in {s \in runs : s.id = busy /\ s.resumable /\ conversation # 0}}

\* The kept turns shown again, each with thumbs of its number.
Again(k) == [i \in DOMAIN k.turns |->
  [Item(0, k.turns[i].q) EXCEPT !.st = "answered", !.of = k.conversation, !.turn = k.turns[i].turn]]

\* The history they carry: each question and its answer.
HistoryOf(k) ==
  [i \in 1..2 * Len(k.turns) |->
     LET q == k.turns[(i + 1) \div 2].q IN IF i % 2 = 1 THEN User(q) ELSE Bot(q)]

\* An answer goes on through its resume when the kept conversation is its own.
Resumes(s, k) == k = None \/ k.conversation = s.conversation

\* pagehide and the load of the next page: restore, then resume.
PageChange ==
  /\ loads < MaxLoads
  /\ loads' = loads + 1
  /\ kept' = stored
  /\ visitor' = "earning"
  /\ LET resumed == {s \in StreamingNow : Resumes(s, stored)}
         old == stored.turns # <<>>
     IN IF resumed = {}
        THEN /\ conversation' = IF old THEN stored.conversation ELSE 0
             /\ asked' = IF old THEN stored.asked ELSE 0
             /\ log' = Again(stored)
             /\ history' = HistoryOf(stored)
             /\ runs' = {} /\ busy' = 0
             /\ UNCHANGED submits
        ELSE LET s == CHOOSE s \in resumed : TRUE
                 id == submits + 1
             IN /\ conversation' = s.conversation
                /\ asked' = IF old /\ stored.asked > s.number THEN stored.asked ELSE s.number
                /\ log' = Append(Again(stored), Item(id, s.q))
                /\ history' = Append(HistoryOf(stored), User(s.q))
                /\ busy' = id
                /\ submits' = id
                /\ runs' = {[Run(id, s.q, "token", s.conversation, s.n)
                              EXCEPT !.in = s.in, !.turn = s.number, !.resumable = TRUE, !.resumes = TRUE]}
  /\ UNCHANGED <<stored, service, forgets, typed, observed>>

\* The service restarts: its conversations, turns and tokens are gone.
Forgets ==
  /\ forgets < MaxForgets
  /\ forgets' = forgets + 1
  /\ known' = {} /\ trusts' = FALSE
  /\ UNCHANGED <<page, stored, served, loads, submits, typed, observed>>

-----------------------------------------------------------------------------
Init ==
  /\ conversation = 0 /\ asked = 0 /\ history = <<>> /\ kept = None
  /\ log = <<>> /\ busy = 0 /\ runs = {} /\ visitor = "earning"
  /\ stored = None
  /\ served = <<>> /\ known = {} /\ trusts = FALSE
  /\ loads = 0 /\ forgets = 0 /\ submits = 0 /\ typed = 0
  /\ owed = [q \in 1..MaxTyped |-> 0] /\ gone = {}

Visitor ==
  \/ Submit
  \/ Stop \/ Fresh
  \/ \E i \in DOMAIN log : Retry(i) \/ AskAnew(i)
  \/ PageChange

Arrives(r) ==
  \/ TokenHeld(r) \/ NoToken(r) \/ Response(r) \/ Resumed(r)
  \/ Opened(r) \/ Streams(r) \/ Cited(r) \/ FollowUps(r) \/ ErrorEvent(r) \/ Ends(r) \/ Lost(r)

Network == Earned \/ NotEarned \/ \E r \in runs : Arrives(r)

Next == Visitor \/ Network \/ Forgets

Fairness == WF_vars(Network)

Spec == Init /\ [][Next]_vars /\ Fairness
-----------------------------------------------------------------------------
(* What the chat promises.                                                 *)

Questions == 1..typed
Runs == [id : Nat, q : Questions, at : Waiting \cup Reading \cup {"none", "post", "repost", "resume"},
         aborted : BOOLEAN, asks : Nat, in : Nat, n : Nat, turn : Nat,
         resumable : BOOLEAN, text : BOOLEAN, resumes : BOOLEAN]
Items == [run : Nat, q : Questions, st : {"live", "answered", "stopped", "failed", "limit", "full"},
          of : Nat, turn : Nat, resend : 0..typed]
Turns == [q : Questions, turn : Nat, more : BOOLEAN]
Conversations == [conversation : 0..Len(served), asked : Nat, turns : Seq(Turns)]

PageOK ==
  /\ conversation \in 0..Len(served) /\ asked \in Nat
  /\ history \in Seq({"user", "assistant"} \X Questions)
  /\ kept \in Conversations /\ Len(kept.turns) <= MaxKept
  /\ log \in Seq(Items) /\ busy \in 0..submits /\ runs \subseteq Runs
  /\ visitor \in {"none", "earning", "held"}

TypeOK ==
  /\ PageOK
  /\ stored \in Conversations /\ Len(stored.turns) <= MaxKept
  /\ served \in Seq(Seq(Questions)) /\ known \subseteq 1..Len(served) /\ trusts \in BOOLEAN
  /\ loads \in 0..MaxLoads /\ forgets \in 0..MaxForgets /\ submits \in Nat /\ typed \in 0..MaxTyped
  /\ owed \in [1..MaxTyped -> Nat] /\ gone \subseteq Questions

\* One answer at a time: a run that was not stopped is the one `busy` names, whatever an older
\* one still waits for, so a stopped or abandoned question never unlocks the box under another.
OneAnswerAtATime ==
  /\ \A r \in runs : ~r.aborted => busy = r.id
  /\ busy # 0 => \E r \in runs : r.id = busy

\* After "New conversation" nothing of the old one comes back: not from an answer under way, not
\* from a token that arrives late, not after a page change.
NothingComesBack ==
  /\ \A i \in DOMAIN log : log[i].q \notin gone
  /\ \A i \in DOMAIN history : history[i][2] \notin gone
  /\ \A i \in DOMAIN stored.turns : stored.turns[i].q \notin gone

\* A thumb names the conversation in which the service answered that question, also after the
\* service lost the conversation it continued and after a page change.
FeedbackStaysInItsConversation ==
  \A i \in DOMAIN log :
    log[i].of # 0 => \E n \in DOMAIN served[log[i].of] : served[log[i].of][n] = log[i].q

\* Nothing is asked again by itself: the service accepts a question at most once for each time it
\* was submitted. A post repeated with a new token is of a question it refused; a resume asks nothing.
AskedOncePerSubmit == \A q \in 1..MaxTyped : owed[q] >= Cardinality({r \in runs : r.q = q /\ r.at \in {"post", "repost"}})

\* One answer at a time, and nothing asked again by itself: a question stopped, left or retried never unlocks the box
\* under another, and the service accepts it at most once for each time it was submitted (widget.js:2650, 2655).
OneAnswerEach == OneAnswerAtATime /\ AskedOncePerSubmit

\* Conversations keep apart: nothing of one that was left comes back, late or after a page change, and a thumb names the
\* conversation in which the service answered (widget.js:1041, 2828).
ConversationsKeepApart == NothingComesBack /\ FeedbackStaysInItsConversation

\* A Retry takes back the question nothing answered, never an answered turn.
RetryKeepsTheAnswered ==
  [][(\E i \in DOMAIN log : Retry(i)) =>
       \A i \in DOMAIN history : history[i][1] = "assistant" => i \in DOMAIN history' /\ history'[i] = history[i]]_vars

\* Every question comes to an end and the box is given back, when the network answers or fails.
EveryQuestionSettles == \A id \in 1..MaxSubmits : (busy = id) ~> (busy # id)
-----------------------------------------------------------------------------
(* Why they hold: the run `busy` names is the only one that was not stopped, it owes its question, its question is of   *)
(* the conversation now open, and what is kept of a conversation the service asked there.                              *)

Asked(q, c) == c \in 1..Len(served) /\ \E n \in 1..Len(served[c]) : served[c][n] = q

OneRun ==
  /\ \A r \in runs : r.id \in 1..submits /\ (r.aborted => r.at \in Waiting \cup {"none"})
  /\ \A r, s \in runs : r.id = s.id => r = s
  /\ OneAnswerAtATime

Owes ==
  \A r \in runs :
    /\ (~r.aborted /\ ~r.resumes /\ r.at \in Waiting \cup {"post", "repost"}) => owed[r.q] > 0
    /\ r.at \in {"post", "repost"} => ~r.resumes

ItemsOfRuns ==
  \A i \in 1..Len(log) : log[i].run \in 0..submits /\ \A r \in runs : log[i].run = r.id => log[i].q = r.q

RunsBelong ==
  \A r \in runs :
    /\ busy = r.id => r.q \notin gone
    /\ (r.resumable \/ r.resumes \/ r.at \in Reading \cup {"resume"}) => Asked(r.q, r.in)
    /\ r.at \in Reading \ {"open"} => conversation = r.in

KeptBelong == kept = stored /\ \A i \in 1..Len(stored.turns) : Asked(stored.turns[i].q, stored.conversation)

ThumbsBelong == \A i \in 1..Len(log) : log[i].of # 0 => Asked(log[i].q, log[i].of)

IInv ==
  /\ TypeOK
  /\ OneRun /\ Owes /\ ItemsOfRuns /\ RunsBelong /\ KeptBelong /\ ThumbsBelong
  /\ NothingComesBack
=============================================================================
