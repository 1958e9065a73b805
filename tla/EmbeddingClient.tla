--------------------------- MODULE EmbeddingClient ---------------------------
(***************************************************************************)
(* One embed job's use of the provider (embeddings.rs, and the second half *)
(* of worker/embed_document.rs): the inputs go out in batches, each answer *)
(* is sorted, counted and measured, the first failure ends the attempt, and *)
(* the vectors are paired with the prepared chunks by position.  A failed  *)
(* job comes back, after a short delay or when its claim is stale, and     *)
(* starts over.                                                            *)
(*                                                                         *)
(* Inputs are numbered from 1.  A vector is known by the input it was      *)
(* computed from and by the attempt that asked for it.                     *)
(***************************************************************************)
EXTENDS Naturals, FiniteSets, Sequences, SequencesExt

CONSTANTS
  BatchSizes,   \* the values of max_batch_size to check
  MaxInputs,    \* bound: chunks of a document
  MaxAttempts   \* bound: times the job is claimed

ASSUME BatchAssumption ==
  BatchSizes \subseteq Nat \ {0} /\ MaxInputs \in Nat /\ MaxAttempts \in Nat \ {0}

VARIABLES
  limit,     \* max_batch_size
  inputs,    \* number of prepared chunks
  call,      \* idle, sending, retryable, permanent, embedded or stored
  attempt,   \* how often the job was claimed
  sent,      \* the batches of this attempt, as [from, to) ranges of inputs
  vectors,   \* the vectors collected in this attempt
  faithful,  \* history: every answer of this attempt told which vector is whose
  rows       \* input -> the vector stored for it; empty before the commit

embedVars == <<limit, inputs, call, attempt, sent, vectors, faithful, rows>>

-----------------------------------------------------------------------------
(* The provider.                                                            *)

\* The items of a correct answer to inputs lo..hi, in some order: an index
\* within the batch, the vector, and whether it has the model's dimensions.
Items(lo, hi, order) ==
  [i \in 1..(hi - lo + 1) |->
     [index |-> order[i] - 1, of |-> lo + order[i] - 1, fits |-> TRUE]]

Orders(k) == {o \in [1..k -> 1..k] : \A i, j \in 1..k : i # j => o[i] # o[j]}

RightAnswers(lo, hi) == {Items(lo, hi, o) : o \in Orders(hi - lo + 1)}

\* Ways an answer can be wrong: an index, the size of a vector, their number.
WrongIndex(a)  == {[a EXCEPT ![i].index = x] : i \in DOMAIN a, x \in 0..Len(a)}
WrongSize(a)   == {[a EXCEPT ![i].fits = FALSE] : i \in DOMAIN a}
WrongNumber(a) == {Tail(a), Append(a, a[1])}
WrongAnswers(lo, hi) ==
  UNION {WrongIndex(a) \cup WrongSize(a) \cup WrongNumber(a) : a \in RightAnswers(lo, hi)}

\* An answer without indexes (serde rejects one item without an index, so all of
\* them have the same number).
Unnumbered(lo, hi) ==
  [i \in 1..(hi - lo + 1) |-> [index |-> 0, of |-> lo + i - 1, fits |-> TRUE]]

Answers(lo, hi) == RightAnswers(lo, hi) \cup WrongAnswers(lo, hi) \cup {Unnumbered(lo, hi)}

\* The answer says which vector is whose: each index once and right, or no
\* index at all and the order of the inputs.
SaysWhoseIsWhose(items, lo, hi) ==
  \/ \A i \in lo..hi : \E j \in DOMAIN items : items[j].index = i - lo /\ items[j].of = i
  \/ \A j \in DOMAIN items : items[j].index = 0 /\ items[j].of = lo + j - 1

-----------------------------------------------------------------------------
(* parse_response_vectors and the batches.                                  *)

\* Mutant of InIndexOrder: the items are taken as they come.
AsReceived(items) == items

\* sort_by_key(index), which is stable: the item that k - 1 others go before.
GoesBefore(items, a, b) ==
  \/ items[a].index < items[b].index
  \/ items[a].index = items[b].index /\ a < b

InIndexOrder(items) ==
  [k \in DOMAIN items |->
     items[CHOOSE a \in DOMAIN items :
             Cardinality({b \in DOMAIN items : GoesBefore(items, b, a)}) = k - 1]]

Accepted(items, k) == Len(items) = k /\ \A i \in DOMAIN items : items[i].fits

\* Mutant of BatchEnd: the end is taken from the batch's number, so the last
\* batch may reach past the inputs.
BatchEndUnclipped(from) == from + limit

\* chunks(max_batch_size): where the batch that starts at offset `from` ends.
BatchEnd(from) == IF from + limit < inputs THEN from + limit ELSE inputs

\* batch_index * batch_size: the start of the next batch.
BatchStart == Len(sent) * limit

-----------------------------------------------------------------------------
EmbedInit ==
  /\ limit = 0 /\ inputs = 0 /\ call = "idle" /\ attempt = 0
  /\ sent = <<>> /\ vectors = <<>> /\ faithful = TRUE /\ rows = <<>>

\* The handler has prepared n chunks, one at least, and calls embed.
BeginCall(n) ==
  /\ call = "idle" /\ n \in 1..MaxInputs
  /\ inputs' = n
  /\ limit' \in BatchSizes
  /\ call' = "sending"
  /\ attempt' = attempt + 1
  /\ UNCHANGED <<sent, vectors, faithful, rows>>

\* One batch is sent and not answered: classify_request_error makes a failure
\* to connect, to send or to answer in time worth a short retry; a body that
\* breaks off, or an error of another kind, is not.
BatchFails(cause) ==
  /\ call = "sending" /\ BatchStart < inputs
  /\ call' = IF cause \in {"connect", "timeout", "request", "send_body"}
             THEN "retryable" ELSE "permanent"
  /\ UNCHANGED <<limit, inputs, attempt, sent, vectors, faithful, rows>>

\* The provider answers with a status that is not a success; server errors are
\* worth a short retry, everything else (also "too many requests") is not.
BatchRefused(status) ==
  /\ call = "sending" /\ BatchStart < inputs
  /\ call' = IF status = "5xx" THEN "retryable" ELSE "permanent"
  /\ UNCHANGED <<limit, inputs, attempt, sent, vectors, faithful, rows>>

\* The provider answers and the answer decodes; the first answer that does not
\* have one vector of the right size per input ends the attempt.
BatchAnswered ==
  /\ call = "sending" /\ BatchStart < inputs
  /\ LET from == BatchStart
         to == BatchEnd(from)
     IN \E items \in Answers(from + 1, to) :
          /\ sent' = Append(sent, [from |-> from, to |-> to])
          /\ faithful' = (faithful /\ SaysWhoseIsWhose(items, from + 1, to))
          /\ IF Accepted(InIndexOrder(items), to - from)
             THEN /\ vectors' = vectors \o [i \in DOMAIN items |->
                       [of |-> InIndexOrder(items)[i].of, attempt |-> attempt]]
                  /\ UNCHANGED call
             ELSE call' = "permanent" /\ UNCHANGED vectors
  /\ UNCHANGED <<limit, inputs, attempt, rows>>

\* All batches are answered; embed returns.
CallReturns ==
  /\ call = "sending" /\ BatchStart >= inputs
  /\ call' = IF Len(vectors) = inputs THEN "embedded" ELSE "permanent"
  /\ UNCHANGED <<limit, inputs, attempt, sent, vectors, faithful, rows>>

\* The rows are zipped with the vectors and committed.
StoreRows ==
  /\ call = "embedded"
  /\ rows' = [i \in 1..inputs |-> vectors[i]]
  /\ call' = "stored"
  /\ UNCHANGED <<limit, inputs, attempt, sent, vectors, faithful>>

\* Mutant of Retry: the vectors collected so far are kept for the next attempt.
RetryKeepsVectors ==
  /\ call \in {"retryable", "permanent"} /\ attempt < MaxAttempts
  /\ call' = "sending" /\ attempt' = attempt + 1
  /\ faithful' = TRUE
  /\ UNCHANGED <<limit, inputs, rows, sent, vectors>>

\* The job is claimed again, after the delay or when its claim is stale, by a
\* process that may have been restarted with another batch size.
Retry ==
  /\ call \in {"retryable", "permanent"} /\ attempt < MaxAttempts
  /\ call' = "sending" /\ attempt' = attempt + 1
  /\ limit' \in BatchSizes
  /\ sent' = <<>> /\ vectors' = <<>> /\ faithful' = TRUE
  /\ UNCHANGED <<inputs, rows>>

\* What happens once the handler has called (BeginCall).
EmbedNext ==
  \/ \E c \in {"connect", "timeout", "request", "send_body", "answer_body", "decode"} :
       BatchFails(c)
  \/ \E s \in {"4xx", "5xx"} : BatchRefused(s)
  \/ BatchAnswered \/ CallReturns \/ StoreRows \/ Retry

-----------------------------------------------------------------------------
(* Properties.                                                              *)

\* "One vector per input, in the same order" (EmbeddingClient::embed), through
\* batching, sorting and pairing: every chunk is stored with the vector of its
\* own text, whatever order the provider's items came in, provided its answers
\* say whose is whose.
ChunkGetsOwnVector ==
  call = "stored" /\ faithful => \A i \in DOMAIN rows : rows[i].of = i

\* A document is stored whole and from one attempt: no vector of an earlier,
\* failed attempt survives, even if batches of it had been answered.
StoredWholeFromOneAttempt ==
  call = "stored" =>
    /\ DOMAIN rows = 1..inputs
    /\ \A i \in DOMAIN rows : rows[i].attempt = attempt

\* The batches of an attempt are consecutive, not empty, within max_batch_size,
\* and cover all inputs, each once, by the time the call returns; the offsets
\* computed from the batch number, which error messages name, are the real ones.
BatchesTileInputs ==
  /\ \A i \in DOMAIN sent :
       /\ sent[i].from < sent[i].to /\ sent[i].to <= inputs
       /\ sent[i].to - sent[i].from <= limit
       /\ sent[i].from = IF i = 1 THEN 0 ELSE sent[i - 1].to
  /\ call \in {"embedded", "stored"} => Last(sent).to = inputs

=============================================================================
