-------------------------------- MODULE Synth ---------------------------------
(***************************************************************************)
(* The command line of the synthetic load, one more caller of Ingestion:   *)
(* the events of a scenario are cut into batches and sent one after        *)
(* another through the SDK client, until all are sent or one call raises.  *)
(***************************************************************************)
EXTENDS Ingestion

CONSTANTS Scripts,   \* what a scenario may generate
          BatchSize  \* BATCH_SIZE

ASSUME BatchAssumption == BatchSize \in Nat \ {0}
ASSUME ScriptAssumption ==
  \A items \in Scripts : /\ items \in Seq(Range(items))
                         /\ \A item \in Range(items) : item.lag \in Int

VARIABLES
  script,  \* the events of the scenario
  sending  \* the calls made for its batches, in order

synth == <<script, sending>>

chunked(items, size) ==
  [k \in 1..((Len(items) + size - 1) \div size) |->
     SubSeq(items, (k - 1) * size + 1, IF k * size < Len(items) THEN k * size ELSE Len(items))]

Created(k) == client[sending[k]] = "created"

\* The count the loop has reached.
Sent == SumFunctionOnSet([k \in DOMAIN sending |-> Len(batch[sending[k]])],
                         {k \in DOMAIN sending : Created(k)})

\* Mutant: a batch that raised is left out.
SendRegardless(c) ==
  /\ Len(sending) < Len(chunked(script, BatchSize))
  /\ \A k \in DOMAIN sending : client[sending[k]] # "waiting"
  /\ Post(c, chunked(script, BatchSize)[Len(sending) + 1])
  /\ sending' = Append(sending, c)
  /\ UNCHANGED script

\* The next batch, once the call before has returned: one that raises ends the loop.
SendBatch(c) ==
  /\ Len(sending) < Len(chunked(script, BatchSize))
  /\ \A k \in DOMAIN sending : Created(k)
  /\ Post(c, chunked(script, BatchSize)[Len(sending) + 1])
  /\ sending' = Append(sending, c)
  /\ UNCHANGED script

SynthInit == Init /\ script \in Scripts /\ sending = <<>>

SynthNext ==
  \/ Next /\ UNCHANGED synth
  \/ \E c \in Calls : SendBatch(c)

SynthSpec == SynthInit /\ [][SynthNext]_<<vars, synth>>

(***************************************************************************)
(* Properties.                                                             *)
(***************************************************************************)
\* The rows of the script, and the place of a row among them.
Mine == {n \in DOMAIN events : \E k \in DOMAIN sending : sending[k] = events[n].call}
Place(n) == Cardinality({m \in Mine : m <= n})

\* Whatever fails, what the table holds of a script is a beginning of it, each event
\* once and in order: all that the count says, and at most the one batch more whose
\* answer was lost.
ScriptIsStoredInOrder ==
  /\ Cardinality(Mine) \in Sent..(Sent + BatchSize)
  /\ \A n \in Mine :
       /\ Place(n) \in DOMAIN script
       /\ events[n].signature = script[Place(n)].signature
       /\ events[n].level = Level(script[Place(n)].level)
=============================================================================
