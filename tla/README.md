# A formal model of thalovant-embedded-c

TLA+ specifications of the C library a voice satellite links to talk to its hub, with TLC
configurations that check them on small instances and proofs that TLAPS checks for every instance.
`PROJECT.json` lists components, runs, hazards and theorems, and says for every definition which lines of
which file it stands for.

## 1. The system

The library has no threads, no allocation and no I/O. Every function works on memory its caller owns; an
application on a microcontroller calls it from its own event loop and moves the bytes over a WebSocket or
MQTT. The state that lives between calls is therefore small (a `thalovant_noise`, an audio budget, the
counts the application keeps for refusals), and what is hard is not shared memory but protocol: two ends
that call in an order of their own, over a transport that loses, repeats and reorders; a hub that answers
several questions in one session; functions that have to keep an order or a promise without memory to do
it in.

| component (source) | state | operations | interacts with | what makes it correct |
|---|---|---|---|---|
| Noise handshake (`noise.c`) | `thalovant_noise`: step, hash, chaining key, cipher key and counter, remote keys, pin | `select`, `init`, `write`, `read`, `split` | the peer's instance of the same functions, over the application's transport | whoever is ready is ready with the pinned peer of the same password and the same offer; both ends hold crossed keys; no counter is used twice under a key |
| Noise transport (`noise.c`) | two counters, two chunk states, `failed` | `encrypt`, `decrypt`, `fail` | the peer; the application's reassembly of chunks | what arrives is what was sent, in order; chunk runs are never mixed; failure is final |
| PSK derivation (`noise_psk.c`) | a hash buffer, 64 MB of blocks | Argon2id over one lane, BLAKE2b, the long hash | called before the handshake | every reference is to a block that is already there; streaming equals one shot |
| AES-GCM, SHA-256, X25519 (`aes_gcm.c`, `sha256.c`, `noise_curve.c`) | a hash buffer; else none | seal, open, digest, scalar multiplication | called by Noise and by the wire's envelopes | no keystream byte twice, tag before plaintext also in place; streaming equals one shot |
| Ask events (`ask.c`) | none | `classify`, `refusal_belongs_to_ask`, builders, extractors | the application's ask loop, which keeps deadlines and counts | a question gets its own answers and refusals |
| Reply media and claim (`ask.c`) | `thalovant_audio_budget` | `audio_decode`, `audio_budget_accept`, `reply_claimed` | the ask loop | the budget is never exceeded; a failed reply is never claimed |
| Intent inventory and fallback skills (`intents.c`) | none (cursors on the stack) | `classify`, walkers with callbacks, `skills_fallbacks`, samples, `same_language` | the application's callbacks | order, no repetition, no half list |
| JSON (`json.c`) | token array | tokenizer, lookups, shallow scans, string decoding, number readers | used by everything above | the tokenizer and the scans read the same document |
| Wire (`wire.c`) | none | JSON and binary frames, both envelopes, handshake reply, hello, authorization, URL | transport frames | what one end writes the other reads; nothing is cut; no bytes under a key that is not the hub's |
| Topics, identity (`topics.c`, `identity.c`) | `thalovant_identity` | topics of a prefix, endpoint upgrade and parse, identity parse | the application's dialler | it connects where it was told to, with TLS if it was told so |
| Codec, request helpers (`codec.c`, `request_helpers.c`) | none | hexadecimal and Base64, a pattern's sentence, a location | the application, the envelopes | bytes survive a round trip; a pattern becomes one of its own sentences |

How they interact: the application derives a PSK, selects a pattern, exchanges handshake messages (`write`
on one end feeds `read` on the other), then seals every frame with `encrypt` and opens every frame with
`decrypt`. The plaintext is a HiveMessage; the application hands it to `thalovant_ask_classify` once for
every question it waits for, or to `thalovant_intent_classify` and one of the walkers, which call back.
Nothing in the library calls the network, the clock or another component asynchronously.

The hard behaviours, each listed at its line in `PROJECT.json` under `hazards`: replayed and reordered
messages, within one connection and across a reconnect; counters at their end and after a wipe; two chunk
states on two machines that must never disagree; the KK attempt and its XX retry; refusals that carry no
request id; stale ids in a session; a sort done by rescanning; a list that turns out unreadable half way;
block boundaries between two calls of a streaming hash; buffers that are read and written at once; two
readers of one text; capacities, each with the case that just fits and the one that just does not.

## 2. Modules

    SecureChannel   <--implements--  NoiseTransport  <--proofs--  NoiseTransport_proofs
                                          | keys agree (assumed there, checked here)
    Noise  --operators-->  NoiseSession  --extended by-->  NoiseFallback  <--proofs--  NoiseSession_proofs
    SortedListing   <--implements--  SkillsFallbacks  <--proofs--  SkillsFallbacks_proofs
    AskEvents  --operators-->  AskLoop  <--proofs--  AskLoop_proofs
        |                 \--->  Reply        }
    WireMessage  --extended by-->  BinaryFrame  }  <--proofs--  Frames_proofs
                                   LegacyWire   }
    IntentEvents  --operators-->  Inventory  <--proofs--  Inventory_proofs
        \--operators-->  AskFields, Languages              <--proofs--  AskLoop_proofs
    OneShotHash  <--implements--  Sha256Stream  }  <--proofs--  Primitives_proofs
                                  Gcm, Codec,   }
                                  Connection    }
    OneShotHash  <--implements--  Blake2Stream  }  <--proofs--  NoisePsk_proofs
                                  Argon2Index   }
    JsonTokens  --extended by-->  JsonScan            (JsonTokens  <--proofs--  Frames_proofs)
    MCCrypto  = Argon2Index + Sha256Stream + Blake2Stream + Gcm, one at a time
    MCFrames  = Reply + BinaryFrame + LegacyWire (extended) + AskFields + Languages + RequestHelpers
                + Connection + Codec + Opening + JsonScan (twice) + JsonText + JsonNumber
    MC*         else: instantiate the module they are named after for TLC

**`Noise`** is `noise.c` as operators on the record `thalovant_noise`, one per function: `NoiseInit`,
`NoiseWrite`, `NoiseRead`, `NoiseEncrypt`, `NoiseDecrypt` and `NoiseSelect`, each returning the new state
and a code. The token loops of `write` and `read` are a recursive function over the index of the token,
as long as the longest message pattern (five tokens). Cryptography is
symbolic: a hash is the record of what went in, `DH` is the unordered pair of keys, a ciphertext names key,
counter, associated data and plaintext, and opens only under the same three. Every early return is there,
and every error wipes the state (`fail`).

**`NoiseSession`** puts two applications around it, a client and a hub. They connect and reconnect, call
`write` and `read` in and out of turn, with buffers that fit or miss by one byte; whatever was ever on
the wire can be read by either end, as it was, with its last item altered or cut. An end's configuration
(password, pin, offer, prologue) is an initial choice.

**`NoiseFallback`** drives the same actions the way `docs/noise-v3.md` tells an application to: each end
makes the call that is due, the transport delivers in order, a KK attempt that fails is retried once as XX.

**`NoiseTransport`** is the transport phase alone: the counters of `seal` and `unseal`, the chunk state of
`marker`, `encrypt`, `decrypt` and `fail`, over a set of ciphertexts that never shrinks. It implements
**`SecureChannel`**, an abstract pair of in-order channels with a sticky failure.

**`SkillsFallbacks`** is `thalovant_skills_fallbacks` one loop turn at a time: `ReadRow` (inner loop),
`Deliver` (a pass that found an id, and the callback's answer), `Finish`. Ids are numbers in `strcmp`'s
order. A row is what the scanner makes of it: its form, what its `session_id`, `capabilities` and
`skill_id` read as, including values that cannot be decoded or do not fit. It implements
**`SortedListing`**: report the smallest name left, or report nothing and say the list is unknown.

**`AskEvents`** is what `ask.c` makes of one frame: `Classify` with the three places and three names of a
request id, and `RefusalBelongs`. **`AskLoop`** is the loop `ask.h` and `docs/esp32-mqtt.md` describe for
applications, around these two functions: several questions, utterances nobody waits for and queries share
one session; every frame is classified for every question; deadlines are those of the documentation. The
loop itself is not C in this repository, so its definitions are marked external; the two functions it
depends on are the ones translated.

**`IntentEvents`** is the rest of `intents.c` but the samples walk: the language a query carries
(`QueryLangs`), `Classify` for all five kinds of reply, the two walkers (`Entry`, `Fill`, `Walk`) and the
walk over a denial's allow-list that counts in one call and delivers in another. **`Inventory`** is the
application the header `intents.h` describes around them: a listing; one of every language if that was
empty; descriptions of what was listed, sent together, one request id each. Its hub echoes the id in the
context, the session or the data, or nowhere; it answers plainly, with rows a walker passes over, with a
row it cannot read, with `ok: false`, with an error text that does not fit, or with a denial. Application
and hub are external; the queries and what is made of replies are the code's.

**`Reply`** collects one question's reply with the helpers of `ask.c`: the text (three places, a string or
an array's first element), the clips and the budget they are charged to in `size_t` arithmetic that
wraps, the stages of the pipeline that answered, the code and counts of a denial, and at the end
`reply_claimed`. Which frames come, and in which order, is any; `classify` of `AskEvents` says which count.
**`AskFields`** has the readers and builders of single fields: whitespace collapsed in place, a clip's
hexadecimal, the allow-list asked for by index, the payload with its hints. A list's rows are the kinds that
its three readers tell apart: a name, a blank, a form feed, an escaped NUL, a number, names too long for 64
or for 512 bytes, 64 spaces, an escape that cannot be decoded. **`Languages`** has trimming,
`same_language` (case, `_` for `-`, blanks around it), the language of an event, and a definition's samples.

**`Argon2Index`** walks Argon2id's lane block by block: pass, slice, index, the address block that is
regenerated as the walk goes, and the reference index from a pseudo-random word by the code's
multiplications and shifts; the word is any. **`Sha256Stream`** and **`Blake2Stream`** are the two buffers,
a loop turn at a time: `Update` is the call, `UpdateTurn` a memcpy that may fill the block, `Final`,
`PadTurn` and `Close` the padding. Byte *p* of a message is the number *p*, so the digest is the sequence of
bytes that reached the compression function. They implement **`OneShotHash`**: absorb, then the digest of
everything. **`Gcm`** lays keystream over one memory a byte at a time, in place or a few bytes behind its
input; a cell is a message byte under the keystream bytes that are on it.

**`JsonTokens`** is the tokenizer, one lexeme at a time, its recursion the stack of open containers.
**`JsonScan`** adds the two ways of reading the result: `skip` and `object_get` over tokens, the shallow
scans over the text. **`JsonText`** is where a string ends, what its escapes and surrogate pairs stand for
in a buffer of a given size, and how one is written, with the NUL byte among its symbols; **`JsonNumber`** what `check_primitive` lets through
and what `as_int`, `as_bool` and `is_truthy` take it for.

**`BinaryFrame`** writes and reads the binary frame bit by bit, with a hub that pads, versions and
compresses. **`WireMessage`** writes JSON frames and reads those whose members come in any order, twice,
as null or of another type. **`LegacyWire`** is a session of the pre-shared key envelopes with the
application `docs/linux-websocket.md:53-131` writes out (external, like every application here; what is
translated are the functions of `wire.c` it calls). `HandleFrame` is its `on_ws_text` and `handle_frame`:
a sealed frame is opened or dropped, a plain one is taken as it is, every offer is answered by another
hello, and once one was, a bus frame reaches the application, sealed or not. `SendFrame` is its `send_frame`:
in the clear before the first hello, sealed behind it, from a buffer that `Compose` writes and that nothing
keeps from being sent again after it was sealed. Its hub tells any message at any time, in the clear or
sealed, in hexadecimal or Base64 and with nonces of either length, and may hold another key.
**`Opening`** is what a connection is opened with (authorization, the URL that
carries it, the hello's payload, an MQTT client's name). **`Connection`** reads the identity with its
aliases and derives topics, the broker's address and its parts. **`Codec`** and **`RequestHelpers`** are the
files of the same names.

## 3. What is checked

| run | instance | what it shows |
|---|---|---|
| `noise_session` | one connection; every combination of two passwords, three pins, two prologues and the offers | `ReadyIsAuthenticated`, `NothingElseInClear`, `StaysInBounds` |
| `noise_replay` | two connections of one client and one hub, everything replayable | `MatchingConversations`, `KeysAgree`, `PeerCompleted`, `FramesFromPartner`, `OneSealPerNonce` |
| `noise_fallback` | the documented drive, all configurations, at most two connections | `CompatibleEndsConnect`, `AttemptsSettle`, `PinOutlivesFallback` |
| `noise_transport` | two ends, all seven markers, counters to 3, fair delivery | `ReceivedIsPrefix`, `OneFramePerNonce`, `StreamsWellChunked`, `AuthenticIsAdmitted`, `FailureIsFinal`, `ImplementsChannel`, `SentIsReceived` |
| `skills_fallbacks` | every list of up to three of fourteen kinds of row, a callback that may stop | `SortedAndComplete`, `UnknownReportsNothing`, `ImplementsListing`, `Terminates` |
| `inventory` | a listing, the listing of every language, two descriptions; three manifests, five allow-lists | `AnswersAreOwn`, `KnownIsComplete`, `AllMeansAll`, `AllowedIsReadable` |
| `ask_loop` | two questions, an utterance, a query | `RefusalIsOwn`, `RepliesAreOwn`, `SpeechIsHeard` |
| `crypto` | see the bounds | `WalkIsSound`, `DigestsAreOneShot`, `SealedAndOpened` |
| `frames` | see the bounds | `MediaWithinBudget`, `ClaimIsEarned`, `RepliesAreWhole`, `FieldsAreWhole`, `DocumentsAreOne`, `FramesAreRead`, `EnvelopesHold` |
| `noise_diagnosis` | violated | a pinned XX client cannot tell a changed password from a changed hub key |
| `ask_bare` | violated | the bare payload handed to `classify` is ignored |
| `json_trust` | violated | a backslash before a NUL byte is checked as an escape and refused when decoded |

Each property is stated with its meaning where it is defined. Every one is also checked to fail for at
least one plausible bug: the modules keep those variants beside the definition they vary (comments that
begin with "mutant"); no specification uses them.

`MCCrypto` and `MCFrames` hold several small components that share nothing: the initial value of `part`
chooses one, only its actions are taken, and a property whose name covers several parts is a conjunction of
the parts' own, guarded by `part`. `MCFrames` has fourteen parts; two of them are the same document
modules with different inputs, well-formed documents (longer) and any sequence of lexemes (shorter). Pure
functions are checked this way against a reference definition: the state is an input built up piece by
piece, so every input within the bound is a state.

What the properties of the two say, part by part:

- `WalkIsSound`: each block of each pass is filled once; any word refers to a block that holds something,
  is not the one being made nor the one before it; the address block in use is the index's.
- `DigestsAreOneShot`: `OneShot!Spec` for both hashes, and the long hash is the chain of digests of its RFC.
- `SealedAndOpened`: what is opened is what was sealed, no byte of anything else is released, no keystream
  byte lies over two bytes; `MaxLength` crosses the block and the counter's wrap.
- `MediaWithinBudget`, `ClaimIsEarned`, `RepliesAreWhole`: the clips kept fit the budget and the budget
  counts exactly them; a reply is claimed exactly if it was handled, nothing said after its last miss failed
  it, and a speech asserts it, a stage that is no fallback answered or none gave its name; text, stages and
  counts are those of the question's own frames.
- `FieldsAreWhole`: fields, patterns, addresses, bytes, openings and tags are read and written whole or
  refused. Two details: a sentence is one of its pattern's (`PatternsAreSpoken`), and TLS that was asked
  for is kept (`TlsIsKept` in `Connection`). Of a denial's list: asking for index 0, 1, 2 ... gives every
  type up to a row that cannot be read, in order and once, and a smaller buffer moves no type to another
  index (`IndexIsTheList`). The other reader, `thalovant_intent_allowed_types`, is *not* the same function:
  it trims what `isspace` accepts where `ask.c` trims four characters, copies 64 bytes where `ask.c` copies
  512, delivers an entry `"\u0000"` as an empty C string where `ask.c` skips it, and has no pool of tokens to
  exhaust. So a list with a form feed or such a NUL shifts the indices of one against the other.
  `ReadersAgree` states the rest: without these rows, and within the pool, they find as many types and end
  with the same code.
- `DocumentsAreOne`: sizes are children, spans nest as the parents say, an accepted document is one value
  with nothing left open; `skip` passes exactly a token's span, the scans and the tokens find the same
  member, what the scans read of any text the tokenizer accepts, numbers and strings are what they were
  meant as. An escape that passed the check is refused by `unescape` only if it is a NUL's
  (`CheckedIsEnough`).
- `FramesAreRead`: both kinds of frame are read as written or refused for a reason.
- `EnvelopesHold`: there are as many hellos as offers that could be read, everything else is in the clear
  before the first and sealed behind it (`HelloAnswersOffer`); no nonce is used twice and no sealed frame
  carries the message itself, and the hub opens one to its message exactly if the buffer had not been
  sealed before, by a send that succeeded or by one whose envelope did not fit (`SealedOnce`); the
  application is given exactly the bus frames behind an offer that came in the clear or under its key and
  fit its buffer, in order (`GivenIsTold`). Two things follow that the documentation does not spell out:
  the key authenticates what is sealed and nothing else, since a plain bus frame is taken too; and a
  buffer that is sent again without being rebuilt goes out as a frame that verifies and says nothing.

**Bounds and why they are enough.** Two connections let a message of one reach the other, and the reused
ephemeral, stale key or unreset counter they look for needs no third. One frame per session and connection
suffices beside `NoiseTransport`, which looks at frames in detail; there a counter to 3 gives a first,
middle and last chunk in one direction and reaches the counter's end, which stands for `UINT64_MAX`. Three
rows are the least with a repetition and a smaller id listed after a larger one. In `Inventory` two
descriptions are what can be crossed, and the manifests are an empty one, one without the default language
and one with an intent in two. A hub that does not echo ids is assumed not to repeat a reply (the code
gives nothing to tell a repetition by), and one that says ok to send its list. In `AskLoop` the clock
runs to 4 with a grace of 2 and an overall wait of 3, so a question can be sent, given up and followed by a
refusal's deadline; two questions are what "the only one out" can be got wrong with.

In `crypto`, slices of 5 blocks and address blocks of 2 words make a slice no whole number of address
blocks; three passes are the code's; half a word has 23 values, more than a lane has blocks; blocks of 4
bytes with messages of up to 13 cross three boundaries and include every remainder, with and without room
for the length; GCM has blocks of 2, lengths to 5 and 4 counters, so a counter wraps. In `frames` a reply is
up to four frames (text, clip, refusal, end), a clip's size reaches one beyond its maximum and the media
budget, and `SizeMax` is where `size_t` wraps. Documents have up to eleven lexemes and depth two, or six
lexemes of any kind with any tail; patterns up to four pieces, some of them of several characters so that
nesting is reached; each buffer has a size that an input just fits and one it just does not. Where the
code's constant is large (512, 65535, 2^63) the instance's is small and an input reaches it.

`MaxTime`, `MaxConnections`, `MaxFrames`, `MaxRows` and the other `Max...` marked so in their declaration
are bounds of the model, not of the code. Deadlock is checked for the Noise runs; a finished walk
(`SkillsFallbacks`), an application with all its answers (`Inventory`), a session with everything said at
the end of the clock (`AskLoop`), a closed hash (`MCCrypto`) and an input at its bound (`MCFrames`) really
stop, so it is off there.

**Fairness.** Safety assumes none. `SentIsReceived` assumes of the environment that a ciphertext
an end is ready for is offered to it again and again until it takes it (`DecryptNext`). `NoiseFallback`
assumes that the two applications make the call that is due and that the transport delivers: this is weak
fairness of the next-state relation with its enabling condition `Due` written out, since evaluating
ENABLED over the token loops is too slow for TLC. `Terminates` assumes that a running C function goes on and
that the callback returns; `CallsReturn` (of SHA-256) that a loop that was entered goes on. That a question
ends though the hub is silent is not stated: it depends on the application's deadlines alone.

**The three disagreements.** `docs/noise-v3.md:23-24` says XX tells a changed password from a changed hub
key: for a pinned client `thalovant_noise_read` returns `THALOVANT_ERR_AUTH` with the state wiped for
both. `docs/esp32-mqtt.md:171-173` lets the application hand the bare bus payload to
`thalovant_ask_classify`: it has no `msg_type`, so the event is ignored and the question runs into its
deadline. The comment at `json.c:66-67` says `string_end` checks escapes so that `thalovant_json_unescape`
can trust the bytes: it looks an escape up with `strchr` (`json.c:97`), which finds the NUL at the end of
the list too, so a backslash before a NUL byte is accepted there and refused when it is decoded.

**An observation.** `thalovant_mqtt_endpoint` compares the scheme with case, `thalovant_endpoint_parse` does
not: an address spelled `MQTT://` is not upgraded when TLS is set, and is then parsed as plain `mqtt`.
No document says otherwise; `TlsIsKept` states exactly this exception.

## 4. What is proved

For every value of the constants, from the named assumptions only.

*`NoiseSession_proofs`* (`SessionAssumption`: two distinct ends, neither of them named as the stranger whose
key stands for a wrong pin; natural bounds; pins among none, the peer's and another's). Connections,
frames, passwords, prologues and buffer sizes are any. What the runs check of a session is not inductive:
that a ready end has its peer's key says nothing of why the ciphertext it accepted could not have been made
by anybody else. The invariant (`SessionInvariant`) has three parts.

- *Provenance.* Everything sealed that is or was on the wire was sealed by an end in a step it has behind
  it: a row of `Rows` says for each pattern at which length of the transcript, by which role, in which step,
  under how long a chaining key and with which counter (`FromHandshake`); or it is a frame of a session that
  became ready (`FromSession`).
- *Shape.* A live end's state is what its step and configuration make it: transcript and chaining key of
  the length the step has (`HashLen`, `CkLen`), beginning with the pattern's name, its own prologue and the
  premessages, with its ephemeral key and the password at their places, keys derived from exactly that
  chain, counters at zero before and the histories' lengths after.
- *Sessions.* A completed session has crossed keys of one chain with its own ephemeral key in it, and its
  last ciphertext was on the wire (`CompletedOK`); and what each end knows after it read the peer's word
  (`KnowsPeer`, `HasPeersWord`).

A read that succeeds opens a ciphertext of some row. Lengths and names leave one row, the transcript in
its associated data makes the two conversations one, and the ephemeral key in the chain makes the writer
the peer. Decomposed by step of the handshake and by role, this is the inductive step (`NextKeeps`). From
it: `ReadyIsAuthenticatedHolds`, `NothingElseInClearHolds`, `StaysInBoundsHolds`,
`MatchingConversationsHold`, `KeysAgreeHolds`, `PeerCompletedHolds`, `FramesFromPartnerHolds`,
`OneSealPerNonceHolds`, `PinsHoldAlways`. And `FallbackIsASession` (`FallbackAssumption`: one of the
buffer sizes is the ample one): what the documented drive does is a behaviour of `NoiseSession`, so all
of that holds of it, and `PinOutlivesFallbackHolds`. The cryptography in these proofs is the model's:
symbols that are equal only if they were made of the same things.

*`NoiseTransport_proofs`* (`TransportAssumption`: two distinct ends, a natural counter limit, and bytes
nobody sealed are no ciphertext). The inductive invariant adds to `TypeOK` and `ReceivedIsPrefix` what ties
the live counters to the histories: every ciphertext is the frame its sender's history holds at its counter
(`NetworkIsHistory`), a live end's counters are the lengths of its histories (`CountersAreLengths`), and its
chunk states are what the histories say (`ChunkStates`). `ReceivedIsPrefix` alone is not inductive: nothing
in it says that the ciphertext at the receiver's counter is the next frame sent. The theorems:
`TypeCorrect`, `PrefixDelivery`, `NonceUniqueness`, `AdmissionAgreement`, `Reassembly`, `FailureFinality`,
and `Refinement` to `SecureChannel`.

*`SkillsFallbacks_proofs`* (`FallbacksAssumption`: ids are positive numbers, replies are of the shape the
classifier leaves). Beyond the two properties the invariant says that `found` is the smallest listed id of
the rows read above the last one delivered (`FoundIsSmallest`), that the rows read were readable
(`ReadIsSound`), that once something was delivered the whole list was (`DeliveredIsSound`, from which a later
pass cannot fail) and that `last` is the last one delivered. The theorems: `TypeCorrect`, `SortedDelivery`,
`AllOrNothing`, and `Refinement` to `SortedListing`.

*`AskLoop_proofs`* (`AskAssumption`: finite disjoint sets; a denial comes within the grace window and before
a question is given up; ids are not blank). `RefusalIsOwn` is not inductive: what carries it is
`PrematureEnds`, that a question which is over though the hub has not said a word about it has sat out its
deadline. So a thing the hub may still refuse is a question that waits, a query without an answer or an
utterance within its grace, and is counted: with counts 1, 0 and 0 it can only be the question itself. The
theorems: `TypeCorrect`, `RefusalAttribution`, `ReplyCorrelation`, and `SpeechHeard`, whose hypothesis is
that events are handed over as the frames they came in: it is what the run `ask_bare` is without.
The texts events and definitions carry (`Languages`, `LanguagesAssumption`: the bound on arrays is a
number) and the fields of frames (`AskFields`, `FieldsAssumption`: buffers have sizes) are in the same
module. They need no invariant but that texts and arrays are sequences; the work is in the loops. Each is a
function over the places of its input, and is brought into a closed form by counting places (`Upto`: how
many of some places come no later than one, `UptoReaches`: the *k*-th is there and is one). The two loops of
`trimmed` find the one inner text there is (`InnerOne`), so that being one language is having one spelling
(`SpellingIs`, `TagsGrouped`). The samples delivered are the ones up to where the walk has to stop
(`Delivered`, `WalkedIs`). The text that is collapsed in place has its kept places in front and is untouched
behind them (`Squeezed`), which a step keeps because it never writes past what it has read (`SqueezeSpace`,
`SqueezeWord`). A clip's bytes are its digits two by two (`Pairs`, `Half`, `AudioStepIs`, `PairsFit`), a
pipeline's list alternates (`Opened`, `PipelineStepIs`), and an index into an allow-list is a count of types
before the first row that cannot be read (`ReadTo`, `AskedIndex`), from which both `IndexIsTheList` and, by
counting what the other reader's walk passes, `ReadersAgree` follow. `TextsAreTakenHolds` and `FieldsAreWholeHolds` are `TextsAreTaken` and
`FieldsAreWhole` of the two modules, for texts and arrays of every length and buffers of every size.

*`Inventory_proofs`* (`InventoryAssumption`: request ids, intents and languages are not among the values
that stand for nothing, and a hub has registered finitely many intents). `OwnOrUnsaid`, that a frame
classified for a request is ignored, refused, or carries that request's id or none, and
`DenialsAreReadable`, that the count a denial announces is what the second walk delivers unless an entry is
too long to copy, are about the operators and hold for every frame, so they need no induction. The
invariant of the application around them (`InventoryInvariant`) says that every reply on the wire is the one
reply of a query that was sent, or a foreign one (`WireOK`), and that where the hub echoes no id a reply
that was taken is not there a second time (`SpentOK`). The last is what the properties lack: where nothing
in a reply says whose it is, only this keeps the listing of every language from being answered by a
repetition of the first listing. `AnswersAreOwnHolds`, `KnownIsCompleteHolds` and
`AllMeansAllHolds` follow, for any number of intents, languages and descriptions.

*`Frames_proofs`*, replies (`ReplyAssumption`: limits are natural numbers a `size_t` holds, the clip's
within the reply's; sizes in frames are those a `size_t` holds; a stage of a pipeline is not one of the
error names; a number field is at most one number). The budget's part is that it is within its maximum and
is exactly the sum of the clips kept; then what is left never wraps and a clip that is let through fits
(`AcceptsWhatFits`), whatever sizes a hub sends: `MediaBounded`. The invariant of the whole reply
(`ReplyInvariant`) ties each thing collected to the history of frames: every text is kept or counted as an
error (`SpeechOK`), the stages are those of the frames heard, each once (`StagesOK`), each flag is what some
frame said and no later one took back (`FlagsOK`), the allowance is the refusal's (`QuotaOK`), and if no
clip was dropped the budget is all that was offered (`OfferedOK`). `ClaimHolds` says that `reply_claimed` is
then what the frames say of the reply, and `RepliesHold` that nothing collected was cut, invented or taken
from a lesser field.

Its second part is envelopes (`WireAssumption`: lengths are natural numbers, "none" is no message, a
payload's members and the hub's encodings are the ones listed). What was sealed once need not stay so by
itself: a nonce is fresh only because all earlier ones are below the count, and whether a buffer was sealed
before shows only in the keystreams on it. The invariant (`EnvelopeInv`) says for the node that each of its
frames is a hello, a plain one with no hello before it, or a sealed one behind a hello, whose nonce is below
the count and whose only keystream is that nonce's exactly if its buffer had not been sealed before; that
the keystreams on the buffer are below the count too; and that there are as many hellos as offers taken
(`NodeInv`). For the hub it says that what has not arrived is the tail of what it told, frame by frame, and
that the node is greeted exactly if an offer was among what arrived (`HubInv`); for the inbox that it is the
bus frames behind an offer, each at the place that counts them (`InboxInv`). `HandleKeeps` and `SendKeeps`
are the two steps with work in them. `EnvelopesHoldHolds` follows, for any messages, buffers and numbers of
frames, a hub that offers again and a node that seals a buffer again included.

Its third part is the two kinds of frame. JSON (`MembersAssumption`: capacities and lengths are natural
numbers): what is read of a member list of any length, order and repetition is each name's first member
(`GetIsFirst`), and of what the node wrote every field is read back, or refused because of its own length
(`MembersAreReadHolds`). Binary (`BitsAssumption`: texts are sequences of bytes, shorter than 256 where they
are metadata): `decode` is a chain of reads at a moving bit position, so the invariant (`BitsInv`, `OnWire`)
keeps for a frame what its author meant, where each of its fields lies, and that the bits on the wire are
its beginning up to whole bytes that were lost. A field read at its place is what was written there
(`ReadsNumber`: if the sums of `read_uint` were not the number's quotients, there would be a least bit where
they part, and one more bit cannot part them), a read beyond the end is refused, and the padding in front of
a hub's frame ends where its first set bit is. `BitsAreReadHolds` says
that `decode` answers what was meant, or refuses for a version, a compression, a capacity or a cut frame;
`FramesAreReadHolds` combines both.

Its fourth part is the tokenizer (`JsonAssumption`: bounds are natural numbers, there is room for a token,
and a lexeme is of one kind). That a token's size counts its children is not inductive alone: a key counts
its value only when the value ends, and which key that is follows from what is open. So the invariant
(`TokensInv`) says that exactly the open tokens are on the stack, the first token at the bottom, each a
child of the array below it or of a key of the object below it that still waits (`StackOK`, `Link`,
`Waits`); that what is looked for goes with it, a value in an object only behind a waiting key (`ExpectOK`);
and that a parent is an array, an object or the key just before (`ParentsOK`). It holds after every lexeme
of every text, an error included (`TokensInductive`). `TokensNestAlways` follows: sizes are children, spans
nest, and an accepted document is one value, for any depth, length and size of the token array. This is
what `DocumentsAreOne` says of the tokens, and what `skip` and `object_get` take for granted.

*`NoisePsk_proofs`*, Argon2 (`ArgonAssumption`: slices of more than two blocks, address blocks of more than
one word). The invariant says which blocks of this pass are filled (`FilledOncePerPass`), that the address
block at hand is the one that holds the index's word (`AddressIsOfIndex`), and that a slice starts without
one (`StartsWithout`). That a reference is ready does not need induction: it follows from the arithmetic of
the index, whose two divisions leave a number below the area for any word (`WalkSound`). BLAKE2b
(`BlakeAssumption`: sizes are positive). Before the last block, what was compressed and what is in the
buffer are the beginning of the message, the marks are the multiples of a block, none of them last, and the
buffer is empty only before the first byte (`Absorbing`). That last part is what makes the number of
compressions the number of blocks a message needs, so that none is added behind a message of whole blocks:
`BlakeRefinement` to `OneShotHash`. The long hash: the chain with its closed form in place of each call is
one turn of the loop (`LinksTurn`), so the recursive definition has a value and it is the one its turns say
(`ChainUnrolled`), and there is no least length at which the two differ (`ChainIs`). `LongHashChained` says it
is the chain of RFC 9106 for every length and size of digest. With `Refinement` below, all of
`DigestsAreOneShot` but `CallsReturn`.

*`Primitives_proofs`*, SHA-256 (`ShaAssumption`: the length field is shorter than a block). The invariant
says that what was compressed is whole blocks, that it and the buffer are the beginning of the message
(`Content`), and that the padding's zeros have not passed the place of the length (`Progress`). The last
needs two facts of arithmetic, that the padded size is the fewest whole blocks with room (`SizeFits`) and
that different whole numbers of blocks are a block apart (`WholeApart`). `Refinement`: every way of cutting
a message into updates implements `OneShotHash` with the padded message of FIPS 180-4 as the digest. GCM
(`GcmAssumption`: a message has fewer blocks than there are counters, as the code's 32-bit counter and
`size_t` lengths of a microcontroller have it). The running counter is a function of how many bytes are done
(`CounterAfter`), so byte *k* is under the keystream byte `PadOf` of it and under no other; two pads of one
message differ though the counter wraps (`PadsApart`). While a call opens, the bytes done are bare where
they belong and the rest of the input is untouched though the output runs over it (`Decrypting`). That
nothing else is opened is `GhashInjective`: what GHASH is given, padded, with both lengths behind it,
determines the two parts. `SealingHolds` is `SealedAndOpened`. The codec (`CodecAssumption`: bytes are
bytes, digits are digits, `INT_MAX` and the buffers' sizes are numbers). Its two round trips and its reading
of any text are `BytesAreKept`, the part of `FieldsAreWhole` about bytes, and the invariant under it is only
that texts and bytes are sequences of such; the work is in the operators. What the decoder holds after *n*
good digits has a closed form, the last two digits, 0, 6, 4 or 2 bits not taken yet and the bytes that are
complete (`Held`), which a step keeps (`StepHolds`) and the whole loop reaches, up to the first bad digit or
to the end (`LoopIs`, `LoopEnds`). Bit *k* of a byte is then a bit of the digit it came from (`SpelledBits`),
an encoded text has its bytes' bits where the decoder looks for them (`CodedIs`), and its padding is the one
the decoder accepts, also when it was taken off (`CodedDecodes`). `BytesAreKeptHolds`: for bytes and texts
of every length, every buffer and every `INT_MAX`. Addresses and identities (`ConnectionAssumption`: an
address is of the symbols it can have, sizes and ports are numbers, both MQTT schemes have a port). The
invariant is again only that; what is proved is about the parser. Trimming leaves the one part with nothing
but slashes and spaces around it (`TrimIs`, `BaseIs`). An address that is parsed comes apart at three places,
each the first of its kind (`FirstIs`, `DigitsEnd`, `ApartIs`), and a port that stayed within `PortMax` is
the number its digits write, since the sum stops growing once it is beyond (`SumIsTotal`). The upgraded
address differs from the one asked for in its first symbol and perhaps a last slash (`Follows`), and neither
moves the separator, the host or the port (`SameSep`, `SameHost`, `SamePort`). A field has a text exactly if
its first alias that is not null is one (`AliasIs`). `ConnectsAsAskedHolds` is the part of `FieldsAreWhole`
called `ConnectsAsAsked`.

Only model-checked: liveness (`SentIsReceived`, `CompatibleEndsConnect`, `AttemptsSettle`, `Terminates`,
`CallsReturn`), which is out of the prover's reach; and what recursive operators compute, which would need
induction over data: of `FieldsAreWhole` patterns and openings, and of `DocumentsAreOne` what reads the
tokens and the text (`skip`, the scans, strings and numbers). `TypeCorrect` of the transport, the fallback
skills and the ask loop, `PinsHold` and the invariants are proved and are not properties of a run.

## 5. What is left out

- Numeric kernels: X25519, AES, GHASH, the compression functions of SHA-256 and BLAKE2b, Argon2's block
  mixing. Symbolic where a module needs them; they have test vectors. The AES-256 entry points of
  `aes_gcm.c` are the AES-128 code with another block cipher and are not mapped a second time.
- Lexemes: in `JsonTokens` a string or a primitive is one symbol, in `JsonText` four hexadecimal digits
  are. The value of a repeated key is only scanned shallowly. A Base64 ciphertext with an escaped slash
  is read raw by the code; the hub of `LegacyWire` does not write one. Ids with an embedded NUL are left
  out.
- `qos` of an identity (it falls back to 1), how a location's coordinates are printed, an endpoint with a
  fragment, a user agent with a colon (a hub splits at the first one), a language that is a number (an
  event ignores it, an intent reads it).
- A binary envelope of an empty message: `len <= 32` refuses it on both sides, as in the Node client.
- What `thalovant_intent_classify` leaves in its result when it returns an error, and errors of
  `thalovant_ask_classify` for texts or ids that do not fit: the hub of `AskLoop` sends ones that do; `Reply`
  has the ones that do not.
- Version and configuration headers, test and vector tools: no state and no interaction.

## 6. Plan

Done, in order: Noise, transport, fallback skills, ask loop, inventory; reply, fields and languages; the
hash buffers, Argon2's walk and GCM; JSON; wire, topics, identity, codec, request helpers. The code under
`src/src` that is left is numeric kernels. Proofs, in order: the transport, the fallback skills, the ask
loop; Argon2's walk and SHA-256; the handshake and its documented drive; the inventory; the whole reply;
BLAKE2b, the long hash and GCM; the envelopes and both kinds of frame; the tokenizer; the codec; languages and
samples; the fields of frames; addresses and identities. What is left: patterns and openings, as far as they
can be written without recursion.
