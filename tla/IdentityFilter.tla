---------------------------- MODULE IdentityFilter ----------------------------
(***************************************************************************)
(* The capture filter of src/src/capture.rs: one action per byte of the    *)
(* loop in feed() and one for what follows the loop.  Chunks are numbered  *)
(* from 1 in the order they are fed and stand for the values handed back;  *)
(* `released` joins the vectors the calls of feed() return.                *)
(***************************************************************************)
EXTENDS Naturals, Sequences, FiniteSets

CONSTANTS
  Bytes,            \* the values of a COBS byte; the delimiter is apart
  Excluded,         \* the COBS contents for which frame_excluded holds
  MaxFrameBytes,    \* MAX_FRAME_BYTES
  MaxHeldChunks,    \* MAX_HELD_CHUNKS
  MaxChunks,        \* bound on the chunks fed
  MaxChunkBytes     \* bound on the bytes of one chunk

ASSUME FilterAssumption ==
  /\ Excluded \subseteq Seq(Bytes)
  /\ MaxFrameBytes \in Nat \ {0} /\ MaxHeldChunks \in Nat \ {0}
  /\ MaxChunks \in Nat /\ MaxChunkBytes \in Nat

VARIABLES
  frame,       \* COBS bytes of the frame in progress
  tainted,     \* the frame in progress is dropped whatever its type
  held,        \* chunks carrying part of the frame in progress
  keep,        \* local of feed(): nothing in this chunk has been excluded
  released,    \* the chunks cleared for recording, in order
  chunk,       \* number of the chunk being fed
  size,        \* bytes of it fed so far
  content,     \* history: all bytes of the frame in progress
  number,      \* history: the number of that frame
  carries,     \* history: <<c, f>>, chunk c carries a byte or the closing
               \*   delimiter of frame f, or has none but ends within it
  safe,        \* history: the complete frames that are not Excluded
  overrun      \* history: the frames past one of the two bounds

filter == <<frame, tainted, held, keep, released>>
history == <<content, number, carries, safe, overrun>>
vars == <<filter, chunk, size, history>>

Init ==
  /\ frame = <<>>
  /\ tainted = FALSE
  /\ held = <<>>
  /\ keep = TRUE
  /\ released = <<>>
  /\ chunk = 1
  /\ size = 0
  /\ content = <<>>
  /\ number = 1
  /\ carries = {}
  /\ safe = {}
  /\ overrun = {}

(* The next byte of the chunk; the handle byte in front is skipped. *)
Feeds ==
  /\ chunk <= MaxChunks
  /\ size < MaxChunkBytes
  /\ size' = size + 1
  /\ UNCHANGED chunk

Marks == carries' = carries \cup {<<chunk, number>>}

FeedByte(b) ==
  /\ Feeds
  /\ IF Len(frame) < MaxFrameBytes
     THEN frame' = Append(frame, b) /\ UNCHANGED <<tainted, overrun>>
     ELSE tainted' = TRUE /\ overrun' = overrun \cup {number} /\ UNCHANGED frame
  /\ content' = Append(content, b)
  /\ Marks
  /\ UNCHANGED <<held, keep, released, number, safe>>

NothingOpen == frame = <<>> /\ ~tainted

(* A delimiter with no frame in front of it. *)
FeedSeparator ==
  /\ Feeds
  /\ NothingOpen
  /\ UNCHANGED <<filter, history>>

(* Mutant: a frame past the bounds is judged by the bytes kept of it. *)
DropsUntainted == frame \in Excluded

Drops == tainted \/ frame \in Excluded

(* Mutants: the chunks held come back before the earlier ones; not at all. *)
ReleasesHeldFirst == held \o released
ReleasesNothing == released

Releases == released \o held

(* A delimiter that ends a frame. *)
FeedDelimiter ==
  /\ Feeds
  /\ ~NothingOpen
  /\ IF Drops
     THEN keep' = FALSE /\ UNCHANGED released
     ELSE released' = Releases /\ UNCHANGED keep
  /\ held' = <<>>
  /\ frame' = <<>>
  /\ tainted' = FALSE
  /\ content' = <<>>
  /\ number' = number + 1
  /\ safe' = IF content \in Excluded THEN safe ELSE safe \cup {number}
  /\ Marks
  /\ UNCHANGED overrun

(* After the loop: the bound on held chunks, then this chunk itself. *)

(* Mutant: the bound only forgets the chunks held. *)
OverHeldForgets == FALSE

OverHeld == Len(held) >= MaxHeldChunks
Held == IF OverHeld THEN <<>> ELSE held
Tainted == tainted \/ OverHeld

(* Mutant: the chunk is judged by its last frame alone. *)
ClearsForgetful == ~Tainted

Clears == keep /\ ~Tainted

EndChunk ==
  /\ chunk <= MaxChunks
  /\ tainted' = Tainted
  /\ overrun' = IF OverHeld THEN overrun \cup {number} ELSE overrun
  /\ IF Clears /\ frame = <<>>
     THEN released' = Append(released, chunk) /\ held' = Held
     ELSE /\ held' = IF Clears THEN Append(Held, chunk) ELSE Held
          /\ UNCHANGED released
  /\ keep' = TRUE
  /\ chunk' = chunk + 1
  /\ size' = 0
  /\ IF content # <<>> THEN Marks ELSE UNCHANGED carries
  /\ UNCHANGED <<frame, content, number, safe>>

Next ==
  \/ \E b \in Bytes : FeedByte(b)
  \/ FeedSeparator \/ FeedDelimiter \/ EndChunk

Spec == Init /\ [][Next]_vars

-----------------------------------------------------------------------------
(* The variables keep their types, and what the filter holds in memory stays *)
(* within the two bounds.                                                   *)
TypeOK ==
  /\ frame \in Seq(Bytes) /\ Len(frame) <= MaxFrameBytes
  /\ tainted \in BOOLEAN
  /\ held \in Seq(Nat) /\ Len(held) <= MaxHeldChunks
  /\ keep \in BOOLEAN
  /\ released \in Seq(Nat)
  /\ chunk \in Nat
  /\ size \in Nat
  /\ content \in Seq(Bytes)
  /\ number \in Nat
  /\ carries \subseteq Nat \X Nat
  /\ safe \subseteq Nat
  /\ overrun \subseteq Nat

Elements(s) == {s[i] : i \in DOMAIN s}
FramesOf(c) == {mark[2] : mark \in {m \in carries : m[1] = c}}

(* No chunk holding any byte of an identity-bearing frame is released, nor  *)
(* one carrying its closing delimiter, nor one of a frame still open: every *)
(* frame of a released chunk is complete and not Excluded (feed; the type's *)
(* doc comment).                                                            *)
NoLeak == \A c \in Elements(released) : FramesOf(c) \subseteq safe

(* Nothing else is held back: once a chunk has been fed and its frames are  *)
(* complete, not Excluded and within the bounds, it has been released.      *)
NoLoss ==
  \A c \in 1 .. chunk - 1 :
    FramesOf(c) \subseteq safe \ overrun => c \in Elements(released)

(* Chunks come back oldest first and none comes twice, across the calls of  *)
(* feed().                                                                  *)
OldestFirst == \A i, j \in DOMAIN released : i < j => released[i] < released[j]
===============================================================================
