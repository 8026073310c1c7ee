----------------------------- MODULE JniStreams -----------------------------
(***************************************************************************)
(* The asset streams of src/src/jni_shim.c: what AssetManager.open gives   *)
(* the game for a file, with the two shortcuts for music.xwb.  The copy    *)
(* that the WaveBank constructor makes of the whole bank ends where the    *)
(* metadata ends; the blocks that the streaming worker reads only to get   *)
(* to its track are turned into a seek.                                    *)
(*                                                                         *)
(* A stream has one user, who reads it in one of three ways: "copy" is     *)
(* Stream.CopyTo, "track" discards up to an offset in blocks of at most    *)
(* Block and reads on, "plain" makes any call.  A position stands for a    *)
(* stretch of the file.                                                    *)
(***************************************************************************)
EXTENDS JniObjects

CONSTANTS MaxStreams,   \* bound: streams opened
          Length,       \* bound: of the file
          MetadataEnd,  \* where WaveData begins in the bank
          Block,        \* 0x8000, the most that the worker discards at a time
          CopyCount,    \* 81920, the least that CopyTo asks for
          TrackOffsets  \* where the worker's tracks begin

\* "nenhum limite de payload e multiplo de 0x8000" (jni_shim.c:580-581).
ASSUME StreamsAssumption ==
  /\ MaxStreams \in Nat /\ {Length, MetadataEnd, Block, CopyCount} \subseteq Nat \ {0}
  /\ MetadataEnd < Length /\ Block < CopyCount
  /\ \A o \in TrackOffsets : o \in MetadataEnd..(Length - 1) /\ \A k \in 0..o : o # k * Block

VARIABLES
  stream,  \* the fake_streams; only an open one has a file
  user     \* who reads it: how, through which token, how far by its own count, the last answer

streamVars == <<stream, user>>

StreamIds == 1..MaxStreams
IsOpen(s) == stream[s].state = "open"
LogicalEnd(s) == IF stream[s].limit > 0 THEN stream[s].limit ELSE Length

\* What the shim finds behind the user's token: fake_object_payload.
Behind(s) == PayloadOf(user[s].token)

NoStream == [state |-> "unused", pos |-> 0, meta |-> 0, limit |-> 0, phase |-> 0]
NoUser == [way |-> "none", token |-> Nothing, left |-> 0, count |-> 0,
           answer |-> "none", inspected |-> FALSE]

\* The call returned n bytes, or -1.
Answer(s, n, how) ==
  [user EXCEPT ![s].count = IF how = "end" THEN @ ELSE @ + n,
               ![s].left = IF how = "end" THEN @ ELSE IF n > @ THEN 0 ELSE @ - n,
               ![s].answer = how,
               ![s].inspected = user[s].left = 0]

-----------------------------------------------------------------------------
\* asset_stream_open and the "open" of CallObjectMethodA.  The bank's header may
\* be refused (xwb_music_metadata_end), and then it is a file like any other.
\* When the object table is full, the caller gets a token without a payload.
Open(way) ==
  \E s \in StreamIds :
    /\ stream[s].state = "unused" /\ \A r \in 1..(s - 1) : stream[r].state # "unused"
    /\ \E meta \in IF way = "plain" THEN {0} ELSE {0, MetadataEnd},
          left \in IF way = "track" THEN TrackOffsets ELSE {0} :
         /\ stream' = [stream EXCEPT ![s] = [NoStream EXCEPT !.state = "open", !.meta = meta]]
         /\ user' = [user EXCEPT ![s] = [NoUser EXCEPT !.way = way, !.token = NewToken, !.left = left]]
    /\ objects' = WithObject("java.io.InputStream", s)
    /\ UNCHANGED <<reg, single, singleLock, making, looperReady, told>>

\* A variant that frees the stream and leaves the object's payload.
CloseKeepingPayload(s) ==
  /\ IsOpen(s) /\ Behind(s) # Nothing
  /\ stream' = [stream EXCEPT ![Behind(s)].state = "freed"]
  /\ UNCHANGED <<user, objectVars>>

\* asset_stream_close: a second one finds no payload and does nothing.
Close(s) ==
  /\ IsOpen(s) /\ Behind(s) # Nothing
  /\ stream' = [stream EXCEPT ![Behind(s)].state = "freed"]
  /\ objects' = WithPayload(user[s].token, Nothing)
  /\ UNCHANGED <<user, reg, single, singleLock, making, looperReady, told>>

-----------------------------------------------------------------------------
\* asset_stream_read_array, once the array and its range were found good.
ReadsNothing(s) ==       \* no stream behind the token, or its logical end
  /\ user' = Answer(s, 0, "end")
  /\ UNCHANGED stream

\* The first read tells the copy of the bank from the worker's discard.
Limits(s, offset, count) ==
  stream[s].limit = 0 /\ stream[s].meta > 0 /\ stream[s].pos = 0 /\ offset = 0 /\ count >= CopyCount
StartsSkip(s, offset, count) ==
  /\ stream[s].limit = 0 /\ stream[s].meta > 0 /\ stream[s].phase = 0
  /\ stream[s].pos = 0 /\ offset = 0 /\ count <= Block

\* A variant that goes on skipping after the short block.
SkipBlockOn(s, count) ==
  /\ count <= Length - stream[s].pos
  /\ stream' = [stream EXCEPT ![s].pos = @ + count, ![s].phase = 1]
  /\ user' = Answer(s, count, "skipped")

\* A block that nobody will look at: a seek; the first short one ends the skip, and
\* what is still to be discarded after it is read.
SkipBlock(s, count) ==
  /\ count <= Length - stream[s].pos
  /\ stream' = [stream EXCEPT ![s].pos = @ + count,
                              ![s].phase = IF count < Block THEN 2 ELSE 1]
  /\ user' = Answer(s, count, "skipped")

\* fread of what is left up to the logical end.
ReadBytes(s, limit, phase, count) ==
  LET end == IF limit > 0 THEN limit ELSE Length
      n == IF count < end - stream[s].pos THEN count ELSE end - stream[s].pos
  IN IF n <= 0
     THEN /\ user' = Answer(s, 0, "end")
          /\ stream' = [stream EXCEPT ![s].limit = limit, ![s].phase = phase]
     ELSE /\ user' = Answer(s, n, "real")
          /\ stream' = [stream EXCEPT ![s].pos = @ + n, ![s].limit = limit, ![s].phase = phase]

Read(s, offset, count) ==
  IF Behind(s) = Nothing THEN ReadsNothing(s)
  ELSE LET r == Behind(s)
           limit == IF Limits(r, offset, count) THEN stream[r].meta ELSE stream[r].limit
           skipping == stream[r].phase = 1 \/ (limit = 0 /\ StartsSkip(r, offset, count))
       IN IF skipping /\ count <= Length - stream[r].pos
          THEN SkipBlock(r, count)
          ELSE ReadBytes(r, limit, IF skipping THEN 2 ELSE stream[r].phase, count)

\* The calls of a user, with the array it reads into of the given length.
UserReads(s, length) ==
  /\ IsOpen(s)
  /\ \E offset \in 0..length, count \in 1..length :
       /\ offset + count <= length
       /\ user[s].way = "copy" => offset = 0 /\ count = length /\ length >= CopyCount
       /\ user[s].way = "track" =>
            offset = 0 /\ (user[s].left > 0 => count <= user[s].left /\ count <= Block)
       /\ Read(s, offset, count)
  /\ UNCHANGED objectVars

\* asset_stream_read_byte: one byte below the logical end.
ReadByte(s) ==
  /\ IsOpen(s) /\ user[s].way = "plain"
  /\ IF Behind(s) = Nothing THEN ReadsNothing(s)
     ELSE ReadBytes(s, stream[s].limit, stream[s].phase, 1)
  /\ UNCHANGED objectVars

\* asset_stream_available: what it promises is what a read can get.
Available(s) == IF Behind(s) = Nothing THEN 0 ELSE LogicalEnd(Behind(s)) - stream[Behind(s)].pos

\* asset_stream_skip: a seek within the logical end, which the user asked for.
Skip(s) ==
  /\ IsOpen(s) /\ user[s].way = "plain" /\ Available(s) > 0
  /\ \E count \in 1..Length :
       LET n == IF count < Available(s) THEN count ELSE Available(s)
       IN /\ stream' = [stream EXCEPT ![s].pos = @ + n]
          /\ user' = [user EXCEPT ![s].count = @ + n]
  /\ UNCHANGED objectVars

-----------------------------------------------------------------------------
StreamsInit ==
  /\ stream = [s \in StreamIds |-> NoStream]
  /\ user = [s \in StreamIds |-> NoUser]

-----------------------------------------------------------------------------
\* The user of a stream is where it thinks it is, sees the bytes of the file
\* wherever it looks, and is told of the end only at the end: of the metadata for
\* the constructor's copy of the bank, of the file for everybody else
\* (jni_shim.c:565-601).
BytesAreReal ==
  \A s \in StreamIds : IsOpen(s) /\ user[s].token # Saturated =>
    /\ stream[s].pos = user[s].count
    /\ user[s].inspected => user[s].answer # "skipped"
    /\ user[s].answer = "end" =>
         user[s].count = IF user[s].way = "copy" /\ stream[s].meta > 0 THEN stream[s].meta ELSE Length

\* Each open stream belongs to one object, so that a close will find it, and no
\* object leads to a stream that was freed; only a full object table loses one.
StreamsReachable ==
  /\ \A o \in DOMAIN objects : objects[o].payload # Nothing => IsOpen(objects[o].payload)
  /\ \A s \in StreamIds : IsOpen(s) =>
       \/ Len(objects) = MaxObjects /\ user[s].token = Saturated
       \/ {o \in DOMAIN objects : objects[o].payload = s} = {user[s].token}
=============================================================================
