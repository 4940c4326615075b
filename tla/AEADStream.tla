------------------------------ MODULE AEADStream ------------------------------
(***************************************************************************)
(* The Shadowsocks 2022 cipher (proxy/shadowsocks/spec_2022.go).           *)
(*                                                                         *)
(* Stream mode: NewEncryptionWriter and NewDecryptionReader each build one *)
(* AEADAuthenticator from a subkey derived from (key, salt), and hand the  *)
(* same authenticator to the AEADChunkSizeParser and to the payload        *)
(* sealer, so the length and the payload of a chunk take consecutive       *)
(* nonces of one counter.  The AuthenticationWriter/Reader and the nonce   *)
(* generator are outside src/ and follow spec 4.1-4.2: a chunk is a        *)
(* sealed length then a sealed payload; every Seal and every Open takes    *)
(* the next nonce; a frame that does not open is fatal.                    *)
(*                                                                         *)
(* Packet mode: EncodePacket seals a datagram under a subkey from its own  *)
(* salt; DecodePacket rejects a datagram no longer than the salt, then     *)
(* opens it.                                                               *)
(*                                                                         *)
(* AEAD is ideal: a frame opens iff it was sealed under the same subkey    *)
(* and nonce and has not been altered.  Between writer and reader sits an  *)
(* attacker that drops, duplicates, swaps, alters and injects frames,      *)
(* including frames of another session of the same key.                   *)
(***************************************************************************)
EXTENDS Naturals, Sequences, SequencesExt, Functions

CONSTANTS
    Key,            \* the user's pre-shared key
    Salt,           \* this session's salt
    OtherSalt,      \* the salt of another session under the same key
    Payloads,       \* chunk contents
    MaxChunks,      \* chunks the writer writes
    MaxFrames,      \* frames in flight
    MaxAttacks      \* attacker steps

ASSUME Salt # OtherSalt

Roles   == {"size", "data"}
AuthIds == {"w", "w2", "r", "r2"}
SizeMsg == "size"   \* the plaintext of a length frame

\* Mutant: a subkey that does not depend on the salt.
SubKeyNoSalt(key, salt) == <<key, key>>

\* deriveKey: BLAKE3 DeriveKey over secret || salt, taken as injective.
SubKey(key, salt) == <<key, salt>>

\* Mutant: a chunk's length and payload sealed under separate counters.
NewEncryptionWriterSplit == [size |-> "w", data |-> "w2"]

\* NewEncryptionWriter: one authenticator for the size parser and payload.
NewEncryptionWriter == [r \in Roles |-> "w"]

\* Mutant: the reader gives the size parser an authenticator of its own.
NewDecryptionReaderSplit == [size |-> "r2", data |-> "r"]

\* NewDecryptionReader: one authenticator for the size parser and payload.
NewDecryptionReader == [r \in Roles |-> "r"]

VARIABLES
    wAuthOf,        \* the writer's authenticator for each role
    rAuthOf,        \* the reader's authenticator for each role
    ctr,            \* each authenticator's nonce counter
    sent,           \* chunks written
    sealed,         \* the (subkey, nonce) of every Seal, in order
    chan,           \* frames in flight, in order
    rPhase,         \* the reader expects "size" or "data", or has "failed"
    delivered,      \* chunks the reader returned
    attacks,        \* attacker steps taken
    psent,          \* datagrams encoded
    pnet,           \* datagrams on the network, altered copies included
    pdelivered      \* datagrams decoded

streamVars == <<wAuthOf, rAuthOf, ctr, sent, sealed, chan, rPhase, delivered>>
packetVars == <<psent, pnet, pdelivered>>
vars == <<streamVars, attacks, packetVars>>

\* A sealed frame: a length ("size") or a payload ("data").
Frame(key, n, kind, p) ==
    [key |-> key, nonce |-> n, kind |-> kind, p |-> p, intact |-> TRUE]

-----------------------------------------------------------------------------
(* Stream mode.                                                            *)

\* AuthenticationWriter.WriteMultiBuffer, one chunk: Seal the length with
\* the size parser's authenticator, then Seal the payload.
WriteChunk(p) ==
    LET a  == wAuthOf["size"]
        b  == wAuthOf["data"]
        c1 == [ctr EXCEPT ![a] = @ + 1]
        k  == SubKey(Key, Salt)
    IN /\ Len(sent) < MaxChunks
       /\ Len(chan) + 2 <= MaxFrames
       /\ sent' = Append(sent, p)
       /\ chan' = chan \o <<Frame(k, ctr[a], "size", SizeMsg), Frame(k, c1[b], "data", p)>>
       /\ sealed' = sealed \o <<<<k, ctr[a]>>, <<k, c1[b]>>>>
       /\ ctr' = [c1 EXCEPT ![b] = @ + 1]
       /\ UNCHANGED <<wAuthOf, rAuthOf, rPhase, delivered, attacks, packetVars>>

\* Whether frame f opens as a `role' under authenticator a of a reader keyed
\* by salt.  The reader takes 2 bytes plus a tag for a length and the
\* announced size for a payload, so a frame of the other kind does not open
\* (payloads of exactly 2 bytes are not modelled).
Opens(f, a, salt, role) ==
    /\ f.kind = role
    /\ f.key = SubKey(Key, salt)
    /\ f.nonce = ctr[a]
    /\ f.intact

\* Mutant: the length frame's plaintext returned as a chunk.
ReadFrameNoSizeParse ==
    LET f == Head(chan)
        a == rAuthOf[rPhase]
    IN /\ rPhase \in Roles
       /\ chan # <<>>
       /\ chan' = Tail(chan)
       /\ ctr' = [ctr EXCEPT ![a] = @ + 1]
       /\ IF Opens(f, a, Salt, rPhase) \/ Opens(f, a, Salt, "data")
          THEN /\ delivered' = Append(delivered, f.p)
               /\ rPhase' = IF rPhase = "size" THEN "data" ELSE "size"
          ELSE rPhase' = "failed" /\ UNCHANGED delivered
       /\ UNCHANGED <<wAuthOf, rAuthOf, sent, sealed, attacks, packetVars>>

\* AuthenticationReader: Open the next frame with the authenticator of the
\* current role, which takes a nonce whether or not it opens.  A length
\* that opens moves to the payload; a payload that opens is returned; a
\* frame that does not open ends the stream with an error.
ReadFrame ==
    LET f == Head(chan)
        a == rAuthOf[rPhase]
    IN /\ rPhase \in Roles
       /\ chan # <<>>
       /\ chan' = Tail(chan)
       /\ ctr' = [ctr EXCEPT ![a] = @ + 1]
       /\ IF Opens(f, a, Salt, rPhase)
          THEN IF rPhase = "size"
               THEN rPhase' = "data" /\ UNCHANGED delivered
               ELSE /\ delivered' = Append(delivered, f.p)
                    /\ rPhase' = "size"
          ELSE rPhase' = "failed" /\ UNCHANGED delivered
       /\ UNCHANGED <<wAuthOf, rAuthOf, sent, sealed, attacks, packetVars>>

\* The attacker on the connection.
Attack ==
    /\ attacks < MaxAttacks
    /\ attacks' = attacks + 1
    /\ \/ \E i \in 1..Len(chan) : chan' = RemoveAt(chan, i)
       \/ \E i \in 1..Len(chan) :
            Len(chan) < MaxFrames /\ chan' = InsertAt(chan, i, chan[i])
       \/ \E i \in 1..(Len(chan) - 1) :
            chan' = [chan EXCEPT ![i] = chan[i + 1], ![i + 1] = chan[i]]
       \/ \E i \in 1..Len(chan), q \in Payloads \cup {SizeMsg} :
            chan' = [chan EXCEPT ![i].intact = FALSE, ![i].p = q]
       \/ \E n \in 0..(2 * MaxChunks - 1), r \in Roles, p \in Payloads,
             i \in 1..(Len(chan) + 1) :
            /\ Len(chan) < MaxFrames
            /\ chan' = InsertAt(chan, i, Frame(SubKey(Key, OtherSalt), n, r,
                                               IF r = "size" THEN SizeMsg ELSE p))
    /\ UNCHANGED <<wAuthOf, rAuthOf, ctr, sent, sealed, rPhase, delivered,
                   packetVars>>

-----------------------------------------------------------------------------
(* Packet mode.  A datagram carries its own salt; the model uses the       *)
(* payload, sent once, as that fresh salt.                                 *)

\* EncodePacket: derive the subkey from the datagram's salt and seal.
EncodePacket(p) ==
    /\ p \notin psent
    /\ psent' = psent \cup {p}
    /\ pnet' = pnet \cup {[salt |-> p, p |-> p, intact |-> TRUE, long |-> TRUE]}
    /\ UNCHANGED <<streamVars, attacks, pdelivered>>

\* The attacker alters or truncates a copy of a datagram.
AttackPacket ==
    /\ attacks < MaxAttacks
    /\ attacks' = attacks + 1
    /\ \E x \in pnet :
         \/ \E q \in Payloads :
              pnet' = pnet \cup {[x EXCEPT !.intact = FALSE, !.p = q]}
         \/ pnet' = pnet \cup {[x EXCEPT !.long = FALSE]}
    /\ UNCHANGED <<streamVars, psent, pdelivered>>

\* DecodePacket: "insufficient data" up to the salt's length, else Open
\* under the subkey of the datagram's salt.  A rejected datagram changes
\* nothing.
DecodePacket(x) ==
    /\ x.long
    /\ x.intact
    /\ pdelivered' = pdelivered \cup {x.p}
    /\ UNCHANGED <<streamVars, attacks, psent, pnet>>

-----------------------------------------------------------------------------

Init ==
    /\ wAuthOf = NewEncryptionWriter
    /\ rAuthOf = NewDecryptionReader
    /\ ctr = [a \in AuthIds |-> 0]
    /\ sent = <<>>
    /\ sealed = <<>>
    /\ chan = <<>>
    /\ rPhase = "size"
    /\ delivered = <<>>
    /\ attacks = 0
    /\ psent = {}
    /\ pnet = {}
    /\ pdelivered = {}

Next ==
    \/ \E p \in Payloads : WriteChunk(p)
    \/ ReadFrame
    \/ Attack
    \/ \E p \in Payloads : EncodePacket(p)
    \/ AttackPacket
    \/ \E x \in pnet : DecodePacket(x)

\* The reader runs whenever there is a frame to read; the writer and the
\* attacker act when they like.
Spec == Init /\ [][Next]_vars /\ WF_vars(ReadFrame)

-----------------------------------------------------------------------------

TypeOK ==
    /\ ctr \in [AuthIds -> 0..(2 * MaxChunks + 1)]
    /\ sent \in Seq(Payloads) /\ delivered \in Seq(Payloads)
    /\ rPhase \in Roles \cup {"failed"}
    /\ attacks \in 0..MaxAttacks
    /\ psent \subseteq Payloads /\ pdelivered \subseteq Payloads

\* The writer never seals two frames under the same subkey and nonce: the
\* length and the payload of every chunk take distinct nonces of one
\* counter.
NonceNeverReused ==
    IsInjective(sealed)

\* With no attacker step, every chunk written is delivered: reader and
\* writer advance their counters in lock-step (spec 4.1).
CleanStreamDelivered ==
    \A k \in 1..MaxChunks :
        (Len(sent) >= k) ~> (Len(delivered) >= k \/ attacks > 0)

\* The stream refines AuthenticatedPipe: whatever the attacker does, the
\* reader delivers a prefix of what was written, in order, and nothing
\* after a failure.
Pipe == INSTANCE AuthenticatedPipe WITH failed <- (rPhase = "failed")

RefinesAuthenticatedPipe == Pipe!Spec
=============================================================================
