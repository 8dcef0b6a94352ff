---------------------------- MODULE MCPayload -------------------------------
(***************************************************************************)
(* Exchanges of up to two responses, and chains of up to MaxChain bare     *)
(* ones, followed by the SSH server's bytes: without a body, with a fixed  *)
(* and with a chunked one, refusing and accepting statuses, some of them   *)
(* beyond the client's limits.                                             *)
(***************************************************************************)
EXTENDS Payload, SequencesExt

CONSTANT MaxChain   \* bound: responses in a chain

Responses == {
    Status(403) \o Blank,
    Status(101) \o Field \o Blank,
    Status(403) \o Field \o Length(1) \o Blank \o Raw("body"),
    Status(200) \o Length(3) \o Blank \o Raw("body") \o Raw("body") \o Raw("body"),
    Status(403) \o Chunked \o Blank \o Size(1) \o Raw("body") \o Blank
       \o Size(0) \o Field \o Blank,
    Status(200) \o Chunked \o Blank \o Size(3) \o Raw("body") \o Raw("body") \o Raw("body")
       \o Blank \o Size(1) \o Raw("body") \o Blank \o Size(0) \o Blank,
    Status(403) \o Field \o Field \o Field \o Blank }

\* Bodies beyond a limit: a chunk cut off in the middle, too many chunks.
OneChunk == Size(1) \o Raw("body") \o Blank
Oversized == {
    Status(200) \o Chunked \o Blank \o Size(7) \o Raw("body") \o Raw("body") \o Raw("body")
       \o Raw("body") \o Raw("body") \o Raw("body") \o Raw("body") \o Blank \o Size(0) \o Blank,
    Status(403) \o Chunked \o Blank \o OneChunk \o OneChunk \o OneChunk \o OneChunk
       \o Size(0) \o Blank }

Refused == Status(403) \o Blank
Switched == Status(101) \o Blank

Chains ==
    UNION {[1..n -> Responses] : n \in 0..2}
       \cup UNION {[1..n -> {Refused, Switched}] : n \in 3..MaxChain}
       \cup {<<r>> : r \in Oversized}
       \cup {<<Refused, Refused, r>> : r \in Responses \cup Oversized}

Exchanges == {FlattenSeq(c) \o SSH : c \in Chains}
=============================================================================
