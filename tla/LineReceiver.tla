---------------------------- MODULE LineReceiver ----------------------------
(***************************************************************************)
(* How a pool's lines come out of what its socket delivers. There are two  *)
(* receivers, and one of them is looked at:                                *)
(*                                                                         *)
(*   "secondary"  components/dual_pool/stratum_recv_ctx.c: polls, and      *)
(*                keeps what it has in an accumulator of the session       *)
(*   "primary"    STRATUM_V1_receive_jsonrpc_line in                       *)
(*                components/stratum/stratum_api.c: reads until there is a *)
(*                line, and keeps the rest in one static buffer            *)
(*                                                                         *)
(* A byte is a newline or not, and of the session that sent it. A read     *)
(* delivers any number of bytes, as the network has cut the stream up. One *)
(* of them may be a NUL: strncat stops at it, so what the buffer gets of a *)
(* read is what comes before, and no buffer ever holds a NUL of the pool's.*)
(* A step is one call of the secondary's receiver; the primary's call is one *)
(* step for each read and one for cutting out the line.                    *)
(***************************************************************************)
EXTENDS Naturals, Sequences, FiniteSets

CONSTANTS
    MaxRead,        \* RX_BUFFER_SIZE - 1 (1023), BUFFER_SIZE - 1 (2299)
    MaxLine,        \* RX_MAX_LINE, STRATUM_MAX_LINE (16384)
    MaxBytes,       \* bound: bytes a session sends
    MaxSes          \* bound: sessions

ASSUME ReadAssumption == MaxRead \in Nat \ {0} /\ MaxLine \in Nat
ASSUME StreamAssumption == MaxBytes \in Nat /\ MaxSes \in Nat

Receivers == {"secondary", "primary"}
Bytes == [nl : BOOLEAN, ses : 1 .. MaxSes]

VARIABLES
    receiver,       \* which of the two it is
    ses,            \* history: sessions so far
    up,             \* the session is there
    rxbuf,          \* the accumulator, or json_rpc_buffer; <<>> if not allocated
    came,           \* history: what came in this session, of each read what
                    \*   precedes a NUL, after what the accumulator held before
    handed          \* history: the lines handed out, each with its newline

lineVars == <<receiver, ses, up, rxbuf, came, handed>>

LineInit ==
    /\ receiver \in Receivers
    /\ ses = 0 /\ up = FALSE
    /\ rxbuf = <<>> /\ came = <<>> /\ handed = <<>>

\* The first newline of b, and what comes after the line it ends.
Earliest(I) == CHOOSE i \in I : \A k \in I : i <= k
Newlines(b) == {i \in DOMAIN b : b[i].nl}
HasLine(b) == Newlines(b) # {}
Newline(b) == Earliest(Newlines(b))
RestWithNewline(b) == SubSeq(b, Newline(b), Len(b))         \* mutant: newline kept
Rest(b) == SubSeq(b, Newline(b) + 1, Len(b))

-----------------------------------------------------------------------------
(* A session comes and goes. *)

\* Only the secondary's accumulator is a fresh one.
Opens ==
    /\ ~up
    /\ ses < MaxSes
    /\ ses' = ses + 1
    /\ up' = TRUE
    /\ came' = rxbuf
    /\ handed' = <<>>
    /\ UNCHANGED <<receiver, rxbuf>>

\* The primary's session ends with a read, which fails or waits too long; a
\* secondary's at any time, pool_close. What was received goes with it.
Ends ==
    /\ up
    /\ receiver = "primary" => ~HasLine(rxbuf)
    /\ up' = FALSE
    /\ rxbuf' = <<>>
    /\ UNCHANGED <<receiver, ses, came, handed>>

\* The miner restarts.
Reboots ==
    /\ ses' = 0 /\ up' = FALSE
    /\ rxbuf' = <<>> /\ came' = <<>> /\ handed' = <<>>
    /\ UNCHANGED receiver

-----------------------------------------------------------------------------
(* Reading. *)

\* What the buffer may get of a read of n bytes: all of them, or those before the
\* first NUL. Whether they fit is decided by the n.
Kept(n) == UNION {[1 .. k -> [nl : BOOLEAN, ses : {ses}]] : k \in 0 .. n}
Fits(n) == Len(rxbuf) + n + 1 <= MaxLine
OfThisSession(b) == Cardinality({i \in DOMAIN b : b[i].ses = ses})

\* A line is cut out of b, if there is one.
TakeLine(b) ==
    IF HasLine(b)
    THEN /\ handed' = handed \o SubSeq(b, 1, Newline(b))
         /\ rxbuf' = Rest(b)
    ELSE /\ rxbuf' = b
         /\ UNCHANGED handed

\* STRATUM_V1_poll_jsonrpc_line_ctx: what is left over first, else one read.
Poll ==
    /\ receiver = "secondary"
    /\ up
    /\ \/ /\ HasLine(rxbuf)
          /\ TakeLine(rxbuf)
          /\ UNCHANGED <<up, came>>
       \/ /\ ~HasLine(rxbuf)
          /\ \E n \in 1 .. MaxRead : \E d \in Kept(n) :
                /\ OfThisSession(came \o d) <= MaxBytes
                /\ came' = came \o d
                /\ IF Fits(n)
                   THEN TakeLine(rxbuf \o d) /\ UNCHANGED up
                   ELSE rxbuf' = <<>> /\ up' = FALSE /\ UNCHANGED handed
    /\ UNCHANGED <<receiver, ses>>

\* STRATUM_V1_receive_jsonrpc_line: reads until there is a newline.
ReadMore ==
    /\ receiver = "primary"
    /\ up
    /\ ~HasLine(rxbuf)
    /\ \E n \in 1 .. MaxRead : \E d \in Kept(n) :
          /\ OfThisSession(came \o d) <= MaxBytes
          /\ came' = came \o d
          /\ IF Fits(n)
             THEN rxbuf' = rxbuf \o d /\ UNCHANGED up
             ELSE rxbuf' = <<>> /\ up' = FALSE
    /\ UNCHANGED <<receiver, ses, handed>>

\* strtok passes over newlines at the front, ends the token with a NUL, and the
\* buffer is moved by the token's length alone, up to the first NUL there is.
Lead(b)  == IF Newlines(b) = DOMAIN b THEN Len(b)
            ELSE Earliest(DOMAIN b \ Newlines(b)) - 1
Token(b) == LET t == SubSeq(b, Lead(b) + 1, Len(b))
            IN  IF HasLine(t) THEN SubSeq(t, 1, Newline(t) - 1) ELSE t
Nul(b) == Lead(b) + Len(Token(b)) + 1
Ending(b) == IF Nul(b) <= Len(b) THEN b[Nul(b)] ELSE [nl |-> TRUE, ses |-> ses]
AfterToken(b) ==
    IF Lead(b) = 0 THEN Rest(b)
    ELSE SubSeq(b, Len(Token(b)) + 2, IF Nul(b) <= Len(b) THEN Nul(b) - 1 ELSE Len(b))

\* The line may be client.reconnect, which closes the session.
CutLine ==
    /\ receiver = "primary"
    /\ up
    /\ HasLine(rxbuf)
    /\ Token(rxbuf) # <<>>
    /\ rxbuf' = AfterToken(rxbuf)
    /\ handed' = handed \o Append(Token(rxbuf), Ending(rxbuf))
    /\ up' \in BOOLEAN
    /\ UNCHANGED <<receiver, ses, came>>

\* Nothing but newlines is taken for a dropped connection.
CutNothing ==
    /\ receiver = "primary"
    /\ up
    /\ HasLine(rxbuf)
    /\ Token(rxbuf) = <<>>
    /\ rxbuf' = <<>>
    /\ up' = FALSE
    /\ UNCHANGED <<receiver, ses, came, handed>>

LineNext == Opens \/ Ends \/ Reboots \/ Poll \/ ReadMore \/ CutLine \/ CutNothing

LineSpec == LineInit /\ [][LineNext]_lineVars

-----------------------------------------------------------------------------
(* Properties. *)

\* Every variable stays in the set its declaration gives it.
LineTypeOK ==
    /\ receiver \in Receivers
    /\ ses \in 0 .. MaxSes
    /\ up \in BOOLEAN
    /\ {rxbuf, came, handed} \subseteq Seq(Bytes)
    /\ Len(rxbuf) < MaxLine \/ rxbuf = <<>>

\* However the network cuts the stream up, the lines handed out are what came, in
\* order, whole, and none twice: what is not handed out is still in the buffer. What
\* follows a NUL in a read is lost to both receivers, and is not counted as come. The
\* primary's receiver loses its place at an empty line; a secondary's never does,
\* and never hands out anything from before its session.
EmptyLine(b) == \E i \in DOMAIN b : b[i].nl /\ (i = 1 \/ b[i - 1].nl)
LinesAsSent ==
    /\ up /\ (receiver = "secondary" \/ ~EmptyLine(came)) => handed \o rxbuf = came
    /\ receiver = "secondary" => \A i \in DOMAIN handed : handed[i].ses = ses

\* "so the held pointer really was the only stale state left" (KNOWN-ISSUES.md) once
\* pool A's session ends: nothing of the session before is taken for a line of
\* this one.
NoStaleLine == up => \A i \in DOMAIN handed : handed[i].ses = ses
=============================================================================
