---------------------------- MODULE BackupStream ----------------------------
(***************************************************************************)
(* The GET side of the web recovery: a backup of a raw partition streamed  *)
(* from the flash (recovery_open/read/close_mtd_backup() behind lwIP's     *)
(* fs_*_custom hooks), the pages built in memory (/status, /about) and the *)
(* static files, all sent by the same path of lwIP's httpd: http_recv(),   *)
(* http_sent(), http_poll(), http_send(), http_check_eof(), http_eof().    *)
(*                                                                         *)
(* The partition belongs to somebody else.  flash_image() runs the network *)
(* inside its loops, so a download may overlap an update of what it reads. *)
(* That update is PartitionUpdate, which RawFlash implements.  Bound: one  *)
(* update per start of the board.                                          *)
(*                                                                         *)
(* A response is counted in units (at most one TCP segment each): unit 0   *)
(* is the header of a backup, unit i its piece i of the partition; a page  *)
(* or a static file is one unit.  TCP delivers in order or not at all; a   *)
(* lost segment or acknowledgement is retransmitted and not visible here.  *)
(*                                                                         *)
(* A definition whose comment starts with "Mutant" is a plausible slip in  *)
(* the code; PROJECT.json says which definition it stands in for and which *)
(* property must then fail.                                                *)
(***************************************************************************)
EXTENDS Integers

CONSTANTS
  Conns,       \* TCP connections
  PartLen,     \* units in the partition (RECOVERY_RAW_PART_SIZE)
  BufLen,      \* units in the largest response buffer (HTTPD_MAX_WRITE_LEN)
  SndBuf,      \* units in the send buffer of a connection
  MaxRetries   \* HTTPD_MAX_RETRIES

ASSUME SizesAssumption ==
  /\ PartLen \in Nat \ {0}
  /\ BufLen \in Nat \ {0}
  /\ SndBuf \in Nat \ {0}
  /\ MaxRetries \in Nat \ {0}

Pieces == 1 .. PartLen
Units == 0 .. PartLen
Kinds == {"backup", "page", "static"}

VARIABLES
  region,   \* contents of the partition, by piece
  phase,    \* of the update: see PartitionUpdate
  conn      \* the connections: see Connection

vars == <<region, phase, conn>>

Values == {"none", "header", "page", "static", "junk", "old", "new", "other"}

\* struct http_state, struct fs_file and struct recovery_backup_stream of a
\* connection, what TCP holds for it, and what its client has.
Connection ==
  [st : {"free", "open", "serving", "closing", "finished", "gone"},
   kind : Kinds,                 \* the file that is open
   stream : BOOLEAN,             \* file->pextension # NULL
   refs : Nat,                   \* MTD references taken and not put
   index : 0 .. PartLen + 1,     \* file->index
   base : 0 .. PartLen + 1,      \* first unit of the block in hs->buf
   filled : 0 .. PartLen + 1,    \* its end
   written : 0 .. PartLen + 1,   \* handed to TCP; hs->left = filled - written
   buflen : 0 .. BufLen,         \* hs->buf_len, 0 without a buffer
   retries : 0 .. MaxRetries,
   data : [Units -> Values],     \* what was read for each unit
   acked : 0 .. PartLen + 1,     \* received and acknowledged by the client
   got : [Units -> Values],      \* what the client received
   snap : [Pieces -> Values],    \* history: the partition at the request
   quiet : BOOLEAN,              \* history: not updated while being read
   failed : BOOLEAN,             \* history: a read of the flash failed
   cut : BOOLEAN]                \* history: ended by time-out or client

Update == INSTANCE PartitionUpdate WITH
  Blocks <- Pieces, strict <- FALSE, exact <- TRUE, bad <- {}

Nothing == [u \in Units |-> "none"]

\* A connection as http_accept() makes it; references survive it if leaked.
Fresh(state, refs) ==
  [st |-> state, kind |-> "static", stream |-> FALSE, refs |-> refs,
   index |-> 0, base |-> 0, filled |-> 0, written |-> 0, buflen |-> 0,
   retries |-> 0, data |-> Nothing, acked |-> 0, got |-> Nothing,
   snap |-> region, quiet |-> TRUE, failed |-> FALSE, cut |-> FALSE]

Init == Update!Init /\ conn = [c \in Conns |-> Fresh("free", 0)]

-----------------------------------------------------------------------------
(* Files.                                                                  *)

\* file->len.
FileLen(kind) == IF kind = "backup" THEN PartLen + 1 ELSE 1

\* fs_bytes_left()
bytes_left(h) == FileLen(h.kind) - h.index

\* hs->left
left(h) == h.filled - h.written

\* Mutant: a static file is assumed, whatever is open.
HTTP_IS_DATA_VOLATILE_Never(kind) == FALSE

\* Custom files are copied by tcp_write(), static ones referenced.
HTTP_IS_DATA_VOLATILE(kind) == kind # "static"

\* recovery_open_mtd_backup() succeeds: a reference is held, nothing is read.
OpenBackup(h) ==
  [h EXCEPT !.st = "serving", !.kind = "backup", !.stream = TRUE,
            !.refs = @ + 1]

\* A file in memory, opened by fs_open_custom() (page) or from fsdata (static,
\* which includes the error page for what could not be opened): all of it is
\* ready to be sent.
OpenMemory(h, k) ==
  [h EXCEPT !.st = "serving", !.kind = k, !.index = 1, !.filled = 1,
            !.data = [u \in Units |-> IF u = 0 THEN k ELSE "none"]]

\* Mutant: the device reference is not put back.
fs_close_Leaks(h) == [h EXCEPT !.stream = FALSE]

\* fs_close() -> fs_close_custom() -> recovery_close_mtd_backup().
fs_close(h) ==
  IF h.stream THEN [h EXCEPT !.stream = FALSE, !.refs = @ - 1] ELSE h

\* http_close_conn(): the file and the buffer are freed, TCP sends what it
\* has and closes.
http_close_conn(h) == [fs_close(h) EXCEPT !.st = "closing", !.buflen = 0]

\* Mutant: a failed read hands out whatever is in the buffer.
ReadFailsGoesOn(h, n) ==
  [h EXCEPT !.index = @ + n, !.base = h.index, !.filled = h.index + n,
            !.failed = TRUE,
            !.data = [u \in Units |-> IF u \in h.index .. h.index + n - 1
                                      THEN "junk" ELSE @[u]]]

\* recovery_read_mtd_backup() of n units, with mtd_read() failing or short:
\* the header, if it was still to be sent, is all there is, and the file ends.
ReadFails(h, n) ==
  [h EXCEPT !.index = FileLen("backup"), !.base = h.index,
            !.filled = IF h.index = 0 THEN 1 ELSE h.index,
            !.failed = TRUE,
            !.data = [@ EXCEPT ![0] = "header"]]

\* Mutant: the position in the partition does not count the header.
ReadOkShifted(h, n) ==
  [h EXCEPT !.index = @ + n, !.base = h.index, !.filled = h.index + n,
            !.data = [u \in Units |->
                        IF u \in h.index .. h.index + n - 1
                        THEN IF u = 0 THEN "header"
                             ELSE IF u = PartLen THEN "junk" ELSE region[u + 1]
                        ELSE @[u]]]

\* recovery_read_mtd_backup() of n units.
ReadOk(h, n) ==
  [h EXCEPT !.index = @ + n, !.base = h.index, !.filled = h.index + n,
            !.data = [u \in Units |->
                        IF u \in h.index .. h.index + n - 1
                        THEN IF u = 0 THEN "header" ELSE region[u]
                        ELSE @[u]]]

-----------------------------------------------------------------------------
(* Sending.  Each operator gives the possible outcomes of a call.          *)

\* Mutant: the limit is not applied.
LesserUnlimited(m, n) == m

\* LWIP_MIN() and the comparisons that amount to it.
Lesser(m, n) == IF m < n THEN m ELSE n

\* Units of the response that TCP would still take.
Room(h) == SndBuf - (h.written - h.acked)

\* What a read of n units leads to: data to send, or the end of the file.
ReadBlock(h, n) ==
  {ReadOk(h, n)} \cup
  (IF h.index + n > 1
     THEN LET r == ReadFails(h, n)
          IN  {IF left(r) > 0 THEN r ELSE http_close_conn(r)}
     ELSE {})

\* http_check_eof(): the file is over, there is no memory for a buffer, or
\* the next block is read into the buffer, whose size is fixed when it is
\* allocated.
http_check_eof(h) ==
  IF bytes_left(h) <= 0
  THEN {http_close_conn(h)}
  ELSE LET sizes == IF h.buflen > 0 THEN {h.buflen}
                    ELSE 1 .. Lesser(BufLen, Lesser(bytes_left(h), Room(h)))
       IN  (UNION {ReadBlock([h EXCEPT !.buflen = b], Lesser(b, bytes_left(h))) :
                     b \in sizes})
           \cup {g \in {h} : h.buflen = 0}

\* http_send_data_nonssi() and the end of http_send(): TCP takes all, a part
\* or nothing; with nothing left to send and to read, the response is done.
http_send_data(h) ==
  {LET g == [h EXCEPT !.written = @ + k]
   IN  IF left(g) = 0 /\ bytes_left(g) <= 0 THEN http_close_conn(g) ELSE g :
     k \in 0 .. Lesser(left(h), Room(h))}

\* http_send()
http_send(h) ==
  IF left(h) > 0 THEN http_send_data(h)
  ELSE UNION {IF left(g) > 0 THEN http_send_data(g) ELSE {g} :
                g \in http_check_eof(h)}

-----------------------------------------------------------------------------
(* Callbacks.  None runs while the power is off.                           *)

Turn(c, outcomes) ==
  /\ phase # "off"
  /\ \E h \in outcomes : conn' = [conn EXCEPT ![c] = h]
  /\ UNCHANGED <<region, phase>>

\* http_accept()
Accept(c) ==
  /\ conn[c].st \in {"free", "finished", "gone"}
  /\ Turn(c, {Fresh("open", conn[c].refs)})

\* http_recv() with a GET request: open the file and send what can be sent.
\* A backup that cannot be opened ends in a static error page.
Request(c) ==
  /\ conn[c].st = "open"
  /\ LET h == [conn[c] EXCEPT !.snap = region, !.retries = 0]
     IN  Turn(c, http_send(OpenBackup(h)) \cup http_send(OpenMemory(h, "page"))
                 \cup http_send(OpenMemory(h, "static")))

\* What the segment with unit u carries when TCP sends it: the copy, or what
\* the referenced memory holds by then.
Carried(h, u) ==
  IF \/ HTTP_IS_DATA_VOLATILE(h.kind)
     \/ h.kind = "static"
     \/ h.st = "serving" /\ h.base <= u
  THEN h.data[u] ELSE "junk"

\* The client receives n more units and acknowledges them: http_sent(), if
\* the connection is still known to httpd.
Acked(c) ==
  /\ conn[c].st \in {"serving", "closing"}
  /\ \E n \in 1 .. conn[c].written - conn[c].acked :
       LET h == [conn[c] EXCEPT
                   !.acked = @ + n,
                   !.got = [u \in Units |->
                              IF u \in conn[c].acked .. conn[c].acked + n - 1
                              THEN Carried(conn[c], u) ELSE @[u]]]
       IN  Turn(c, IF h.st = "serving"
                   THEN http_send([h EXCEPT !.retries = 0]) ELSE {h})

\* The FIN behind the last unit reaches the client.
Finished(c) ==
  /\ conn[c].st = "closing" /\ conn[c].acked = conn[c].written
  /\ Turn(c, {[conn[c] EXCEPT !.st = "finished"]})

\* Mutant: a connection without progress is polled for ever.
PollPatient(c) ==
  /\ conn[c].st \in {"open", "serving"}
  /\ Turn(c, IF conn[c].st = "serving" THEN http_send(conn[c]) ELSE {conn[c]})

\* http_poll(): give up after MaxRetries polls without an acknowledgement,
\* else try to send.
Poll(c) ==
  /\ conn[c].st \in {"open", "serving"}
  /\ LET h == [conn[c] EXCEPT !.retries = @ + 1]
     IN  Turn(c, IF h.retries = MaxRetries
                 THEN {http_close_conn([h EXCEPT !.cut = TRUE])}
                 ELSE IF h.st = "serving" THEN http_send(h) ELSE {h})

\* The client closes its side: http_recv() without data.
ClientClose(c) ==
  /\ conn[c].st \in {"open", "serving"}
  /\ Turn(c, {http_close_conn([conn[c] EXCEPT !.cut = TRUE])})

\* The connection dies: http_err() after a reset, TCP giving up, a needed
\* control block taken away, or recovery_lwip_cleanup() after Ctrl-C.
ConnLost(c) ==
  /\ conn[c].st \in {"open", "serving", "closing"}
  /\ Turn(c, {[http_close_conn(conn[c]) EXCEPT !.st = "gone", !.cut = TRUE]})

-----------------------------------------------------------------------------
(* The update next door.                                                   *)

\* A step of flash_image() or a power cut, seen by the downloads.
Updating ==
  /\ \/ Update!Refuse \/ Update!Start \/ Update!Touch \/ Update!Commit
     \/ Update!Abort \/ Update!PowerLoss
  /\ conn' = [c \in Conns |->
                [conn[c] EXCEPT
                   !.quiet = @ /\ (conn[c].st # "serving" \/ region' = region)]]

\* The board restarts after a power cut, or is reset after an update.
Restart ==
  /\ Update!NewJob
  /\ conn' = [c \in Conns |-> Fresh("free", 0)']

Next ==
  \/ \E c \in Conns : \/ Accept(c) \/ Request(c) \/ Acked(c) \/ Finished(c)
                      \/ Poll(c) \/ ClientClose(c) \/ ConnLost(c)
  \/ Updating \/ Restart

Spec == Init /\ [][Next]_vars

\* lwIP's slow timer runs from the main loop and from inside flash_image().
FairSpec == Spec /\ \A c \in Conns : WF_vars(Poll(c))

-----------------------------------------------------------------------------
(* Properties.                                                             *)

\* The type invariant.
TypeOK ==
  /\ region \in [Pieces -> {"old", "new", "other"}]
  /\ phase \in {"idle", "busy", "done", "failed", "off"}
  /\ conn \in [Conns -> Connection]

\* What a client has received of a response is what that response has there:
\* never memory that was freed or used for the next block in the meantime,
\* also when segments are sent late or again after httpd closed the file.
NothingStaleSent ==
  \A c \in Conns, u \in Units : u < conn[c].acked =>
    conn[c].got[u] \in IF conn[c].kind # "backup" THEN {conn[c].kind}
                       ELSE IF u = 0 THEN {"header"}
                       ELSE {"old", "new", "other"}

\* A download during which nobody touched the partition gives its contents,
\* piece by piece, however it was cut into blocks and segments.
QuietDownloadExact ==
  \A c \in Conns, u \in Pieces :
    conn[c].kind = "backup" /\ conn[c].quiet /\ u < conn[c].acked =>
      conn[c].got[u] = conn[c].snap[u]

\* A response that ends by itself is complete exactly if every read of the
\* flash succeeded: a read error is never hidden, it always leaves the client
\* short of its Content-Length, and nothing else does.
ShortExactlyOnError ==
  \A c \in Conns :
    conn[c].st = "finished" /\ ~conn[c].cut =>
      (conn[c].failed <=> conn[c].acked < FileLen(conn[c].kind))

\* Every MTD reference taken for a download is put back when the download
\* ends, in whichever way, and not before.
ReferencesBalanced ==
  \A c \in Conns :
    conn[c].refs = IF conn[c].st = "serving" /\ conn[c].kind = "backup"
                   THEN 1 ELSE 0

\* A connection does not stay open for a client that asks for nothing or has
\* stopped receiving.
ConnectionEnds ==
  \A c \in Conns : conn[c].st \in {"open", "serving"} /\ phase # "off" ~>
                     conn[c].st \notin {"open", "serving"} \/ phase = "off"
=============================================================================
