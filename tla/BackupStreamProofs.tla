------------------------- MODULE BackupStreamProofs -------------------------
(***************************************************************************)
(* TLAPS proofs about BackupStream: any number of connections, partitions, *)
(* buffers and send buffers of any size, with an update next door.         *)
(*                                                                         *)
(* Connections do not share state, so the invariant is one of a single     *)
(* connection (Sound) in the presence of a partition with contents r.  It  *)
(* relates the four positions in a response: acknowledged, handed to TCP,  *)
(* in the buffer, read from the file.  Each operator of the model gives    *)
(* the outcomes of a call; a lemma about each says that every outcome is   *)
(* sound if the connection was.                                            *)
(***************************************************************************)
EXTENDS BackupStream, TLAPS

-----------------------------------------------------------------------------
(* The invariant of a connection                                           *)

\* What a response has at unit u.
Right(kind, u) ==
  IF kind # "backup" THEN {kind}
  ELSE IF u = 0 THEN {"header"} ELSE {"old", "new", "other"}

\* The positions are in order, and the file is read up to where the buffer
\* ends unless a read has failed, which ends it early.
Positions(h) ==
  /\ h.acked <= h.written /\ h.written <= h.filled /\ h.filled <= h.index
  /\ h.index <= FileLen(h.kind)
  /\ IF h.failed THEN h.kind = "backup" /\ h.filled < h.index
                      /\ h.index = FileLen("backup")
                 ELSE h.filled = h.index

\* What was read, and what the client got of it.
Contents(h, r) ==
  /\ \A u \in Units : u < h.filled => h.data[u] \in Right(h.kind, u)
  /\ \A u \in Units : u < h.acked => h.got[u] = h.data[u]
  /\ h.kind = "backup" /\ h.quiet =>
       \A u \in Pieces : u < h.filled => h.data[u] = h.snap[u]
  /\ h.st = "serving" /\ h.quiet => h.snap = r

\* A reference is held exactly while a backup is being served.
Reference(h) ==
  /\ h.stream <=> h.st = "serving" /\ h.kind = "backup"
  /\ h.refs = IF h.stream THEN 1 ELSE 0

\* Nothing has happened yet; or polls are left, and a file in memory is ready;
\* or all there was to send has been handed to TCP.
Stage(h) ==
  /\ h.st \in {"free", "open"} => h.index = 0
  /\ h.st \in {"open", "serving"} => h.retries < MaxRetries
  /\ h.st = "serving" /\ h.kind # "backup" => h.index = FileLen(h.kind)
  /\ h.st \in {"closing", "finished"} /\ ~h.cut =>
       h.written = h.filled /\ h.index = FileLen(h.kind)
  /\ h.st = "finished" => h.acked = h.written

Intact(h, r) ==
  h \in Connection /\ Positions(h) /\ Contents(h, r) /\ Reference(h)

Sound(h, r) == Intact(h, r) /\ Stage(h)

Inv ==
  /\ region \in [Pieces -> {"old", "new", "other"}]
  /\ phase \in {"idle", "busy", "done", "failed", "off"}
  /\ conn \in [Conns -> Connection]
  /\ \A c \in Conns : Sound(conn[c], region)

-----------------------------------------------------------------------------
(* Closing and reading                                                     *)

\* http_close_conn().  The response is over if the connection was cut off or
\* all of it has been handed to TCP.
LEMMA CloseSound ==
  ASSUME NEW r, NEW h, Intact(h, r)
  PROVE  /\ Intact(http_close_conn(h), r)
         /\ http_close_conn(h).st = "closing"
         /\ left(http_close_conn(h)) = left(h)
         /\ h.cut \/ (h.written = h.filled /\ h.index = FileLen(h.kind)) =>
              Sound(http_close_conn(h), r)
  <1> DEFINE f == fs_close(h)
             g == [f EXCEPT !.st = "closing", !.buflen = 0]
  <1>1. h \in Connection
    BY DEF Intact
  <1>2. f \in Connection
    <2>1. CASE h.stream
      <3>1. h.refs - 1 \in Nat
        BY <2>1 DEF Intact, Reference
      <3> QED
        BY <1>1, <2>1, <3>1, Zenon DEF fs_close, Connection
    <2>2. CASE ~h.stream
      BY <1>1, <2>2 DEF fs_close
    <2> QED
      BY <2>1, <2>2
  <1>3. /\ f.kind = h.kind /\ f.index = h.index /\ f.filled = h.filled
        /\ f.written = h.written /\ f.acked = h.acked /\ f.failed = h.failed
        /\ f.data = h.data /\ f.got = h.got /\ f.snap = h.snap
        /\ f.quiet = h.quiet /\ f.cut = h.cut
        /\ f.stream = FALSE /\ f.refs = 0
    BY <1>1 DEF fs_close, Connection, Intact, Reference
  <1> HIDE DEF f
  <1>4. g \in Connection
    <2>1. 0 \in 0 .. BufLen
      BY SizesAssumption
    <2> QED
      BY <1>2, <2>1, Zenon DEF Connection
  <1>5. /\ g.kind = h.kind /\ g.index = h.index /\ g.filled = h.filled
        /\ g.written = h.written /\ g.acked = h.acked /\ g.failed = h.failed
        /\ g.data = h.data /\ g.got = h.got /\ g.snap = h.snap
        /\ g.quiet = h.quiet /\ g.cut = h.cut /\ g.st = "closing"
        /\ g.stream = FALSE /\ g.refs = 0
    BY <1>2, <1>3 DEF Connection
  <1>6. http_close_conn(h) = g
    BY DEF http_close_conn, f
  <1> HIDE DEF g
  <1>7. Positions(g) /\ Contents(g, r)
    BY <1>5 DEF Intact, Positions, Contents
  <1>8. /\ Reference(g)
        /\ h.cut \/ (h.written = h.filled /\ h.index = FileLen(h.kind))
             => Stage(g)
    BY <1>5 DEF Intact, Reference, Stage
  <1> QED
    BY <1>4, <1>5, <1>6, <1>7, <1>8 DEF Sound, Intact, left

\* The numbers in a connection are integers.
LEMMA Numbers ==
  ASSUME NEW h \in Connection
  PROVE  /\ {h.index, h.base, h.filled, h.written, h.acked}
              \subseteq 0 .. PartLen + 1
         /\ {h.index, h.base, h.filled, h.written, h.acked, h.retries, h.buflen}
              \subseteq Nat
         /\ h.buflen <= BufLen
         /\ FileLen(h.kind) \in 1 .. PartLen + 1
         /\ FileLen("backup") = PartLen + 1
  BY SizesAssumption DEF Connection, FileLen

\* A block can be read: a backup is served, its buffer is used up, and n more
\* units are in the file.
Readable(h, n) ==
  /\ Sound(h, region)
  /\ h.st = "serving" /\ h.kind = "backup"
  /\ h.written = h.filled
  /\ n \in Nat \ {0} /\ h.index + n <= FileLen("backup")

\* recovery_read_mtd_backup() without a read error.
LEMMA ReadOkSound ==
  ASSUME region \in [Pieces -> {"old", "new", "other"}],
         NEW h, NEW n, Readable(h, n)
  PROVE  Sound(ReadOk(h, n), region) /\ ReadOk(h, n).st = "serving"
  <1> DEFINE d == [u \in Units |->
                     IF u \in h.index .. h.index + n - 1
                     THEN IF u = 0 THEN "header" ELSE region[u]
                     ELSE h.data[u]]
             g == [h EXCEPT !.index = h.index + n, !.base = h.index,
                            !.filled = h.index + n, !.data = d]
  <1>1. h \in Connection /\ Sound(h, region)
    BY DEF Readable, Sound, Intact
  <1>2. /\ h.index \in Nat /\ n \in Nat \ {0} /\ h.index + n <= PartLen + 1
        /\ h.index + n \in 0 .. PartLen + 1 /\ h.index \in 0 .. PartLen + 1
        /\ h.filled \in Nat /\ h.written \in Nat /\ h.acked \in Nat
    BY <1>1, Numbers, SizesAssumption DEF Readable
  <1>3. ReadOk(h, n) = g
    BY Zenon DEF ReadOk
  <1>4. ~h.failed /\ h.filled = h.index
    BY <1>1, <1>2, Numbers DEF Readable, Sound, Intact, Positions
  <1>5. d \in [Units -> Values]
    <2>1. \A u \in Units : h.data[u] \in Values
      BY <1>1 DEF Connection
    <2>2. \A u \in Units : u # 0 => region[u] \in Values
      BY SizesAssumption DEF Units, Pieces, Values
    <2> QED
      BY <2>1, <2>2 DEF Values
  <1>6. \A u \in Units : /\ u < h.index => d[u] = h.data[u]
                         /\ u >= h.index /\ u < h.index + n =>
                              d[u] = IF u = 0 THEN "header" ELSE region[u]
    BY <1>2 DEF Units
  <1> HIDE DEF d
  <1>7. g \in Connection
    BY <1>1, <1>2, <1>5, Zenon DEF Connection
  <1>8. /\ g.kind = h.kind /\ g.index = h.index + n /\ g.filled = h.index + n
        /\ g.written = h.written /\ g.acked = h.acked /\ g.failed = h.failed
        /\ g.data = d /\ g.got = h.got /\ g.snap = h.snap
        /\ g.quiet = h.quiet /\ g.cut = h.cut /\ g.st = "serving"
        /\ g.stream = h.stream /\ g.refs = h.refs /\ g.retries = h.retries
    BY <1>1 DEF Connection, Readable
  <1> HIDE DEF g
  <1>9. Positions(g)
    BY <1>1, <1>2, <1>4, <1>8, Numbers DEF Sound, Intact, Positions, Readable
  <1>10. Contents(g, region)
    <2>1. ASSUME NEW u \in Units, u < h.index + n
          PROVE  d[u] \in Right("backup", u)
      <3>1. CASE u < h.index
        BY <1>1, <1>4, <1>6, <3>1 DEF Readable, Sound, Intact, Contents
      <3>2. CASE u >= h.index /\ u = 0
        BY <1>6, <2>1, <3>2 DEF Right
      <3>3. CASE u >= h.index /\ u # 0
        <4>1. d[u] = region[u] /\ u \in Pieces
          BY <1>6, <2>1, <3>3, SizesAssumption DEF Units, Pieces
        <4> QED
          BY <3>3, <4>1 DEF Right
      <3> QED
        BY <1>2, <3>1, <3>2, <3>3 DEF Units
    <2>2. ASSUME NEW u \in Units, u < h.acked PROVE h.got[u] = d[u]
      <3>1. u < h.index
        BY <1>1, <1>2, <1>4, <2>2 DEF Sound, Intact, Positions, Units
      <3> QED
        BY <1>1, <1>6, <2>2, <3>1 DEF Sound, Intact, Contents
    <2>3. ASSUME h.quiet, NEW u \in Pieces, u < h.index + n
          PROVE  d[u] = h.snap[u]
      <3>1. u \in Units /\ u # 0 /\ h.snap = region
        BY <1>1, <2>3, SizesAssumption DEF Units, Pieces, Readable, Sound,
           Intact, Contents
      <3>2. CASE u < h.index
        BY <1>1, <1>4, <1>6, <2>3, <3>1, <3>2 DEF Readable, Sound, Intact,
           Contents
      <3>3. CASE u >= h.index
        BY <1>6, <2>3, <3>1, <3>3
      <3> QED
        BY <1>2, <3>2, <3>3 DEF Pieces
    <2>4. h.quiet => h.snap = region
      BY <1>1 DEF Sound, Intact, Contents, Readable
    <2> QED
      BY <1>8, <2>1, <2>2, <2>3, <2>4 DEF Contents, Readable
  <1>11. Reference(g) /\ Stage(g)
    BY <1>1, <1>8 DEF Sound, Intact, Reference, Stage, Readable
  <1> QED
    BY <1>3, <1>7, <1>8, <1>9, <1>10, <1>11 DEF Sound, Intact

\* recovery_read_mtd_backup() with a read error: the file ends short.
LEMMA ReadFailsSound ==
  ASSUME NEW h, NEW n, Readable(h, n)
  PROVE  Sound(ReadFails(h, n), region) /\ ReadFails(h, n).st = "serving"
         /\ ReadFails(h, n).index = FileLen(ReadFails(h, n).kind)
  <1> DEFINE d == [h.data EXCEPT ![0] = "header"]
             e == IF h.index = 0 THEN 1 ELSE h.index
             g == [h EXCEPT !.index = FileLen("backup"), !.base = h.index,
                            !.filled = e, !.failed = TRUE, !.data = d]
  <1>1. h \in Connection /\ Sound(h, region)
    BY DEF Readable, Sound, Intact
  <1>2. /\ h.index \in Nat /\ n \in Nat \ {0} /\ h.index + n <= PartLen + 1
        /\ h.index \in 0 .. PartLen + 1 /\ FileLen("backup") = PartLen + 1
        /\ h.filled \in Nat /\ h.written \in Nat /\ h.acked \in Nat
    BY <1>1, Numbers, SizesAssumption DEF Readable
  <1>3. ReadFails(h, n) = g
    BY Zenon DEF ReadFails
  <1>4. ~h.failed /\ h.filled = h.index
    BY <1>1, <1>2, Numbers DEF Readable, Sound, Intact, Positions
  <1>5. d \in [Units -> Values]
    BY <1>1 DEF Connection, Values
  <1>6. d[0] = "header" /\ \A u \in Units : u # 0 => d[u] = h.data[u]
    BY <1>1, SizesAssumption DEF Connection, Units
  <1>7. e \in 0 .. PartLen + 1 /\ e \in Nat /\ e < PartLen + 1 /\ h.index <= e
        /\ FileLen("backup") \in 0 .. PartLen + 1
    BY <1>2, SizesAssumption
  <1>8. h.index # 0 => e = h.index
    OBVIOUS
  <1> HIDE DEF d, e
  <1>9. g \in Connection
    BY <1>1, <1>2, <1>5, <1>7, Zenon DEF Connection
  <1>10. /\ g.kind = h.kind /\ g.index = FileLen("backup") /\ g.filled = e
         /\ g.written = h.written /\ g.acked = h.acked /\ g.failed = TRUE
         /\ g.data = d /\ g.got = h.got /\ g.snap = h.snap
         /\ g.quiet = h.quiet /\ g.cut = h.cut /\ g.st = "serving"
         /\ g.stream = h.stream /\ g.refs = h.refs /\ g.retries = h.retries
    BY <1>1 DEF Connection, Readable
  <1> HIDE DEF g
  <1>11. Positions(g)
    BY <1>1, <1>2, <1>4, <1>7, <1>10 DEF Sound, Intact, Positions, Readable
  <1>12. Contents(g, region)
    <2>1. ASSUME NEW u \in Units, u < e PROVE d[u] \in Right("backup", u)
      <3>1. CASE u = 0
        BY <1>6, <3>1 DEF Right
      <3>2. CASE u # 0
        <4>1. h.index # 0 /\ u < h.index
          BY <1>2, <2>1, <3>2, SizesAssumption DEF Units, e
        <4> QED
          BY <1>1, <1>4, <1>6, <3>2, <4>1 DEF Readable, Sound, Intact, Contents
      <3> QED
        BY <3>1, <3>2
    <2>2. ASSUME NEW u \in Units, u < h.acked PROVE h.got[u] = d[u]
      <3>1. u < h.filled
        BY <1>1, <1>2, <2>2, SizesAssumption DEF Sound, Intact, Positions, Units
      <3>2. h.got[u] = h.data[u] /\ h.data[u] \in Right("backup", u)
        BY <1>1, <2>2, <3>1 DEF Sound, Intact, Contents, Readable
      <3> QED
        BY <1>6, <3>2 DEF Right
    <2>3. ASSUME h.quiet, NEW u \in Pieces, u < e PROVE d[u] = h.snap[u]
      <3>1. u \in Units /\ u # 0 /\ u < h.index
        BY <1>2, <2>3, SizesAssumption DEF Units, Pieces, e
      <3> QED
        BY <1>1, <1>4, <1>6, <2>3, <3>1 DEF Readable, Sound, Intact, Contents
    <2>4. h.quiet => h.snap = region
      BY <1>1 DEF Sound, Intact, Contents, Readable
    <2> QED
      BY <1>10, <2>1, <2>2, <2>3, <2>4 DEF Contents, Readable
  <1>13. Reference(g) /\ Stage(g)
    BY <1>1, <1>10 DEF Sound, Intact, Reference, Stage, Readable
  <1> QED
    BY <1>3, <1>9, <1>10, <1>11, <1>12, <1>13 DEF Sound, Intact, Readable

-----------------------------------------------------------------------------
(* Sending                                                                 *)

\* http_send_data_nonssi() and the end of http_send().
LEMMA SendDataSound ==
  ASSUME NEW r, NEW h, Sound(h, r), h.st = "serving",
         NEW g \in http_send_data(h)
  PROVE  Sound(g, r)
  <1>1. h \in Connection
    BY DEF Sound, Intact
  <1>2. PICK k \in 0 .. Lesser(left(h), Room(h)) :
          g = LET f == [h EXCEPT !.written = h.written + k]
              IN  IF left(f) = 0 /\ bytes_left(f) <= 0 THEN http_close_conn(f)
                                                       ELSE f
    BY Zenon DEF http_send_data
  <1> DEFINE f == [h EXCEPT !.written = h.written + k]
  <1>3. /\ h.written \in Nat
        /\ h.filled \in 0 .. PartLen + 1 /\ h.filled \in Nat
        /\ h.acked \in Nat /\ h.index \in Nat /\ h.written <= h.filled
        /\ h.acked <= h.written
    BY <1>1, Numbers DEF Sound, Intact, Positions
  <1>4. /\ k \in Nat /\ h.written + k <= h.filled
        /\ h.written + k \in 0 .. PartLen + 1
    BY <1>3, SizesAssumption DEF Lesser, left, Room
  <1>5. f \in Connection
    BY <1>1, <1>4, Zenon DEF Connection
  <1>6. /\ f.kind = h.kind /\ f.index = h.index /\ f.filled = h.filled
        /\ f.written = h.written + k /\ f.acked = h.acked /\ f.failed = h.failed
        /\ f.data = h.data /\ f.got = h.got /\ f.snap = h.snap
        /\ f.quiet = h.quiet /\ f.cut = h.cut /\ f.st = "serving"
        /\ f.stream = h.stream /\ f.refs = h.refs /\ f.retries = h.retries
    BY <1>1 DEF Connection
  <1>7. g = IF left(f) = 0 /\ bytes_left(f) <= 0 THEN http_close_conn(f) ELSE f
    BY <1>2, Zenon
  <1> HIDE DEF f
  <1>8. Positions(f) /\ Contents(f, r)
    BY <1>3, <1>4, <1>6 DEF Sound, Intact, Positions, Contents
  <1>9. Reference(f) /\ Stage(f)
    BY <1>6 DEF Sound, Intact, Reference, Stage
  <1>10. Sound(f, r)
    BY <1>5, <1>8, <1>9 DEF Sound, Intact
  <1>11. CASE left(f) = 0 /\ bytes_left(f) <= 0
    <2>1. f.written = f.filled /\ f.index = FileLen(f.kind)
      BY <1>5, <1>8, <1>11, Numbers DEF left, bytes_left, Positions
    <2> QED
      BY <1>7, <1>10, <1>11, <2>1, CloseSound DEF Sound
  <1>12. CASE ~(left(f) = 0 /\ bytes_left(f) <= 0)
    BY <1>7, <1>10, <1>12
  <1> QED
    BY <1>11, <1>12

\* A buffer is allocated.
LEMMA BufferSound ==
  ASSUME NEW r, NEW h, Sound(h, r), NEW b \in 0 .. BufLen
  PROVE  LET g == [h EXCEPT !.buflen = b]
         IN  /\ Sound(g, r)
             /\ g.st = h.st /\ g.kind = h.kind /\ g.index = h.index
             /\ g.written = h.written /\ g.filled = h.filled
  <1> DEFINE g == [h EXCEPT !.buflen = b]
  <1>1. h \in Connection
    BY DEF Sound, Intact
  <1>2. g \in Connection
    BY <1>1, Zenon DEF Connection
  <1>3. /\ g.kind = h.kind /\ g.index = h.index /\ g.filled = h.filled
        /\ g.written = h.written /\ g.acked = h.acked /\ g.failed = h.failed
        /\ g.data = h.data /\ g.got = h.got /\ g.snap = h.snap
        /\ g.quiet = h.quiet /\ g.cut = h.cut /\ g.st = h.st
        /\ g.stream = h.stream /\ g.refs = h.refs /\ g.retries = h.retries
    BY <1>1 DEF Connection
  <1> HIDE DEF g
  <1>4. Positions(g) /\ Contents(g, r)
    BY <1>3 DEF Sound, Intact, Positions, Contents
  <1>5. Reference(g) /\ Stage(g)
    BY <1>3 DEF Sound, Intact, Reference, Stage
  <1> QED
    BY <1>2, <1>3, <1>4, <1>5 DEF Sound, Intact, g

\* A read, and the end of the file if it failed and there is no header to send.
LEMMA ReadBlockSound ==
  ASSUME region \in [Pieces -> {"old", "new", "other"}],
         NEW h, NEW n, Readable(h, n), NEW g \in ReadBlock(h, n)
  PROVE  Sound(g, region) /\ (left(g) > 0 => g.st = "serving")
  <1> DEFINE f == ReadFails(h, n)
  <1>1. /\ Sound(f, region) /\ f.st = "serving" /\ f.index = FileLen(f.kind)
    BY ReadFailsSound
  <1>2. g = ReadOk(h, n) \/ g = IF left(f) > 0 THEN f ELSE http_close_conn(f)
    BY DEF ReadBlock
  <1>3. CASE g = ReadOk(h, n)
    BY <1>3, ReadOkSound
  <1> HIDE DEF f
  <1>4. CASE left(f) > 0 /\ g = f
    BY <1>1, <1>4
  <1>5. CASE ~(left(f) > 0) /\ g = http_close_conn(f)
    <2>1. f.written = f.filled
      BY <1>1, <1>5, Numbers DEF Sound, Intact, Positions, left
    <2>2. Sound(g, region) /\ left(g) = left(f)
      BY <1>1, <1>5, <2>1, CloseSound DEF Sound
    <2> QED
      BY <1>5, <2>2
  <1> QED
    BY <1>2, <1>3, <1>4, <1>5

\* http_check_eof()
LEMMA CheckEofSound ==
  ASSUME region \in [Pieces -> {"old", "new", "other"}],
         NEW h, Sound(h, region), h.st = "serving", ~(left(h) > 0),
         NEW g \in http_check_eof(h)
  PROVE  Sound(g, region) /\ (left(g) > 0 => g.st = "serving")
  <1>1. /\ h \in Connection /\ h.index \in Nat /\ FileLen(h.kind) \in Nat
        /\ h.index <= FileLen(h.kind) /\ h.written = h.filled
        /\ h.buflen \in Nat /\ h.buflen <= BufLen
        /\ h.written \in Nat /\ h.acked \in Nat
    BY Numbers, SizesAssumption DEF Sound, Intact, Positions, left
  <1>2. CASE bytes_left(h) <= 0
    <2>1. g = http_close_conn(h) /\ h.index = FileLen(h.kind)
      BY <1>1, <1>2 DEF http_check_eof, bytes_left
    <2>2. Sound(g, region) /\ left(g) = left(h)
      BY <1>1, <2>1, CloseSound DEF Sound
    <2> QED
      BY <2>2
  <1>3. CASE ~(bytes_left(h) <= 0)
    <2> DEFINE sizes == IF h.buflen > 0 THEN {h.buflen}
                        ELSE 1 .. Lesser(BufLen, Lesser(bytes_left(h), Room(h)))
    <2>1. \/ g = h
          \/ \E b \in sizes :
               g \in ReadBlock([h EXCEPT !.buflen = b], Lesser(b, bytes_left(h)))
      <3> DEFINE blocks == {ReadBlock([h EXCEPT !.buflen = b],
                                      Lesser(b, bytes_left(h))) : b \in sizes}
                 none == {f \in {h} : h.buflen = 0}
      <3>1. http_check_eof(h) = (UNION blocks) \cup none
        BY <1>3, Zenon DEF http_check_eof
      <3>2. ASSUME g \in none PROVE g = h
        BY <3>2
      <3>3. ASSUME NEW blk \in blocks, g \in blk
            PROVE  \E b \in sizes :
                     g \in ReadBlock([h EXCEPT !.buflen = b],
                                     Lesser(b, bytes_left(h)))
        <4> HIDE DEF sizes
        <4> QED
          BY <3>3
      <3> HIDE DEF sizes, blocks, none
      <3>4. g \in none \/ \E blk \in blocks : g \in blk
        BY <3>1
      <3>5. CASE g \in none
        BY <3>2, <3>5, Zenon
      <3>6. CASE \E blk \in blocks : g \in blk
        BY <3>3, <3>6, Zenon
      <3> QED
        BY <3>4, <3>5, <3>6, Zenon
    <2>2. bytes_left(h) \in Nat \ {0} /\ h.index < FileLen(h.kind)
      BY <1>1, <1>3 DEF bytes_left
    <2>3. h.kind = "backup"
      BY <2>2, <1>1 DEF Sound, Intact, Stage
    <2>4. ASSUME NEW b \in sizes,
                 g \in ReadBlock([h EXCEPT !.buflen = b], Lesser(b, bytes_left(h)))
          PROVE  Sound(g, region) /\ (left(g) > 0 => g.st = "serving")
      <3>1. b \in Nat \ {0} /\ b <= BufLen /\ b \in 0 .. BufLen
        BY <1>1, <2>2, <2>4, SizesAssumption DEF Lesser, Room
      <3> DEFINE f == [h EXCEPT !.buflen = b]
                 n == Lesser(b, bytes_left(h))
      <3>2. /\ Sound(f, region) /\ f.st = "serving" /\ f.kind = "backup"
            /\ f.index = h.index /\ f.written = f.filled
        BY <1>1, <2>3, <3>1, BufferSound
      <3>3. n \in Nat \ {0} /\ h.index + n <= FileLen("backup")
        BY <1>1, <2>2, <2>3, <3>1 DEF Lesser, bytes_left
      <3> HIDE DEF f, n
      <3>4. Readable(f, n)
        BY <3>2, <3>3 DEF Readable
      <3>5. g \in ReadBlock(f, n)
        BY <2>4 DEF f, n
      <3> QED
        BY <3>4, <3>5, ReadBlockSound
    <2> QED
      BY <2>1, <2>4
  <1> QED
    BY <1>2, <1>3

\* http_send()
LEMMA SendSound ==
  ASSUME region \in [Pieces -> {"old", "new", "other"}],
         NEW h, Sound(h, region), h.st = "serving", NEW g \in http_send(h)
  PROVE  Sound(g, region)
  <1>1. CASE left(h) > 0
    BY <1>1, SendDataSound DEF http_send
  <1>2. CASE ~(left(h) > 0)
    <2>1. PICK f \in http_check_eof(h) :
            g \in IF left(f) > 0 THEN http_send_data(f) ELSE {f}
      BY <1>2 DEF http_send
    <2>2. Sound(f, region) /\ (left(f) > 0 => f.st = "serving")
      BY <1>2, CheckEofSound
    <2>3. CASE left(f) > 0
      BY <2>1, <2>2, <2>3, SendDataSound
    <2>4. CASE ~(left(f) > 0)
      BY <2>1, <2>2, <2>4
    <2> QED
      BY <2>3, <2>4
  <1> QED
    BY <1>1, <1>2

-----------------------------------------------------------------------------
(* Requests and acknowledgements                                           *)

\* A connection as http_accept() makes it.
LEMMA FreshSound ==
  ASSUME NEW r \in [Pieces -> {"old", "new", "other"}],
         NEW state \in {"free", "open"}, NEW g,
         g = [st |-> state, kind |-> "static", stream |-> FALSE, refs |-> 0,
              index |-> 0, base |-> 0, filled |-> 0, written |-> 0,
              buflen |-> 0, retries |-> 0, data |-> Nothing, acked |-> 0,
              got |-> Nothing, snap |-> r, quiet |-> TRUE, failed |-> FALSE,
              cut |-> FALSE]
  PROVE  Sound(g, r)
  <1>1. Nothing \in [Units -> Values] /\ r \in [Pieces -> Values]
    BY DEF Nothing, Values
  <1>2. 0 \in 0 .. PartLen + 1 /\ 0 \in 0 .. BufLen /\ 0 \in 0 .. MaxRetries
        /\ 0 < MaxRetries
    BY SizesAssumption
  <1>3. g \in Connection
    BY <1>1, <1>2 DEF Connection, Kinds
  <1>4. /\ g.kind = "static" /\ g.index = 0 /\ g.filled = 0 /\ g.written = 0
        /\ g.acked = 0 /\ g.failed = FALSE /\ g.st = state
        /\ g.stream = FALSE /\ g.refs = 0 /\ g.retries = 0
    OBVIOUS
  <1>5. Positions(g)
    BY <1>4 DEF Positions, FileLen
  <1>6. Contents(g, r)
    BY <1>4, SizesAssumption DEF Contents, Units, Pieces
  <1>7. Reference(g) /\ Stage(g)
    BY <1>2, <1>4 DEF Reference, Stage
  <1> QED
    BY <1>3, <1>5, <1>6, <1>7 DEF Sound, Intact

\* http_recv(): the partition is the one seen at the request.
LEMMA RequestSound ==
  ASSUME region \in [Pieces -> {"old", "new", "other"}],
         NEW h, Sound(h, region), h.st = "open"
  PROVE  LET g == [h EXCEPT !.snap = region, !.retries = 0]
         IN  Sound(g, region) /\ g.st = "open" /\ g.snap = region
  <1> DEFINE g == [h EXCEPT !.snap = region, !.retries = 0]
  <1>1. h \in Connection
    BY DEF Sound, Intact
  <1>2. region \in [Pieces -> Values] /\ 0 \in 0 .. MaxRetries /\ 0 < MaxRetries
    BY SizesAssumption DEF Values
  <1>3. g \in Connection
    BY <1>1, <1>2, Zenon DEF Connection
  <1>4. /\ g.kind = h.kind /\ g.index = h.index /\ g.filled = h.filled
        /\ g.written = h.written /\ g.acked = h.acked /\ g.failed = h.failed
        /\ g.data = h.data /\ g.got = h.got /\ g.snap = region
        /\ g.quiet = h.quiet /\ g.cut = h.cut /\ g.st = "open"
        /\ g.stream = h.stream /\ g.refs = h.refs /\ g.retries = 0
    BY <1>1 DEF Connection
  <1> HIDE DEF g
  <1>5. Positions(g)
    BY <1>4 DEF Sound, Intact, Positions
  <1>6. h.filled = 0
    BY <1>1, Numbers DEF Sound, Intact, Positions, Stage
  <1>7. Contents(g, region)
    BY <1>4, <1>6, SizesAssumption DEF Sound, Intact, Contents, Pieces
  <1>8. Reference(g) /\ Stage(g)
    BY <1>2, <1>4 DEF Sound, Intact, Reference, Stage
  <1> QED
    BY <1>3, <1>4, <1>5, <1>7, <1>8 DEF Sound, Intact, g

\* Nothing has been read or sent on a connection that waits for a request.
LEMMA OpenFacts ==
  ASSUME NEW r, NEW h, Sound(h, r), h.st = "open"
  PROVE  /\ h \in Connection
         /\ h.index = 0 /\ h.filled = 0 /\ h.written = 0 /\ h.acked = 0
         /\ h.failed = FALSE /\ h.stream = FALSE /\ h.refs = 0
         /\ h.retries < MaxRetries
  <1>1. h \in Connection /\ h.index = 0
    BY DEF Sound, Intact, Stage
  <1>2. h.filled = 0 /\ h.written = 0 /\ h.acked = 0
    BY <1>1, Numbers DEF Sound, Intact, Positions
  <1>3. h.failed = FALSE
    BY <1>1, <1>2, Numbers DEF Sound, Intact, Positions, Connection
  <1>4. h.stream = FALSE /\ h.refs = 0
    BY <1>1 DEF Sound, Intact, Reference, Connection
  <1> QED
    BY <1>1, <1>2, <1>3, <1>4 DEF Sound, Stage

\* recovery_open_mtd_backup()
LEMMA OpenBackupSound ==
  ASSUME NEW r, NEW h, Sound(h, r), h.st = "open", h.snap = r
  PROVE  Sound(OpenBackup(h), r) /\ OpenBackup(h).st = "serving"
  <1> DEFINE g == [h EXCEPT !.st = "serving", !.kind = "backup",
                            !.stream = TRUE, !.refs = h.refs + 1]
  <1>1. /\ h \in Connection
        /\ h.index = 0 /\ h.filled = 0 /\ h.written = 0 /\ h.acked = 0
        /\ h.failed = FALSE /\ h.refs = 0 /\ h.retries < MaxRetries
    BY OpenFacts
  <1>2. g \in Connection
    <2>1. h.refs + 1 \in Nat /\ "backup" \in Kinds
      BY <1>1 DEF Kinds
    <2> QED
      BY <1>1, <2>1, Zenon DEF Connection
  <1>3. /\ g.kind = "backup" /\ g.index = 0 /\ g.filled = 0
        /\ g.written = 0 /\ g.acked = 0 /\ g.failed = FALSE
        /\ g.snap = r /\ g.st = "serving" /\ g.stream = TRUE /\ g.refs = 1
        /\ g.retries = h.retries
    BY <1>1 DEF Connection
  <1>4. OpenBackup(h) = g
    BY Zenon DEF OpenBackup
  <1> HIDE DEF g
  <1>5. Positions(g)
    BY <1>3, SizesAssumption DEF Positions, FileLen
  <1>6. Contents(g, r)
    BY <1>3, SizesAssumption DEF Contents, Units, Pieces
  <1>7. Reference(g) /\ Stage(g)
    BY <1>1, <1>3 DEF Reference, Stage
  <1> QED
    BY <1>2, <1>3, <1>4, <1>5, <1>6, <1>7 DEF Sound, Intact

\* A file in memory is opened.
LEMMA OpenMemorySound ==
  ASSUME NEW r, NEW h, Sound(h, r), h.st = "open", h.snap = r,
         NEW k \in {"page", "static"}
  PROVE  Sound(OpenMemory(h, k), r) /\ OpenMemory(h, k).st = "serving"
  <1> DEFINE d == [u \in Units |-> IF u = 0 THEN k ELSE "none"]
             g == [h EXCEPT !.st = "serving", !.kind = k, !.index = 1,
                            !.filled = 1, !.data = d]
  <1>1. /\ h \in Connection
        /\ h.index = 0 /\ h.filled = 0 /\ h.written = 0 /\ h.acked = 0
        /\ h.failed = FALSE /\ h.stream = FALSE /\ h.refs = 0
        /\ h.retries < MaxRetries
    BY OpenFacts
  <1>2. d \in [Units -> Values] /\ d[0] = k /\ k \in Kinds
        /\ 1 \in 0 .. PartLen + 1
    BY SizesAssumption DEF Values, Units, Kinds
  <1> HIDE DEF d
  <1>3. g \in Connection
    BY <1>1, <1>2, Zenon DEF Connection
  <1>4. /\ g.kind = k /\ g.index = 1 /\ g.filled = 1
        /\ g.written = 0 /\ g.acked = 0 /\ g.failed = FALSE
        /\ g.data = d /\ g.snap = r /\ g.st = "serving"
        /\ g.stream = FALSE /\ g.refs = 0 /\ g.retries = h.retries
    BY <1>1 DEF Connection
  <1>5. OpenMemory(h, k) = g
    BY Zenon DEF OpenMemory, d
  <1> HIDE DEF g
  <1>6. Positions(g)
    BY <1>4 DEF Positions, FileLen
  <1>7. Contents(g, r)
    <2>1. \A u \in Units : (u < 1 => u = 0) /\ ~(u < 0)
      BY SizesAssumption DEF Units
    <2> QED
      BY <1>2, <1>4, <2>1 DEF Contents, Right
  <1>8. Reference(g) /\ Stage(g)
    BY <1>1, <1>4 DEF Reference, Stage, FileLen
  <1> QED
    BY <1>3, <1>4, <1>5, <1>6, <1>7, <1>8 DEF Sound, Intact

\* The client received n more units, each with what was read for it: a static
\* file does not change, and everything else was copied.
LEMMA AckedSound ==
  ASSUME NEW r, NEW h, Sound(h, r), h.st \in {"serving", "closing"},
         NEW n \in 1 .. h.written - h.acked
  PROVE  LET g == [h EXCEPT
                     !.acked = @ + n,
                     !.got = [u \in Units |->
                                IF u \in h.acked .. h.acked + n - 1
                                THEN Carried(h, u) ELSE @[u]]]
         IN  Sound(g, r) /\ g.st = h.st
  <1> DEFINE new == [u \in Units |-> IF u \in h.acked .. h.acked + n - 1
                                    THEN Carried(h, u) ELSE h.got[u]]
             g == [h EXCEPT !.acked = h.acked + n, !.got = new]
  <1>1. h \in Connection
    BY DEF Sound, Intact
  <1>2. /\ h.acked \in Nat /\ h.written \in Nat /\ n \in Nat
        /\ h.acked + n <= h.written /\ h.written <= h.filled /\ h.filled \in Nat
        /\ h.acked + n \in 0 .. PartLen + 1
    BY <1>1, Numbers, SizesAssumption DEF Sound, Intact, Positions
  <1>3. \A u \in Units : Carried(h, u) = h.data[u]
    BY <1>1 DEF Carried, HTTP_IS_DATA_VOLATILE
  <1>4. new \in [Units -> Values]
    BY <1>1, <1>3 DEF Connection
  <1>5. \A u \in Units : u < h.acked + n => new[u] = h.data[u]
    <2> TAKE u \in Units
    <2>1. u \in Nat
      BY SizesAssumption DEF Units
    <2>2. CASE u < h.acked
      <3>1. h.got[u] = h.data[u]
        BY <2>2 DEF Sound, Intact, Contents
      <3> QED
        BY <1>3, <3>1
    <2>3. CASE u >= h.acked
      BY <1>2, <1>3, <2>1, <2>3
    <2> QED
      BY <1>2, <2>1, <2>2, <2>3
  <1> HIDE DEF new
  <1>6. g \in Connection
    BY <1>1, <1>2, <1>4, Zenon DEF Connection
  <1>7. /\ g.kind = h.kind /\ g.index = h.index /\ g.filled = h.filled
        /\ g.written = h.written /\ g.acked = h.acked + n
        /\ g.failed = h.failed /\ g.data = h.data /\ g.got = new
        /\ g.snap = h.snap /\ g.quiet = h.quiet /\ g.cut = h.cut
        /\ g.st = h.st /\ g.stream = h.stream /\ g.refs = h.refs
        /\ g.retries = h.retries
    BY <1>1 DEF Connection
  <1> HIDE DEF g
  <1>8. Positions(g)
    BY <1>2, <1>7 DEF Sound, Intact, Positions
  <1>9. Contents(g, r)
    BY <1>5, <1>7 DEF Sound, Intact, Contents
  <1>10. Reference(g) /\ Stage(g)
    BY <1>7 DEF Sound, Intact, Reference, Stage
  <1>11. Sound(g, r) /\ g.st = h.st
    BY <1>6, <1>7, <1>8, <1>9, <1>10 DEF Sound, Intact
  <1> QED
    BY <1>11, Zenon DEF g, new

\* The poll counter and the mark of a connection cut off.
LEMMA CountSound ==
  ASSUME NEW r, NEW h, Sound(h, r), NEW k \in 0 .. MaxRetries
  PROVE  LET g == [h EXCEPT !.retries = k]
         IN  /\ Intact(g, r) /\ g.st = h.st
             /\ k < MaxRetries => Sound(g, r)
  <1> DEFINE g == [h EXCEPT !.retries = k]
  <1>1. h \in Connection
    BY DEF Sound, Intact
  <1>2. g \in Connection
    BY <1>1, Zenon DEF Connection
  <1>3. /\ g.kind = h.kind /\ g.index = h.index /\ g.filled = h.filled
        /\ g.written = h.written /\ g.acked = h.acked /\ g.failed = h.failed
        /\ g.data = h.data /\ g.got = h.got /\ g.snap = h.snap
        /\ g.quiet = h.quiet /\ g.cut = h.cut /\ g.st = h.st
        /\ g.stream = h.stream /\ g.refs = h.refs /\ g.retries = k
    BY <1>1 DEF Connection
  <1> HIDE DEF g
  <1>4. Positions(g) /\ Contents(g, r)
    BY <1>3 DEF Sound, Intact, Positions, Contents
  <1>5. Reference(g) /\ (k < MaxRetries => Stage(g))
    BY <1>3 DEF Sound, Intact, Reference, Stage
  <1> QED
    BY <1>2, <1>3, <1>4, <1>5 DEF Sound, Intact, g

\* A connection that the client or Ctrl-C ends is closed at any point.
LEMMA CutSound ==
  ASSUME NEW r, NEW h, Intact(h, r)
  PROVE  Sound(http_close_conn([h EXCEPT !.cut = TRUE]), r)
  <1> DEFINE g == [h EXCEPT !.cut = TRUE]
  <1>1. h \in Connection
    BY DEF Intact
  <1>2. g \in Connection
    BY <1>1, Zenon DEF Connection
  <1>3. /\ g.kind = h.kind /\ g.index = h.index /\ g.filled = h.filled
        /\ g.written = h.written /\ g.acked = h.acked /\ g.failed = h.failed
        /\ g.data = h.data /\ g.got = h.got /\ g.snap = h.snap
        /\ g.quiet = h.quiet /\ g.cut = TRUE /\ g.st = h.st
        /\ g.stream = h.stream /\ g.refs = h.refs
    BY <1>1 DEF Connection
  <1> HIDE DEF g
  <1>4. Positions(g) /\ Contents(g, r) /\ Reference(g)
    BY <1>3 DEF Intact, Positions, Contents, Reference
  <1>5. Intact(g, r)
    BY <1>2, <1>4 DEF Intact
  <1> QED
    BY <1>3, <1>5, CloseSound DEF g

\* The FIN reaches the client.
LEMMA FinishedSound ==
  ASSUME NEW r, NEW h, Sound(h, r), h.st = "closing", h.acked = h.written
  PROVE  Sound([h EXCEPT !.st = "finished"], r)
  <1> DEFINE g == [h EXCEPT !.st = "finished"]
  <1>1. h \in Connection
    BY DEF Sound, Intact
  <1>2. g \in Connection
    BY <1>1, Zenon DEF Connection
  <1>3. /\ g.kind = h.kind /\ g.index = h.index /\ g.filled = h.filled
        /\ g.written = h.written /\ g.acked = h.acked /\ g.failed = h.failed
        /\ g.data = h.data /\ g.got = h.got /\ g.snap = h.snap
        /\ g.quiet = h.quiet /\ g.stream = h.stream /\ g.refs = h.refs
        /\ g.st = "finished" /\ g.cut = h.cut
    BY <1>1 DEF Connection
  <1> HIDE DEF g
  <1>4. Positions(g) /\ Contents(g, r)
    BY <1>3 DEF Sound, Intact, Positions, Contents
  <1>5. Reference(g) /\ Stage(g)
    BY <1>3 DEF Sound, Intact, Reference, Stage
  <1> QED
    BY <1>2, <1>4, <1>5 DEF Sound, Intact, g

\* The connection dies.
LEMMA GoneSound ==
  ASSUME NEW r, NEW h, Intact(h, r), h.st = "closing"
  PROVE  Sound([h EXCEPT !.st = "gone", !.cut = TRUE], r)
  <1> DEFINE g == [h EXCEPT !.st = "gone", !.cut = TRUE]
  <1>1. h \in Connection
    BY DEF Intact
  <1>2. g \in Connection
    BY <1>1, Zenon DEF Connection
  <1>3. /\ g.kind = h.kind /\ g.index = h.index /\ g.filled = h.filled
        /\ g.written = h.written /\ g.acked = h.acked /\ g.failed = h.failed
        /\ g.data = h.data /\ g.got = h.got /\ g.snap = h.snap
        /\ g.quiet = h.quiet /\ g.stream = h.stream /\ g.refs = h.refs
        /\ g.st = "gone"
    BY <1>1 DEF Connection
  <1> HIDE DEF g
  <1>4. Positions(g) /\ Contents(g, r)
    BY <1>3 DEF Intact, Positions, Contents
  <1>5. Reference(g) /\ Stage(g)
    BY <1>3 DEF Intact, Reference, Stage
  <1> QED
    BY <1>2, <1>4, <1>5 DEF Sound, Intact, g

\* An update of the partition is noticed by the connections being served.
LEMMA QuietSound ==
  ASSUME NEW r, NEW q, NEW h, Sound(h, r)
  PROVE  Sound([h EXCEPT !.quiet = @ /\ (h.st # "serving" \/ q = r)], q)
  <1> DEFINE b == h.quiet /\ (h.st # "serving" \/ q = r)
             g == [h EXCEPT !.quiet = b]
  <1>1. h \in Connection
    BY DEF Sound, Intact
  <1>2. b \in BOOLEAN
    OBVIOUS
  <1>3. /\ b => h.quiet
        /\ b /\ h.st = "serving" => q = r
    BY <1>1 DEF Connection
  <1> HIDE DEF b
  <1>4. g \in Connection
    BY <1>1, <1>2, Zenon DEF Connection
  <1>5. /\ g.kind = h.kind /\ g.index = h.index /\ g.filled = h.filled
        /\ g.written = h.written /\ g.acked = h.acked /\ g.failed = h.failed
        /\ g.data = h.data /\ g.got = h.got /\ g.snap = h.snap
        /\ g.quiet = b /\ g.cut = h.cut /\ g.st = h.st
        /\ g.stream = h.stream /\ g.refs = h.refs /\ g.retries = h.retries
    BY <1>1 DEF Connection
  <1> HIDE DEF g
  <1>6. Positions(g) /\ Contents(g, q)
    BY <1>3, <1>5 DEF Sound, Intact, Positions, Contents
  <1>7. Reference(g) /\ Stage(g)
    BY <1>5 DEF Sound, Intact, Reference, Stage
  <1>8. Sound(g, q)
    BY <1>4, <1>6, <1>7 DEF Sound, Intact
  <1> QED
    BY <1>8, Zenon DEF g, b

-----------------------------------------------------------------------------
(* Every step preserves the invariant                                      *)

\* At the start no connection has a request.
LEMMA InitInv == Init => Inv
  <1> SUFFICES ASSUME Init PROVE Inv
    OBVIOUS
  <1>1. region \in [Pieces -> {"old", "new", "other"}] /\ phase = "idle"
    BY DEF Init, Update!Init, Update!Untouched
  <1>2. Sound(Fresh("free", 0), region)
    BY <1>1, FreshSound DEF Fresh
  <1>3. \A c \in Conns : conn[c] = Fresh("free", 0)
    BY DEF Init
  <1>4. /\ conn = [c \in Conns |-> conn[c]]
        /\ \A c \in Conns : conn[c] \in Connection
    BY <1>2, <1>3 DEF Init, Sound, Intact
  <1> QED
    BY <1>1, <1>2, <1>3, <1>4 DEF Inv

\* A callback on one connection all of whose outcomes are sound.
LEMMA TurnInv ==
  ASSUME Inv, NEW c \in Conns, NEW outcomes, Turn(c, outcomes),
         \A g \in outcomes : Sound(g, region)
  PROVE  Inv'
  <1>1. PICK g \in outcomes : conn' = [conn EXCEPT ![c] = g]
    BY DEF Turn
  <1>2. Sound(g, region) /\ g \in Connection /\ UNCHANGED <<region, phase>>
    BY DEF Turn, Sound, Intact
  <1>3. conn' \in [Conns -> Connection]
    BY <1>1, <1>2 DEF Inv
  <1>4. \A d \in Conns : conn'[d] = IF d = c THEN g ELSE conn[d]
    BY <1>1 DEF Inv
  <1>5. \A d \in Conns : Sound(conn'[d], region')
    BY <1>2, <1>4 DEF Inv
  <1> QED
    BY <1>2, <1>3, <1>5 DEF Inv

\* Accepting a connection, and a request on it.
LEMMA RequestInv ==
  ASSUME Inv, NEW c \in Conns, Accept(c) \/ Request(c)
  PROVE  Inv'
  <1>1. /\ region \in [Pieces -> {"old", "new", "other"}]
        /\ Sound(conn[c], region)
    BY DEF Inv
  <1>2. CASE Accept(c)
    <2>1. conn[c].refs = 0
      BY <1>1, <1>2 DEF Accept, Sound, Intact, Reference
    <2>2. Sound(Fresh("open", 0), region)
      BY <1>1, FreshSound DEF Fresh
    <2> QED
      BY <1>2, <2>1, <2>2, TurnInv DEF Accept
  <1>3. CASE Request(c)
    <2> DEFINE h == [conn[c] EXCEPT !.snap = region, !.retries = 0]
    <2>1. Sound(h, region) /\ h.st = "open" /\ h.snap = region
      BY <1>1, <1>3, RequestSound DEF Request
    <2>2. Turn(c, http_send(OpenBackup(h)) \cup http_send(OpenMemory(h, "page"))
                    \cup http_send(OpenMemory(h, "static")))
      BY <1>3 DEF Request
    <2> HIDE DEF h
    <2>3. /\ Sound(OpenBackup(h), region) /\ OpenBackup(h).st = "serving"
          /\ \A k \in {"page", "static"} : /\ Sound(OpenMemory(h, k), region)
                                          /\ OpenMemory(h, k).st = "serving"
      BY <2>1, OpenBackupSound, OpenMemorySound
    <2>4. \A g \in http_send(OpenBackup(h)) \cup http_send(OpenMemory(h, "page"))
                      \cup http_send(OpenMemory(h, "static")) : Sound(g, region)
      BY <1>1, <2>3, SendSound
    <2> QED
      BY <2>2, <2>4, TurnInv
  <1> QED
    BY <1>2, <1>3

\* http_sent(), http_poll().
LEMMA ProgressInv ==
  ASSUME Inv, NEW c \in Conns, Acked(c) \/ Poll(c)
  PROVE  Inv'
  <1>1. /\ region \in [Pieces -> {"old", "new", "other"}]
        /\ Sound(conn[c], region) /\ conn[c] \in Connection
    BY DEF Inv
  <1>2. CASE Acked(c)
    <2>1. PICK n \in 1 .. conn[c].written - conn[c].acked :
            LET h == [conn[c] EXCEPT
                        !.acked = @ + n,
                        !.got = [u \in Units |->
                                   IF u \in conn[c].acked .. conn[c].acked + n - 1
                                   THEN Carried(conn[c], u) ELSE @[u]]]
            IN  Turn(c, IF h.st = "serving"
                        THEN http_send([h EXCEPT !.retries = 0]) ELSE {h})
      BY <1>2, Zenon DEF Acked
    <2> DEFINE h == [conn[c] EXCEPT
                       !.acked = @ + n,
                       !.got = [u \in Units |->
                                  IF u \in conn[c].acked .. conn[c].acked + n - 1
                                  THEN Carried(conn[c], u) ELSE @[u]]]
               f == [h EXCEPT !.retries = 0]
    <2>2. Turn(c, IF h.st = "serving" THEN http_send(f) ELSE {h})
      BY <2>1, Zenon
    <2>3. conn[c].st \in {"serving", "closing"}
      BY <1>2 DEF Acked
    <2>4. Sound(h, region)
      BY <1>1, <2>3, AckedSound, Zenon
    <2> HIDE DEF h
    <2>5. Sound(f, region) /\ f.st = h.st
      BY <2>4, CountSound, SizesAssumption
    <2> HIDE DEF f
    <2>6. \A g \in IF h.st = "serving" THEN http_send(f) ELSE {h} :
            Sound(g, region)
      BY <1>1, <2>4, <2>5, SendSound
    <2> QED
      BY <2>2, <2>6, TurnInv
  <1>3. CASE Poll(c)
    <2> DEFINE k == conn[c].retries + 1
               h == [conn[c] EXCEPT !.retries = k]
    <2>1. Turn(c, IF h.retries = MaxRetries
                  THEN {http_close_conn([h EXCEPT !.cut = TRUE])}
                  ELSE IF h.st = "serving" THEN http_send(h) ELSE {h})
      BY <1>3, Zenon DEF Poll
    <2>2. k \in 0 .. MaxRetries
      BY <1>1, <1>3, Numbers, SizesAssumption DEF Poll, Sound, Stage
    <2>3. h.retries = k
      BY <1>1 DEF Connection
    <2> HIDE DEF k
    <2>4. /\ Intact(h, region) /\ h.st = conn[c].st
          /\ k < MaxRetries => Sound(h, region)
      BY <1>1, <2>2, CountSound
    <2> HIDE DEF h
    <2>5. \A g \in IF h.retries = MaxRetries
                   THEN {http_close_conn([h EXCEPT !.cut = TRUE])}
                   ELSE IF h.st = "serving" THEN http_send(h) ELSE {h} :
            Sound(g, region)
      <3>1. CASE k = MaxRetries
        BY <2>3, <2>4, <3>1, CutSound
      <3>2. CASE k # MaxRetries
        <4>1. Sound(h, region)
          BY <2>2, <2>4, <3>2, SizesAssumption
        <4> QED
          BY <1>1, <2>3, <3>2, <4>1, SendSound
      <3> QED
        BY <3>1, <3>2
    <2> QED
      BY <2>1, <2>5, TurnInv
  <1> QED
    BY <1>2, <1>3

\* The ways in which a connection ends.
LEMMA EndInv ==
  ASSUME Inv, NEW c \in Conns, Finished(c) \/ ClientClose(c) \/ ConnLost(c)
  PROVE  Inv'
  <1>1. Sound(conn[c], region) /\ Intact(conn[c], region)
    BY DEF Inv, Sound
  <1>2. CASE Finished(c)
    BY <1>1, <1>2, FinishedSound, TurnInv DEF Finished
  <1>3. CASE ClientClose(c)
    BY <1>1, <1>3, CutSound, TurnInv DEF ClientClose
  <1>4. CASE ConnLost(c)
    <2>1. Intact(http_close_conn(conn[c]), region)
          /\ http_close_conn(conn[c]).st = "closing"
      BY <1>1, CloseSound
    <2>2. Sound([http_close_conn(conn[c]) EXCEPT !.st = "gone", !.cut = TRUE],
                region)
      BY <2>1, GoneSound
    <2> QED
      BY <1>4, <2>2, TurnInv DEF ConnLost
  <1> QED
    BY <1>2, <1>3, <1>4

\* A step of the update next door.
LEMMA UpdatingInv ==
  ASSUME Inv, Updating
  PROVE  Inv'
  <1>1. region' \in [Pieces -> {"old", "new", "other"}]
    BY DEF Inv, Updating, Update!Refuse, Update!Start, Update!Touch,
       Update!Commit, Update!Abort, Update!PowerLoss, Update!Work, Update!Leave,
       Update!Contents
  <1>2. phase' \in {"idle", "busy", "done", "failed", "off"}
    BY DEF Updating, Update!Refuse, Update!Start, Update!Touch, Update!Commit,
       Update!Abort, Update!PowerLoss
  <1>3. conn' = [c \in Conns |->
                   [conn[c] EXCEPT
                      !.quiet = @ /\ (conn[c].st # "serving" \/ region' = region)]]
    BY DEF Updating
  <1>4. \A c \in Conns : Sound(conn'[c], region')
    <2> TAKE c \in Conns
    <2>1. conn'[c] = [conn[c] EXCEPT
                        !.quiet = @ /\ (conn[c].st # "serving" \/ region' = region)]
      BY <1>3, Zenon
    <2>2. Sound(conn[c], region)
      BY DEF Inv
    <2> QED
      BY <2>1, <2>2, QuietSound
  <1>5. conn' \in [Conns -> Connection]
    <2>1. \A c \in Conns : conn'[c] \in Connection
      BY <1>4 DEF Sound, Intact
    <2>2. conn' = [c \in Conns |-> conn'[c]]
      BY <1>3, Zenon
    <2> QED
      BY <2>1, <2>2
  <1> QED
    BY <1>1, <1>2, <1>4, <1>5 DEF Inv

\* The board restarts.
LEMMA RestartInv ==
  ASSUME Inv, Restart
  PROVE  Inv'
  <1>1. region' \in [Pieces -> {"old", "new", "other"}] /\ phase' = "idle"
    BY DEF Restart, Update!NewJob
  <1>2. Sound(Fresh("free", 0)', region')
    BY <1>1, FreshSound DEF Fresh
  <1>3. conn' = [c \in Conns |-> Fresh("free", 0)']
    BY DEF Restart
  <1>4. Fresh("free", 0)' \in Connection
    BY <1>2 DEF Sound, Intact
  <1> QED
    BY <1>1, <1>2, <1>3, <1>4 DEF Inv

\* Every step keeps every connection sound.
LEMMA NextInv == Inv /\ [Next]_vars => Inv'
  <1>1. ASSUME Inv, UNCHANGED vars PROVE Inv'
    BY <1>1 DEF vars, Inv
  <1> QED
    BY <1>1, RequestInv, ProgressInv, EndInv, UpdatingInv, RestartInv DEF Next

\* So the invariant holds throughout.
LEMMA SpecInv == Spec => []Inv
  BY InitInv, NextInv, PTL DEF Spec

-----------------------------------------------------------------------------

\* Types: no position leaves the response, and no poll is one too many.
THEOREM TypeCorrect == Spec => []TypeOK
  <1>1. Inv => TypeOK
    BY DEF Inv, TypeOK
  <1> QED
    BY <1>1, SpecInv, PTL

\* What a client received was read for this response and not overwritten or
\* freed before TCP sent it.
THEOREM NeverStale == Spec => []NothingStaleSent
  <1>1. Inv => NothingStaleSent
    <2> SUFFICES ASSUME Inv, NEW c \in Conns, NEW u \in Units, u < conn[c].acked
                 PROVE  conn[c].got[u] \in Right(conn[c].kind, u)
      BY DEF NothingStaleSent, Right
    <2>1. Sound(conn[c], region) /\ conn[c] \in Connection
      BY DEF Inv
    <2>2. u < conn[c].filled
      BY <2>1, Numbers, SizesAssumption DEF Sound, Intact, Positions, Units
    <2> QED
      BY <2>1, <2>2 DEF Sound, Intact, Contents
  <1> QED
    BY <1>1, SpecInv, PTL

\* A download that nobody disturbed gives the partition as it was, however the
\* reads, the buffer and TCP cut it up.
THEOREM QuietExact == Spec => []QuietDownloadExact
  <1>1. Inv => QuietDownloadExact
    <2> SUFFICES ASSUME Inv, NEW c \in Conns, NEW u \in Pieces,
                        conn[c].kind = "backup", conn[c].quiet,
                        u < conn[c].acked
                 PROVE  conn[c].got[u] = conn[c].snap[u]
      BY DEF QuietDownloadExact
    <2>1. Sound(conn[c], region) /\ conn[c] \in Connection
      BY DEF Inv
    <2>2. u \in Units /\ u < conn[c].filled
      BY <2>1, Numbers, SizesAssumption DEF Sound, Intact, Positions, Units,
         Pieces
    <2> QED
      BY <2>1, <2>2 DEF Sound, Intact, Contents
  <1> QED
    BY <1>1, SpecInv, PTL

\* A response that ends by itself falls short exactly if a read failed.
THEOREM ShortOnError == Spec => []ShortExactlyOnError
  <1>1. Inv => ShortExactlyOnError
    <2> SUFFICES ASSUME Inv, NEW c \in Conns,
                        conn[c].st = "finished", ~conn[c].cut
                 PROVE  conn[c].failed <=> conn[c].acked < FileLen(conn[c].kind)
      BY DEF ShortExactlyOnError
    <2>1. Sound(conn[c], region) /\ conn[c] \in Connection
      BY DEF Inv
    <2> QED
      BY <2>1, Numbers DEF Sound, Intact, Positions, Stage
  <1> QED
    BY <1>1, SpecInv, PTL

\* The device reference of a download is held exactly while it is served.
THEOREM ReferencesKept == Spec => []ReferencesBalanced
  <1>1. Inv => ReferencesBalanced
    BY DEF Inv, ReferencesBalanced, Sound, Intact, Reference
  <1> QED
    BY <1>1, SpecInv, PTL
=============================================================================
