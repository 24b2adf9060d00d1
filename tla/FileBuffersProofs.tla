--------------------------- MODULE FileBuffersProofs ---------------------------
(***************************************************************************)
(* Proofs about FileBuffers, for any number of applications, files,        *)
(* buffers and writes.                                                     *)
(***************************************************************************)
EXTENDS FileBuffers, TLAPS

Handles(n) == {Closed} \cup [path : Paths, buf : 1 .. n, names : SUBSET Paths]

Requests(n) ==
  {Idle} \cup [pc : {"install", "setlen", "unlink", "forget"}, path : Paths]
         \cup [pc : {"stat"}, path : Paths, buf : 0 .. n, goal : {"open", "truncate"}]
         \cup [pc : {"load"}, path : Paths, mtime : Time, goal : {"open", "truncate"}]
         \cup [pc : {"insert"}, path : Paths, data : Content, mtime : Time,
               goal : {"open", "truncate"}]
         \cup [pc : {"truncate", "stamp"}, path : Paths, buf : 1 .. n]
         \cup [pc : {"write", "clean"}, path : Paths, buf : 1 .. n, data : Content]

Buffer == [content : Content, dirty : BOOLEAN, mtime : Time]

\* The state without the tables of the clients.
StoreOK ==
  /\ disk \in [Paths -> [exists : BOOLEAN, content : Content, mtime : Time]]
  /\ clock \in Time
  /\ bufs \in Seq(Buffer)
  /\ current \in [Paths -> 0 .. Len(bufs)]
  /\ issued \in 0 .. MaxWrites
  /\ live \in [Paths -> Content]
  /\ misfiled \in [raced : Content, overwritten : Content, strayed : Content]

ClientsOK ==
  /\ handle \in [Clients -> Handles(Len(bufs))]
  /\ task \in [Clients -> Requests(Len(bufs))]

LEMMA TypeSplits == TypeOK <=> StoreOK /\ ClientsOK
  BY DEF TypeOK, StoreOK, ClientsOK, Handles, Requests, Buffer, BufferIds

LEMMA Bounds == MaxWrites \in Nat /\ MaxBuffers \in Nat /\ MaxClock \in Nat
  BY FileBuffersAssumption DEF FileBuffersAssumption

LEMMA RequestsGrow ==
  ASSUME NEW m \in Nat, NEW n \in Nat, m <= n
  PROVE  Requests(m) \subseteq Requests(n) /\ Handles(m) \subseteq Handles(n)
<1>1. 0 .. m \subseteq 0 .. n /\ 1 .. m \subseteq 1 .. n
  OBVIOUS
<1> QED  BY <1>1, Zenon DEF Requests, Handles

\* What each stage of a request carries.
LEMMA RequestShape ==
  ASSUME TypeOK, NEW c \in Clients
  PROVE  /\ task[c].pc \in {"install", "setlen", "unlink", "forget"} => task[c].path \in Paths
         /\ task[c].pc = "stat" =>
              task[c].path \in Paths /\ task[c].buf \in 0 .. Len(bufs)
              /\ task[c].goal \in {"open", "truncate"}
         /\ task[c].pc = "load" =>
              task[c].path \in Paths /\ task[c].mtime \in Time
              /\ task[c].goal \in {"open", "truncate"}
         /\ task[c].pc = "insert" =>
              task[c].path \in Paths /\ task[c].data \in Content /\ task[c].mtime \in Time
              /\ task[c].goal \in {"open", "truncate"}
         /\ task[c].pc \in {"truncate", "stamp"} =>
              task[c].path \in Paths /\ task[c].buf \in BufferIds
         /\ task[c].pc \in {"write", "clean"} =>
              /\ task[c].path \in Paths /\ task[c].buf \in BufferIds /\ task[c].data \in Content
              /\ task[c] = [pc |-> task[c].pc, path |-> task[c].path,
                            buf |-> task[c].buf, data |-> task[c].data]
<1> DEFINE r == task[c]
<1>1. r \in Requests(Len(bufs))
  BY TypeSplits DEF ClientsOK
<1> HIDE DEF r
<1>2. CASE r = Idle
  BY <1>2 DEF Idle, r
<1>3. CASE r \in [pc : {"install", "setlen", "unlink", "forget"}, path : Paths]
  BY <1>3 DEF r
<1>4. CASE r \in [pc : {"stat"}, path : Paths, buf : 0 .. Len(bufs), goal : {"open", "truncate"}]
  BY <1>4 DEF r
<1>5. CASE r \in [pc : {"load"}, path : Paths, mtime : Time, goal : {"open", "truncate"}]
  BY <1>5 DEF r
<1>6. CASE r \in [pc : {"insert"}, path : Paths, data : Content, mtime : Time,
                  goal : {"open", "truncate"}]
  BY <1>6 DEF r
<1>7. CASE r \in [pc : {"truncate", "stamp"}, path : Paths, buf : 1 .. Len(bufs)]
  BY <1>7 DEF r, BufferIds
<1>8. CASE r \in [pc : {"write", "clean"}, path : Paths, buf : 1 .. Len(bufs), data : Content]
  BY <1>8 DEF r, BufferIds
<1> QED  BY <1>1, <1>2, <1>3, <1>4, <1>5, <1>6, <1>7, <1>8 DEF Requests

\* A request that goes on, with as many buffers as before.
LEMMA TaskTyped ==
  ASSUME TypeOK, NEW c \in Clients, NEW r \in Requests(Len(bufs)),
         Become(c, r), Len(bufs') = Len(bufs)
  PROVE  task' \in [Clients -> Requests(Len(bufs'))]
  BY TypeSplits DEF ClientsOK, Become

LEMMA InitTyped == Init => TypeOK
<1> SUFFICES ASSUME Init PROVE StoreOK /\ ClientsOK
  BY TypeSplits
<1>1. StoreOK
  BY Bounds DEF Init, StoreOK, Content, Time, NothingMisfiled
<1>2. ClientsOK
  BY DEF Init, ClientsOK, Handles, Requests
<1> QED  BY <1>1, <1>2

\* Obtain, for a buffer that exists.
LEMMA ObtainTyped ==
  ASSUME TypeOK, NEW c \in Clients, NEW p \in Paths, NEW b \in Nat, b > 0, b <= Len(bufs'),
         Len(bufs') \in Nat, Len(bufs) <= Len(bufs'),
         NEW goal \in {"open", "truncate"}, Obtain(c, p, b, goal)
  PROVE  ClientsOK'
<1>1. Requests(Len(bufs)) \subseteq Requests(Len(bufs')) /\ Handles(Len(bufs)) \subseteq Handles(Len(bufs'))
  BY RequestsGrow, TypeSplits DEF StoreOK
<1>2. handle \in [Clients -> Handles(Len(bufs'))] /\ task \in [Clients -> Requests(Len(bufs'))]
  BY <1>1, TypeSplits DEF ClientsOK
<1>3. b \in 1 .. Len(bufs')
  OBVIOUS
<1>4. CASE goal = "open"
  <2>1. handle' \in [Clients -> Handles(Len(bufs'))]
    <3>1. [path |-> p, buf |-> b, names |-> {q \in {p} : disk[q].exists}] \in Handles(Len(bufs'))
      BY <1>3 DEF Handles
    <3> QED  BY <1>2, <1>4, <3>1 DEF Obtain, OpenHandle
  <2>2. task' \in [Clients -> Requests(Len(bufs'))]
    <3>1. Idle \in Requests(Len(bufs'))
      BY DEF Requests
    <3> QED  BY <1>2, <1>4, <3>1 DEF Obtain, Finish, Become
  <2> QED  BY <2>1, <2>2 DEF ClientsOK
<1>5. CASE goal = "truncate"
  <2>1. [pc |-> "truncate", path |-> p, buf |-> b] \in Requests(Len(bufs'))
    BY <1>3 DEF Requests
  <2>2. task' \in [Clients -> Requests(Len(bufs'))] /\ handle' = handle
    BY <1>2, <1>5, <2>1 DEF Obtain, Become
  <2> QED  BY <1>2, <2>2 DEF ClientsOK
<1> QED  BY <1>4, <1>5

\* cache_with_mtime keeps the store typed and makes one buffer more.
LEMMA CacheTyped ==
  ASSUME TypeOK, NEW p \in Paths, NEW data \in Content, NEW mtime \in Time,
         Cache(p, data, mtime)
  PROVE  /\ bufs' \in Seq(Buffer)
         /\ Len(bufs') = Len(bufs) + 1
         /\ current' \in [Paths -> 0 .. Len(bufs')]
<1>1. bufs \in Seq(Buffer) /\ current \in [Paths -> 0 .. Len(bufs)]
  BY TypeSplits DEF StoreOK
<1>2. [content |-> data, dirty |-> FALSE, mtime |-> mtime] \in Buffer
  BY DEF Buffer
<1>3. bufs' \in Seq(Buffer) /\ Len(bufs') = Len(bufs) + 1
  BY <1>1, <1>2 DEF Cache
<1> QED  BY <1>1, <1>3 DEF Cache

\* A buffer is changed in place.
LEMMA BufferTyped ==
  ASSUME TypeOK, NEW b \in BufferIds, NEW x \in Buffer, bufs' = [bufs EXCEPT ![b] = x]
  PROVE  /\ bufs' \in Seq(Buffer)
         /\ Len(bufs') = Len(bufs)
  BY TypeSplits DEF StoreOK, BufferIds

LEMMA SetDiskTyped ==
  ASSUME TypeOK, NEW p \in Paths, NEW content \in Content, SetDisk(p, content)
  PROVE  /\ disk' \in [Paths -> [exists : BOOLEAN, content : Content, mtime : Time]]
         /\ clock' \in Time
  BY TypeSplits, Bounds DEF StoreOK, SetDisk, Time

LEMMA TypeInductive == TypeOK /\ [Next]_vars => TypeOK'
<1> SUFFICES ASSUME TypeOK, [Next]_vars PROVE StoreOK' /\ ClientsOK'
  BY TypeSplits, PTL
<1>a. StoreOK /\ ClientsOK
  BY TypeSplits
<1>b. Idle \in Requests(Len(bufs)) /\ Len(bufs) \in Nat /\ Closed \in Handles(Len(bufs))
  BY <1>a DEF Requests, Handles, StoreOK
<1>1. ASSUME NEW c \in Clients, NEW p \in Paths, NEW goal \in {"open", "truncate"},
             GetOrLoad(c, p, goal)
      PROVE  StoreOK' /\ ClientsOK'
  <2>1. StoreOK' /\ Len(bufs') = Len(bufs)
    BY <1>1, <1>a DEF GetOrLoad, StoreOK
  <2>2. CASE current[p] # 0 /\ bufs[current[p]].dirty
    <3>1. current[p] \in 0 .. Len(bufs)
      BY <1>a DEF StoreOK
    <3>2. current[p] \in Nat /\ current[p] > 0 /\ current[p] <= Len(bufs')
      BY <3>1, <2>1, <2>2
    <3>3. Obtain(c, p, current[p], goal)
      BY <1>1, <2>2 DEF GetOrLoad
    <3> QED  BY <1>b, <2>1, <3>2, <3>3, ObtainTyped
  <2>3. CASE ~ (current[p] # 0 /\ bufs[current[p]].dirty)
    <3> DEFINE r == [pc |-> "stat", path |-> p, buf |-> current[p], goal |-> goal]
    <3>1. r \in Requests(Len(bufs))
      BY <1>a DEF StoreOK, Requests
    <3>2. Become(c, r) /\ handle' = handle
      BY <1>1, <2>3 DEF GetOrLoad
    <3> HIDE DEF r
    <3>3. task' \in [Clients -> Requests(Len(bufs'))]
      BY <2>1, <3>1, <3>2, TaskTyped
    <3> QED  BY <1>a, <2>1, <3>2, <3>3 DEF ClientsOK
  <2> QED  BY <2>2, <2>3
<1>2. ASSUME NEW c \in Clients, NEW p \in Paths, OpenFile(c, p)
      PROVE  StoreOK' /\ ClientsOK'
  BY <1>1, <1>2 DEF OpenFile
<1>3. ASSUME NEW c \in Clients, NEW p \in Paths, SetSize(c, p)
      PROVE  StoreOK' /\ ClientsOK'
  BY <1>1, <1>3 DEF SetSize
<1>4. ASSUME NEW c \in Clients, LoadStat(c)
      PROVE  StoreOK' /\ ClientsOK'
  <2> DEFINE p == task[c].path
             b == task[c].buf
             stale == disk[p].exists /\ (b # 0 => disk[p].mtime > bufs[b].mtime)
             r == [pc |-> "load", path |-> p, mtime |-> disk[p].mtime, goal |-> task[c].goal]
  <2>1. p \in Paths /\ b \in 0 .. Len(bufs) /\ task[c].goal \in {"open", "truncate"}
    BY <1>4, RequestShape DEF LoadStat, Busy
  <2>2. Len(bufs') = Len(bufs) /\ bufs' = bufs
    BY <1>4 DEF LoadStat
  <2>3. CASE stale
    <3>1. r \in Requests(Len(bufs))
      BY <1>a, <2>1 DEF StoreOK, Requests
    <3>2. /\ Become(c, r) /\ handle' = handle
          /\ current' = IF b = 0 THEN current ELSE [current EXCEPT ![p] = 0]
      BY <1>4, <2>3 DEF LoadStat
    <3>3. task' \in [Clients -> Requests(Len(bufs'))]
      BY <2>2, <3>1, <3>2, TaskTyped
    <3>4. StoreOK'
      BY <1>4, <1>a, <2>1, <3>2 DEF LoadStat, StoreOK
    <3> QED  BY <1>a, <2>2, <3>2, <3>3, <3>4 DEF ClientsOK
  <2>4. CASE ~ stale /\ b = 0
    <3>1. Become(c, Idle) /\ handle' = handle /\ current' = current
      BY <1>4, <2>4 DEF LoadStat, Finish
    <3>2. task' \in [Clients -> Requests(Len(bufs'))]
      BY <1>b, <2>2, <3>1, TaskTyped
    <3> QED  BY <1>4, <1>a, <2>2, <3>1, <3>2 DEF LoadStat, StoreOK, ClientsOK
  <2>5. CASE ~ stale /\ b # 0
    <3>1. Obtain(c, p, b, task[c].goal) /\ current' = current
      BY <1>4, <2>5 DEF LoadStat
    <3>2. b \in Nat /\ b > 0 /\ b <= Len(bufs')
      BY <2>1, <2>2, <2>5
    <3>3. ClientsOK'
      BY <1>b, <2>1, <2>2, <3>1, <3>2, ObtainTyped
    <3> QED  BY <1>4, <1>a, <2>2, <3>1, <3>3 DEF LoadStat, StoreOK
  <2> QED  BY <2>3, <2>4, <2>5
<1>5. ASSUME NEW c \in Clients, LoadRead(c)
      PROVE  StoreOK' /\ ClientsOK'
  <2> DEFINE p == task[c].path
             r == [pc |-> "insert", path |-> p, data |-> disk[p].content,
                   mtime |-> task[c].mtime, goal |-> task[c].goal]
  <2>1. r \in Requests(Len(bufs))
    BY <1>5, <1>a, RequestShape DEF LoadRead, Busy, StoreOK, Requests
  <2>2. Become(c, r) \/ Become(c, Idle)
    BY <1>5 DEF LoadRead, Finish
  <2>3. task' \in [Clients -> Requests(Len(bufs'))]
    BY <1>5, <1>b, <2>1, <2>2, TaskTyped DEF LoadRead
  <2> QED  BY <1>5, <1>a, <2>3 DEF LoadRead, StoreOK, ClientsOK
<1>6. ASSUME NEW c \in Clients, LoadInsert(c)
      PROVE  StoreOK' /\ ClientsOK'
  <2>1. /\ task[c].path \in Paths /\ task[c].data \in Content /\ task[c].mtime \in Time
        /\ task[c].goal \in {"open", "truncate"}
    BY <1>6, RequestShape DEF LoadInsert, Busy
  <2>2. /\ bufs' \in Seq(Buffer) /\ Len(bufs') = Len(bufs) + 1
        /\ current' \in [Paths -> 0 .. Len(bufs')]
    BY <1>6, <2>1, CacheTyped DEF LoadInsert
  <2>3. ClientsOK'
    <3>1. Obtain(c, task[c].path, Len(bufs) + 1, task[c].goal)
      BY <1>6 DEF LoadInsert
    <3> QED  BY <1>b, <2>1, <2>2, <3>1, ObtainTyped
  <2> QED  BY <1>6, <1>a, <2>2, <2>3 DEF LoadInsert, StoreOK
<1>7. ASSUME NEW c \in Clients, Write(c)
      PROVE  StoreOK' /\ ClientsOK'
  <2> DEFINE b == handle[c].buf
             x == [content |-> bufs[b].content \cup {issued + 1}, dirty |-> TRUE, mtime |-> clock]
  <2>1. b \in BufferIds /\ handle[c].names \subseteq Paths
    BY <1>7, <1>a DEF Write, IsOpen, ClientsOK, Handles, BufferIds
  <2>2. issued + 1 \in 1 .. MaxWrites
    BY <1>7, <1>a, Bounds DEF Write, StoreOK
  <2>3. bufs[b] \in Buffer
    BY <1>a, <2>1 DEF StoreOK, BufferIds
  <2>4. x \in Buffer
    BY <1>a, <2>2, <2>3 DEF Buffer, StoreOK, Content
  <2>5. bufs' = [bufs EXCEPT ![b] = x]
    BY <1>7 DEF Write
  <2> HIDE DEF x
  <2>6. bufs' \in Seq(Buffer) /\ Len(bufs') = Len(bufs)
    BY <2>1, <2>4, <2>5, BufferTyped
  <2>7. live' \in [Paths -> Content]
    BY <1>7, <1>a, <2>2 DEF Write, Acknowledge, StoreOK, Content
  <2> QED  BY <1>7, <1>a, <2>2, <2>6, <2>7 DEF Write, StoreOK, ClientsOK
<1>8. ASSUME NEW c \in Clients, NEW p \in Paths, Flush(c, p)
      PROVE  StoreOK' /\ task' \in [Clients -> Requests(Len(bufs'))] /\ Len(bufs') = Len(bufs)
  <2> DEFINE r == [pc |-> "write", path |-> p, buf |-> current[p], data |-> bufs[current[p]].content]
  <2>1. StoreOK' /\ Len(bufs') = Len(bufs)
    BY <1>8, <1>a DEF Flush, StoreOK
  <2>2. (Become(c, r) /\ current[p] # 0) \/ Become(c, Idle)
    BY <1>8 DEF Flush, Finish
  <2>3. ASSUME current[p] # 0 PROVE r \in Requests(Len(bufs))
    <3>1. current[p] \in 1 .. Len(bufs)
      BY <1>a, <2>3 DEF StoreOK
    <3>2. bufs[current[p]] \in Buffer
      BY <1>a, <3>1 DEF StoreOK
    <3>3. bufs[current[p]].content \in Content
      BY <3>2 DEF Buffer
    <3> QED  BY <3>1, <3>3 DEF Requests
  <2> HIDE DEF r
  <2> QED  BY <1>b, <2>1, <2>2, <2>3, TaskTyped
<1>9. ASSUME NEW c \in Clients, FlushHandle(c)
      PROVE  StoreOK' /\ ClientsOK'
  <2>1. handle[c].path \in Paths
    BY <1>9, <1>a DEF FlushHandle, IsOpen, ClientsOK, Handles
  <2> QED  BY <1>8, <1>9, <1>a, <2>1 DEF FlushHandle, ClientsOK
<1>10. ASSUME NEW c \in Clients, Close(c)
       PROVE  StoreOK' /\ ClientsOK'
  <2>1. handle[c].path \in Paths
    BY <1>10, <1>a DEF Close, IsOpen, ClientsOK, Handles
  <2>2. handle' \in [Clients -> Handles(Len(bufs))]
    BY <1>10, <1>a, <1>b DEF Close, ClientsOK
  <2> QED  BY <1>8, <1>10, <2>1, <2>2 DEF Close, ClientsOK
<1>11. ASSUME NEW c \in Clients, FlushWrite(c)
       PROVE  StoreOK' /\ ClientsOK'
  <2> DEFINE r == [task[c] EXCEPT !.pc = "clean"]
  <2>0. task[c].pc = "write"
    BY <1>11 DEF FlushWrite, Busy
  <2>a. /\ task[c].path \in Paths /\ task[c].data \in Content /\ task[c].buf \in BufferIds
        /\ task[c] = [pc |-> task[c].pc, path |-> task[c].path,
                      buf |-> task[c].buf, data |-> task[c].data]
    BY <2>0, RequestShape
  <2>b. r = [pc |-> "clean", path |-> task[c].path, buf |-> task[c].buf, data |-> task[c].data]
    BY <2>a
  <2>1. /\ task[c].path \in Paths /\ task[c].data \in Content
        /\ r \in [pc : {"write", "clean"}, path : Paths, buf : 1 .. Len(bufs), data : Content]
    BY <2>a, <2>b DEF BufferIds
  <2>2. r \in Requests(Len(bufs)) /\ Become(c, r)
    BY <1>11, <2>1 DEF FlushWrite, Requests
  <2> HIDE DEF r
  <2>3. task' \in [Clients -> Requests(Len(bufs'))]
    BY <1>11, <2>2, TaskTyped DEF FlushWrite
  <2>4. /\ disk' \in [Paths -> [exists : BOOLEAN, content : Content, mtime : Time]]
        /\ clock' \in Time
    BY <1>11, <2>1, SetDiskTyped DEF FlushWrite
  <2>5. misfiled' \in [raced : Content, overwritten : Content, strayed : Content]
    BY <1>11, <1>a, <2>1 DEF FlushWrite, StoreOK, Content
  <2> QED  BY <1>11, <1>a, <2>3, <2>4, <2>5 DEF FlushWrite, StoreOK, ClientsOK
<1>12. ASSUME NEW c \in Clients, FlushClean(c)
       PROVE  StoreOK' /\ ClientsOK'
  <2> DEFINE b == task[c].buf
             x == [bufs[b] EXCEPT !.dirty = FALSE]
             r == [pc |-> "stamp", path |-> task[c].path, buf |-> b]
  <2>1. /\ task[c].path \in Paths /\ b \in BufferIds /\ task[c].data \in Content
    BY <1>12, RequestShape DEF FlushClean, Busy
  <2>2. bufs[b] \in Buffer
    BY <1>a, <2>1 DEF StoreOK, BufferIds
  <2>3. x \in Buffer /\ bufs' = [bufs EXCEPT ![b] = x]
    BY <1>12, <2>2 DEF FlushClean, Buffer
  <2>4. r \in Requests(Len(bufs)) /\ Become(c, r)
    BY <1>12, <2>1 DEF FlushClean, Requests, BufferIds
  <2> HIDE DEF x, r
  <2>5. bufs' \in Seq(Buffer) /\ Len(bufs') = Len(bufs)
    BY <2>1, <2>3, BufferTyped
  <2>6. task' \in [Clients -> Requests(Len(bufs'))]
    BY <2>4, <2>5, TaskTyped
  <2>7. misfiled' \in [raced : Content, overwritten : Content, strayed : Content]
    BY <1>12, <1>a, <2>1, <2>2 DEF FlushClean, StoreOK, Content, Buffer
  <2> QED  BY <1>12, <1>a, <2>5, <2>6, <2>7 DEF FlushClean, StoreOK, ClientsOK
<1>13. ASSUME NEW c \in Clients, FlushStamp(c)
       PROVE  StoreOK' /\ ClientsOK'
  <2> DEFINE p == task[c].path
             b == task[c].buf
             x == [bufs[b] EXCEPT !.mtime = disk[p].mtime]
  <2>1. p \in Paths /\ b \in BufferIds
    BY <1>13, RequestShape DEF FlushStamp, Busy
  <2>2. bufs[b] \in Buffer
    BY <1>a, <2>1 DEF StoreOK, BufferIds
  <2>3. x \in Buffer
    BY <1>a, <2>1, <2>2 DEF Buffer, StoreOK
  <2>4. bufs' = [bufs EXCEPT ![b] = x] \/ bufs' = bufs
    BY <1>13 DEF FlushStamp
  <2> HIDE DEF x
  <2>5. bufs' \in Seq(Buffer) /\ Len(bufs') = Len(bufs)
    BY <1>a, <2>1, <2>3, <2>4, BufferTyped DEF StoreOK
  <2>6. task' \in [Clients -> Requests(Len(bufs'))]
    BY <1>13, <1>b, <2>5, TaskTyped DEF FlushStamp, Finish
  <2> QED  BY <1>13, <1>a, <2>5, <2>6 DEF FlushStamp, StoreOK, ClientsOK
<1>14. ASSUME NEW c \in Clients, TruncateBuffer(c)
       PROVE  StoreOK' /\ ClientsOK'
  <2> DEFINE p == task[c].path
             b == task[c].buf
             x == [content |-> {}, dirty |-> TRUE, mtime |-> clock]
             r == [pc |-> "setlen", path |-> p]
  <2>1. p \in Paths /\ b \in BufferIds
    BY <1>14, RequestShape DEF TruncateBuffer, Busy
  <2>a. bufs[b] \in Buffer /\ clock \in Time
    BY <1>a, <2>1 DEF StoreOK, BufferIds
  <2>2. bufs[b] \in Buffer /\ x \in Buffer
    BY <2>a DEF Buffer, Content
  <2>3. bufs' = [bufs EXCEPT ![b] = x] /\ r \in Requests(Len(bufs)) /\ Become(c, r)
    BY <1>14, <2>1 DEF TruncateBuffer, Requests
  <2> HIDE DEF x, r
  <2>5. bufs' \in Seq(Buffer) /\ Len(bufs') = Len(bufs)
    BY <2>1, <2>2, <2>3, BufferTyped
  <2>6. task' \in [Clients -> Requests(Len(bufs'))]
    BY <2>3, <2>5, TaskTyped
  <2>7. /\ misfiled' \in [raced : Content, overwritten : Content, strayed : Content]
        /\ live' \in [Paths -> Content]
    BY <1>14, <1>a, <2>1, <2>2 DEF TruncateBuffer, StoreOK, Content, Buffer
  <2> QED  BY <1>14, <1>a, <2>5, <2>6, <2>7 DEF TruncateBuffer, StoreOK, ClientsOK
<1>15. ASSUME NEW c \in Clients, TruncateDisk(c)
       PROVE  StoreOK' /\ ClientsOK'
  <2> DEFINE p == task[c].path
  <2>1. p \in Paths /\ {} \in Content
    BY <1>15, RequestShape DEF TruncateDisk, Busy, Content
  <2>2. /\ disk' \in [Paths -> [exists : BOOLEAN, content : Content, mtime : Time]]
        /\ clock' \in Time
    BY <1>15, <1>a, <2>1, SetDiskTyped DEF TruncateDisk, StoreOK
  <2>a. disk[p].content \cap live[p] \in Content
    BY <1>a, <2>1 DEF StoreOK, Content
  <2>b. \/ misfiled' = misfiled
        \/ misfiled' = [misfiled EXCEPT !.overwritten = @ \cup (disk[p].content \cap live[p])]
    BY <1>15 DEF TruncateDisk
  <2>3. misfiled' \in [raced : Content, overwritten : Content, strayed : Content]
    BY <1>a, <2>a, <2>b DEF StoreOK, Content
  <2>4. task' \in [Clients -> Requests(Len(bufs'))]
    BY <1>15, <1>b, TaskTyped DEF TruncateDisk, Finish
  <2> QED  BY <1>15, <1>a, <2>2, <2>3, <2>4 DEF TruncateDisk, StoreOK, ClientsOK
<1>16. ASSUME NEW c \in Clients, NEW p \in Paths, Create(c, p)
       PROVE  StoreOK' /\ ClientsOK'
  <2> DEFINE r == [pc |-> "install", path |-> p]
  <2>1. {} \in Content /\ r \in Requests(Len(bufs)) /\ Become(c, r)
    BY <1>16 DEF Create, Content, Requests
  <2> HIDE DEF r
  <2>2. /\ disk' \in [Paths -> [exists : BOOLEAN, content : Content, mtime : Time]]
        /\ clock' \in Time
    BY <1>16, <2>1, SetDiskTyped DEF Create
  <2>3. task' \in [Clients -> Requests(Len(bufs'))]
    BY <1>16, <2>1, TaskTyped DEF Create
  <2>4. live' \in [Paths -> Content]
    BY <1>16, <1>a, <2>1 DEF Create, StoreOK
  <2> QED  BY <1>16, <1>a, <2>2, <2>3, <2>4 DEF Create, StoreOK, ClientsOK
<1>17. ASSUME NEW c \in Clients, CreateInstall(c)
       PROVE  StoreOK' /\ ClientsOK'
  <2>1. task[c].path \in Paths /\ {} \in Content /\ clock \in Time
    BY <1>17, <1>a, RequestShape DEF CreateInstall, Busy, Content, StoreOK
  <2>2. /\ bufs' \in Seq(Buffer) /\ Len(bufs') = Len(bufs) + 1
        /\ current' \in [Paths -> 0 .. Len(bufs')]
    BY <1>17, <2>1, CacheTyped DEF CreateInstall
  <2>3. ClientsOK'
    <3>1. Obtain(c, task[c].path, Len(bufs) + 1, "open")
      BY <1>17 DEF CreateInstall
    <3> QED  BY <1>b, <2>1, <2>2, <3>1, ObtainTyped
  <2> QED  BY <1>17, <1>a, <2>2, <2>3 DEF CreateInstall, StoreOK
<1>18. ASSUME NEW c \in Clients, NEW p \in Paths, Unlink(c, p)
       PROVE  StoreOK' /\ ClientsOK'
  <2> DEFINE r == [pc |-> "unlink", path |-> p]
  <2>1. r \in Requests(Len(bufs)) /\ Become(c, r)
    BY <1>18 DEF Unlink, Requests
  <2> HIDE DEF r
  <2>2. task' \in [Clients -> Requests(Len(bufs'))]
    BY <1>18, <2>1, TaskTyped DEF Unlink
  <2> QED  BY <1>18, <1>a, <2>2 DEF Unlink, StoreOK, ClientsOK
<1>19. ASSUME NEW h \in Handles(Len(bufs)), h # Closed, NEW N \in SUBSET Paths
       PROVE  [h EXCEPT !.names = N] \in Handles(Len(bufs))
  BY <1>19 DEF Handles
<1>20. ASSUME NEW c \in Clients, UnlinkDisk(c)
       PROVE  StoreOK' /\ ClientsOK'
  <2>1. task[c].path \in Paths /\ {} \in Content
    BY <1>20, RequestShape DEF UnlinkDisk, Busy, Content
  <2>2. disk' \in [Paths -> [exists : BOOLEAN, content : Content, mtime : Time]]
    BY <1>20, <1>a, <2>1 DEF UnlinkDisk, Gone, StoreOK
  <2>3. handle' \in [Clients -> Handles(Len(bufs))]
    <3>1. ASSUME NEW d \in Clients PROVE handle'[d] \in Handles(Len(bufs))
      <4>1. handle[d] \in Handles(Len(bufs))
        BY <1>a DEF ClientsOK
      <4>2. CASE handle[d] = Closed
        BY <1>20, <1>b, <4>2 DEF UnlinkDisk, Unlinked
      <4>3. CASE handle[d] # Closed
        <5>1. handle[d].names \ {task[c].path} \in SUBSET Paths
          BY <4>1, <4>3 DEF Handles
        <5> QED  BY <1>19, <1>20, <4>1, <4>3, <5>1 DEF UnlinkDisk, Unlinked
      <4> QED  BY <4>2, <4>3
    <3> QED  BY <1>20, <3>1 DEF UnlinkDisk, Unlinked
  <2>4. task' \in [Clients -> Requests(Len(bufs'))]
    BY <1>20, <1>b, TaskTyped DEF UnlinkDisk, Finish
  <2>5. live' \in [Paths -> Content]
    BY <1>20, <1>a, <2>1 DEF UnlinkDisk, StoreOK
  <2> QED  BY <1>20, <1>a, <2>2, <2>3, <2>4, <2>5 DEF UnlinkDisk, StoreOK, ClientsOK
<1>21. ASSUME NEW c \in Clients, NEW p \in Paths, NEW q \in Paths, Rename(c, p, q)
       PROVE  StoreOK' /\ ClientsOK'
  <2> DEFINE r == [pc |-> "forget", path |-> p]
  <2>1. r \in Requests(Len(bufs)) /\ Become(c, r) /\ {} \in Content
    BY <1>21 DEF Rename, Requests, Content
  <2> HIDE DEF r
  <2>2. disk' \in [Paths -> [exists : BOOLEAN, content : Content, mtime : Time]]
    BY <1>21, <1>a, <2>1 DEF Rename, Gone, StoreOK
  <2>3. handle' \in [Clients -> Handles(Len(bufs))]
    <3>1. ASSUME NEW d \in Clients PROVE handle'[d] \in Handles(Len(bufs))
      <4>1. handle[d] \in Handles(Len(bufs))
        BY <1>a DEF ClientsOK
      <4>2. CASE handle[d] = Closed
        BY <1>21, <1>b, <4>2 DEF Rename, Renamed
      <4>3. CASE handle[d] # Closed
        <5> DEFINE N == (handle[d].names \ {p, q}) \cup {s \in {q} : p \in handle[d].names}
        <5>1. N \in SUBSET Paths
          BY <4>1, <4>3 DEF Handles
        <5>2. handle'[d] = [handle[d] EXCEPT !.names = N]
          BY <1>21, <4>3 DEF Rename, Renamed
        <5> QED  BY <1>19, <4>1, <4>3, <5>1, <5>2
      <4> QED  BY <4>2, <4>3
    <3> QED  BY <1>21, <3>1 DEF Rename, Renamed
  <2>4. task' \in [Clients -> Requests(Len(bufs'))]
    BY <1>21, <2>1, TaskTyped DEF Rename
  <2>5. live' \in [Paths -> Content]
    BY <1>21, <1>a, <2>1 DEF Rename, StoreOK
  <2> QED  BY <1>21, <1>a, <2>2, <2>3, <2>4, <2>5 DEF Rename, StoreOK, ClientsOK
<1>22. ASSUME NEW c \in Clients, RenameForget(c)
       PROVE  StoreOK' /\ ClientsOK'
  <2>1. task[c].path \in Paths
    BY <1>22, RequestShape DEF RenameForget, Busy
  <2>2. task' \in [Clients -> Requests(Len(bufs'))]
    BY <1>22, <1>b, TaskTyped DEF RenameForget, Finish
  <2> QED  BY <1>22, <1>a, <2>1, <2>2 DEF RenameForget, StoreOK, ClientsOK
<1>23. ASSUME NEW p \in Paths, Refresh(p)
       PROVE  StoreOK' /\ ClientsOK'
  <2>1. issued + 1 \in 1 .. MaxWrites
    BY <1>23, <1>a, Bounds DEF Refresh, StoreOK
  <2>2. {issued + 1} \in Content
    BY <2>1 DEF Content
  <2>3. /\ disk' \in [Paths -> [exists : BOOLEAN, content : Content, mtime : Time]]
        /\ clock' \in Time
    BY <1>23, <2>2, SetDiskTyped DEF Refresh
  <2>4. live' \in [Paths -> Content]
    BY <1>23, <1>a DEF Refresh, StoreOK, Content
  <2> QED  BY <1>23, <1>a, <2>1, <2>3, <2>4 DEF Refresh, StoreOK, ClientsOK
<1>24. CASE UNCHANGED vars
  BY <1>24, <1>a DEF vars, StoreOK, ClientsOK
<1> QED  BY <1>2, <1>3, <1>4, <1>5, <1>6, <1>7, <1>9, <1>10, <1>11, <1>12, <1>13, <1>14, <1>15,
            <1>16, <1>17, <1>18, <1>20, <1>21, <1>22, <1>23, <1>24 DEF Next

\* Every table keeps its type, whatever the requests do at the same time.
THEOREM BuffersTypeCorrect == Spec => []TypeOK
<1>1. Init => TypeOK
  BY InitTyped
<1>2. TypeOK /\ [Next]_vars => TypeOK'
  BY TypeInductive
<1> QED  BY <1>1, <1>2, PTL DEF Spec

--------------------------------------------------------------------------------
(***************************************************************************)
(* UnsavedIsExplained.  A write that counts for a file is on the disk, was *)
(* hit by one of the races, or is held by a dirty buffer; and as long as   *)
(* the manager knows that buffer, somebody is bound to flush it.           *)
(***************************************************************************)
Lost == misfiled.raced \cup misfiled.overwritten \cup misfiled.strayed

Saved(p, w) == w \in disk[p].content \/ w \in Lost

Known(b) == \E q \in Paths : current[q] = b

\* A handle that stands for p, or a flush that has copied the buffer.
Attended(b, p) ==
  \E c \in Clients :
    \/ handle[c].buf = b /\ p \in handle[c].names
    \/ task[c].pc \in {"write", "clean"} /\ task[c].buf = b

Holds(b, p, w) ==
  /\ w \in bufs[b].content
  /\ bufs[b].dirty
  /\ Known(b) => Attended(b, p)

WritesHeld ==
  \A p \in Paths : \A w \in live[p] : Saved(p, w) \/ \E b \in BufferIds : Holds(b, p, w)

\* What a flush has written is saved until its buffer is marked clean.
FlushedSaved ==
  \A c \in Clients : task[c].pc = "clean" =>
    \A p \in Paths : \A w \in task[c].data \cap live[p] : Saved(p, w)

\* A write counts for one file.
LiveDisjoint == \A p, q \in Paths : p # q => live[p] \cap live[q] = {}

OneName == \A c \in Clients : handle[c] # Closed => \A p, q \in handle[c].names : p = q

\* Nothing holds a write that was not issued.
NumbersIssued ==
  /\ \A p \in Paths : live[p] \subseteq 1 .. issued /\ disk[p].content \subseteq 1 .. issued
  /\ \A b \in BufferIds : bufs[b].content \subseteq 1 .. issued
  /\ \A c \in Clients :
       task[c].pc \in {"insert", "write", "clean"} => task[c].data \subseteq 1 .. issued

\* The manager knows a buffer under one path, the one its users remember.
OnePath == \A p, q \in Paths : current[p] = current[q] => p = q \/ current[p] = 0

BufferOfPath ==
  \A c \in Clients, q \in Paths :
    current[q] # 0 =>
      /\ current[q] = handle[c].buf => q = handle[c].path
      /\ task[c].pc \in {"stat", "truncate", "stamp", "write", "clean"} /\ current[q] = task[c].buf
           => q = task[c].path

\* Who opens a file has none open.
Opening ==
  \A c \in Clients :
    \/ task[c].pc = "install"
    \/ task[c].pc \in {"stat", "load", "insert"} /\ task[c].goal = "open"
    => handle[c] = Closed

LEMMA OpeningKept == TypeOK /\ Opening /\ [Next]_vars => Opening'
<1> SUFFICES ASSUME TypeOK, Opening, [Next]_vars, NEW d \in Clients,
                    \/ task'[d].pc = "install"
                    \/ task'[d].pc \in {"stat", "load", "insert"} /\ task'[d].goal = "open"
             PROVE  handle'[d] = Closed
  BY DEF Opening
<1>a. StoreOK /\ ClientsOK
  BY TypeSplits
<1>b. \/ task[d].pc = "install"
      \/ task[d].pc \in {"stat", "load", "insert"} /\ task[d].goal = "open"
      => handle[d] = Closed
  BY DEF Opening
<1>1. ASSUME NEW c \in Clients, NEW p \in Paths, OpenFile(c, p) PROVE handle'[d] = Closed
  BY <1>1, <1>a, <1>b DEF OpenFile, GetOrLoad, Obtain, OpenHandle, Finish, Become, Ready, IsOpen, Idle, ClientsOK
<1>2. ASSUME NEW c \in Clients, NEW p \in Paths, SetSize(c, p) PROVE handle'[d] = Closed
  BY <1>2, <1>a, <1>b DEF SetSize, GetOrLoad, Obtain, OpenHandle, Finish, Become, Ready, IsOpen, Idle, ClientsOK
<1>3. ASSUME NEW c \in Clients, LoadStat(c) PROVE handle'[d] = Closed
  BY <1>3, <1>a, <1>b DEF LoadStat, Busy, Obtain, OpenHandle, Finish, Become, Idle, ClientsOK
<1>4. ASSUME NEW c \in Clients, LoadRead(c) PROVE handle'[d] = Closed
  BY <1>4, <1>a, <1>b DEF LoadRead, Busy, Finish, Become, Idle, ClientsOK
<1>5. ASSUME NEW c \in Clients, LoadInsert(c) PROVE handle'[d] = Closed
  BY <1>5, <1>a, <1>b DEF LoadInsert, Busy, Obtain, OpenHandle, Finish, Become, Idle, ClientsOK
<1>6. ASSUME NEW c \in Clients, Write(c) PROVE handle'[d] = Closed
  BY <1>6, <1>a, <1>b DEF Write
<1>7. ASSUME NEW c \in Clients, FlushHandle(c) PROVE handle'[d] = Closed
  BY <1>7, <1>a, <1>b DEF FlushHandle, Flush, Finish, Become, Idle, ClientsOK
<1>8. ASSUME NEW c \in Clients, Close(c) PROVE handle'[d] = Closed
  BY <1>8, <1>a, <1>b DEF Close, Flush, Finish, Become, Idle, ClientsOK
<1>9. ASSUME NEW c \in Clients, FlushWrite(c) PROVE handle'[d] = Closed
  BY <1>9, <1>a, <1>b, RequestShape DEF FlushWrite, Busy, Become, ClientsOK
<1>10. ASSUME NEW c \in Clients, FlushClean(c) PROVE handle'[d] = Closed
  BY <1>10, <1>a, <1>b DEF FlushClean, Busy, Become, ClientsOK
<1>11. ASSUME NEW c \in Clients, FlushStamp(c) PROVE handle'[d] = Closed
  BY <1>11, <1>a, <1>b DEF FlushStamp, Finish, Become, Idle, ClientsOK
<1>12. ASSUME NEW c \in Clients, TruncateBuffer(c) PROVE handle'[d] = Closed
  BY <1>12, <1>a, <1>b DEF TruncateBuffer, Become, ClientsOK
<1>13. ASSUME NEW c \in Clients, TruncateDisk(c) PROVE handle'[d] = Closed
  BY <1>13, <1>a, <1>b DEF TruncateDisk, Finish, Become, Idle, ClientsOK
<1>14. ASSUME NEW c \in Clients, NEW p \in Paths, Create(c, p) PROVE handle'[d] = Closed
  BY <1>14, <1>a, <1>b DEF Create, IsOpen, Become, ClientsOK
<1>15. ASSUME NEW c \in Clients, CreateInstall(c) PROVE handle'[d] = Closed
  BY <1>15, <1>a, <1>b DEF CreateInstall, Busy, Obtain, OpenHandle, Finish, Become, Idle, ClientsOK
<1>16. ASSUME NEW c \in Clients, NEW p \in Paths, Unlink(c, p) PROVE handle'[d] = Closed
  BY <1>16, <1>a, <1>b DEF Unlink, Become, ClientsOK
<1>17. ASSUME NEW c \in Clients, UnlinkDisk(c) PROVE handle'[d] = Closed
  BY <1>17, <1>a, <1>b DEF UnlinkDisk, Unlinked, Finish, Become, Idle, ClientsOK
<1>18. ASSUME NEW c \in Clients, NEW p \in Paths, NEW q \in Paths, Rename(c, p, q)
       PROVE  handle'[d] = Closed
  BY <1>18, <1>a, <1>b DEF Rename, Renamed, Become, ClientsOK
<1>19. ASSUME NEW c \in Clients, RenameForget(c) PROVE handle'[d] = Closed
  BY <1>19, <1>a, <1>b DEF RenameForget, Finish, Become, Idle, ClientsOK
<1>20. ASSUME NEW p \in Paths, Refresh(p) PROVE handle'[d] = Closed
  BY <1>20, <1>b DEF Refresh
<1>21. CASE UNCHANGED vars
  BY <1>21, <1>b DEF vars
<1> QED  BY <1>1, <1>2, <1>3, <1>4, <1>5, <1>6, <1>7, <1>8, <1>9, <1>10, <1>11, <1>12, <1>13, <1>14,
            <1>15, <1>16, <1>17, <1>18, <1>19, <1>20, <1>21 DEF Next

\* The manager forgets buffers, and learns new ones only.
LEMMA CurrentSteps ==
  ASSUME TypeOK, [Next]_vars
  PROVE  \/ current' = current /\ Len(bufs') = Len(bufs)
         \/ \E p \in Paths : current' = [current EXCEPT ![p] = 0] /\ Len(bufs') = Len(bufs)
         \/ \E p \in Paths, victims \in SUBSET Paths :
              /\ Len(bufs') = Len(bufs) + 1
              /\ current' = [q \in Paths |-> IF q = p THEN Len(bufs) + 1
                                             ELSE IF q \in victims THEN 0 ELSE current[q]]
<1> DEFINE Same == current' = current /\ Len(bufs') = Len(bufs)
           Drops == \E p \in Paths : current' = [current EXCEPT ![p] = 0] /\ Len(bufs') = Len(bufs)
           Learns == \E p \in Paths, victims \in SUBSET Paths :
                       /\ Len(bufs') = Len(bufs) + 1
                       /\ current' = [q \in Paths |-> IF q = p THEN Len(bufs) + 1
                                                      ELSE IF q \in victims THEN 0 ELSE current[q]]
<1> SUFFICES Same \/ Drops \/ Learns
  OBVIOUS
<1>a. StoreOK /\ ClientsOK
  BY TypeSplits
<1>b. ASSUME NEW p \in Paths, NEW data, NEW mtime, Cache(p, data, mtime) PROVE Learns
  <2>1. PICK victims \in SUBSET {q \in Paths : current[q] # 0 /\ ~ bufs[current[q]].dirty} :
          current' = [q \in Paths |-> IF q = p THEN Len(bufs) + 1
                                      ELSE IF q \in victims THEN 0 ELSE current[q]]
    BY <1>b DEF Cache
  <2>2. Len(bufs') = Len(bufs) + 1
    BY <1>a, <1>b DEF Cache, StoreOK
  <2> QED  BY <2>1, <2>2
<1>c. ASSUME NEW b, NEW x, bufs' = [bufs EXCEPT ![b] = x] PROVE Len(bufs') = Len(bufs)
  BY <1>a, <1>c DEF StoreOK
<1> HIDE DEF Learns
<1>1. ASSUME NEW c \in Clients, LoadStat(c) PROVE Same \/ Drops
  <2>1. task[c].path \in Paths
    BY <1>1, RequestShape DEF LoadStat, Busy
  <2> QED  BY <1>1, <2>1 DEF LoadStat
<1>2. ASSUME NEW c \in Clients, LoadInsert(c) PROVE Learns
  BY <1>2, <1>b, RequestShape DEF LoadInsert, Busy
<1>3. ASSUME NEW c \in Clients, CreateInstall(c) PROVE Learns
  BY <1>3, <1>b, RequestShape DEF CreateInstall, Busy
<1>4. ASSUME NEW c \in Clients, NEW p \in Paths, Unlink(c, p) PROVE Drops
  BY <1>4 DEF Unlink
<1>5. ASSUME NEW c \in Clients, RenameForget(c) PROVE Drops
  BY <1>5, RequestShape DEF RenameForget, Busy
<1>6. ASSUME NEW c \in Clients, Write(c) \/ FlushClean(c) \/ TruncateBuffer(c) PROVE Same
  BY <1>6, <1>c DEF Write, FlushClean, TruncateBuffer
<1>7. ASSUME NEW c \in Clients, FlushStamp(c) PROVE Same
  <2>1. bufs' = bufs \/ bufs' = [bufs EXCEPT ![task[c].buf] =
                                   [bufs[task[c].buf] EXCEPT !.mtime = disk[task[c].path].mtime]]
    BY <1>7 DEF FlushStamp
  <2> QED  BY <1>7, <1>c, <2>1 DEF FlushStamp
<1>8. CASE UNCHANGED vars
  BY <1>8 DEF vars
<1>9. ASSUME NEW c \in Clients,
             LoadRead(c) \/ FlushHandle(c) \/ Close(c) \/ FlushWrite(c) \/ TruncateDisk(c) \/ UnlinkDisk(c)
      PROVE  Same
  BY <1>9 DEF LoadRead, FlushHandle, Close, Flush, FlushWrite, TruncateDisk, UnlinkDisk
<1>10. ASSUME NEW c \in Clients, NEW p \in Paths, OpenFile(c, p) \/ SetSize(c, p) \/ Create(c, p)
       PROVE  Same
  BY <1>10 DEF OpenFile, SetSize, GetOrLoad, Create
<1>11. ASSUME NEW c \in Clients, NEW p \in Paths, NEW q \in Paths, Rename(c, p, q) PROVE Same
  BY <1>11 DEF Rename
<1>12. ASSUME NEW p \in Paths, Refresh(p) PROVE Same
  BY <1>12 DEF Refresh
<1> HIDE DEF Same, Drops
<1> QED
  BY <1>1, <1>2, <1>3, <1>4, <1>5, <1>6, <1>7, <1>8, <1>9, <1>10, <1>11, <1>12 DEF Next

LEMMA OnePathKept == TypeOK /\ OnePath /\ [Next]_vars => OnePath'
<1> SUFFICES ASSUME TypeOK, OnePath, [Next]_vars PROVE OnePath'
  OBVIOUS
<1>1. current \in [Paths -> 0 .. Len(bufs)] /\ Len(bufs) \in Nat
  BY TypeSplits DEF StoreOK
<1> QED  BY <1>1, CurrentSteps DEF OnePath

\* A buffer the manager does not know stays unknown.
LEMMA UnknownStays ==
  ASSUME TypeOK, [Next]_vars, NEW b \in BufferIds, NEW q \in Paths, current'[q] = b
  PROVE  current[q] = b
<1>1. current \in [Paths -> 0 .. Len(bufs)] /\ Len(bufs) \in Nat /\ b \in 1 .. Len(bufs)
  BY TypeSplits DEF StoreOK, BufferIds
<1> QED  BY <1>1, CurrentSteps

LEMMA BuffersStay ==
  ASSUME TypeOK, [Next]_vars, NEW b \in BufferIds
  PROVE  b \in BufferIds'
<1>1. Len(bufs) \in Nat
  BY TypeSplits DEF StoreOK
<1> QED  BY <1>1, CurrentSteps DEF BufferIds

LEMMA OneNameKept == TypeOK /\ OneName /\ [Next]_vars => OneName'
<1> SUFFICES ASSUME TypeOK, OneName, [Next]_vars, NEW d \in Clients, handle'[d] # Closed
             PROVE  \A a, b \in handle'[d].names : a = b
  BY DEF OneName
<1>a. ClientsOK
  BY TypeSplits
<1>b. handle[d] # Closed => \A a, b \in handle[d].names : a = b
  BY DEF OneName
<1> DEFINE Goal == \A a, b \in handle'[d].names : a = b
<1>1. ASSUME NEW c \in Clients, NEW p, NEW b, NEW goal, Obtain(c, p, b, goal)
      PROVE  Goal
  BY <1>1, <1>a, <1>b DEF Obtain, OpenHandle, ClientsOK
<1>2. ASSUME NEW c \in Clients, NEW p \in Paths, OpenFile(c, p) \/ SetSize(c, p)
      PROVE  Goal
  BY <1>1, <1>2, <1>b DEF OpenFile, SetSize, GetOrLoad
<1>3. ASSUME NEW c \in Clients, LoadStat(c) \/ LoadInsert(c) \/ CreateInstall(c)
      PROVE  Goal
  BY <1>1, <1>3, <1>b DEF LoadStat, LoadInsert, CreateInstall
<1>4. ASSUME NEW c \in Clients, Close(c) PROVE Goal
  BY <1>4, <1>a, <1>b DEF Close, ClientsOK
<1>5. ASSUME NEW c \in Clients, UnlinkDisk(c) PROVE Goal
  BY <1>5, <1>a, <1>b DEF UnlinkDisk, Unlinked, ClientsOK
<1>6. ASSUME NEW c \in Clients, NEW p \in Paths, NEW q \in Paths, Rename(c, p, q) PROVE Goal
  BY <1>6, <1>a, <1>b DEF Rename, Renamed, ClientsOK
<1>7. ASSUME NEW c \in Clients,
             \/ LoadRead(c) \/ Write(c) \/ FlushHandle(c) \/ FlushWrite(c) \/ FlushClean(c)
             \/ FlushStamp(c) \/ TruncateBuffer(c) \/ TruncateDisk(c) \/ RenameForget(c)
      PROVE  Goal
  BY <1>7, <1>b DEF LoadRead, Write, FlushHandle, FlushWrite, FlushClean, FlushStamp,
                    TruncateBuffer, TruncateDisk, RenameForget
<1>8. ASSUME NEW c \in Clients, NEW p \in Paths, Create(c, p) \/ Unlink(c, p) PROVE Goal
  BY <1>8, <1>b DEF Create, Unlink
<1>9. ASSUME NEW p \in Paths, Refresh(p) PROVE Goal
  BY <1>9, <1>b DEF Refresh
<1>10. CASE UNCHANGED vars
  BY <1>10, <1>b DEF vars
<1> QED  BY <1>2, <1>3, <1>4, <1>5, <1>6, <1>7, <1>8, <1>9, <1>10 DEF Next

\* What holds a write has a number that was issued.
LEMMA NumbersIssuedKept == TypeOK /\ NumbersIssued /\ [Next]_vars => NumbersIssued'
<1> SUFFICES ASSUME TypeOK, NumbersIssued, [Next]_vars PROVE NumbersIssued'
  OBVIOUS
<1>a. StoreOK /\ ClientsOK /\ issued \in Nat /\ Len(bufs) \in Nat
  BY TypeSplits, Bounds DEF StoreOK
<1> DEFINE Files == \A p \in Paths : live'[p] \subseteq 1 .. issued' /\ disk'[p].content \subseteq 1 .. issued'
           Copies == \A b \in BufferIds' : bufs'[b].content \subseteq 1 .. issued'
           Carried == \A c \in Clients : task'[c].pc \in {"insert", "write", "clean"}
                                           => task'[c].data \subseteq 1 .. issued'
<1> SUFFICES Files /\ Copies /\ Carried
  BY DEF NumbersIssued
<1>b. 1 .. issued \subseteq 1 .. (issued + 1)
  BY <1>a
<1>e. ASSUME issued' = issued, disk' = disk, live' = live PROVE Files
  BY <1>e DEF NumbersIssued
<1>f. ASSUME issued' = issued \/ issued' = issued + 1, \A p \in Paths : live'[p] \subseteq live[p],
             \A p \in Paths : disk'[p].content \subseteq disk[p].content \cup (1 .. issued')
      PROVE  Files
  <2>1. ASSUME NEW p \in Paths PROVE live'[p] \subseteq 1 .. issued' /\ disk'[p].content \subseteq 1 .. issued'
    <3>1. live[p] \subseteq 1 .. issued /\ disk[p].content \subseteq 1 .. issued
      BY DEF NumbersIssued
    <3>2. 1 .. issued \subseteq 1 .. issued'
      BY <1>b, <1>f
    <3>3. live'[p] \subseteq live[p] /\ disk'[p].content \subseteq disk[p].content \cup (1 .. issued')
      BY <1>f
    <3> QED  BY <3>1, <3>2, <3>3
  <2> QED  BY <2>1
<1>g. ASSUME bufs' = bufs, issued' = issued \/ issued' = issued + 1
      PROVE  Copies
  BY <1>g, <1>b DEF NumbersIssued, BufferIds
<1>h. ASSUME NEW c \in Clients, NEW r, Become(c, r), issued' = issued \/ issued' = issued + 1,
             r.pc \in {"insert", "write", "clean"} => r.data \subseteq 1 .. issued
      PROVE  Carried
  BY <1>h, <1>a, <1>b DEF NumbersIssued, Become, ClientsOK
<1>i. ASSUME task' = task, issued' = issued \/ issued' = issued + 1
      PROVE  Carried
  BY <1>i, <1>b DEF NumbersIssued
<1>j. Idle.pc = "idle"
  BY DEF Idle
<1>k. ASSUME NEW c \in Clients, NEW p, NEW b, NEW goal, Obtain(c, p, b, goal), issued' = issued
      PROVE  Carried
  BY <1>h, <1>j, <1>k DEF Obtain, Finish
<1>l. ASSUME NEW p \in Paths, NEW data \in SUBSET (1 .. issued), NEW mtime, Cache(p, data, mtime), issued' = issued
      PROVE  Copies
  <2>1. bufs' = Append(bufs, [content |-> data, dirty |-> FALSE, mtime |-> mtime])
    BY <1>l DEF Cache
  <2>2. bufs \in Seq(Buffer) /\ [content |-> data, dirty |-> FALSE, mtime |-> mtime].content = data
    BY <1>a DEF StoreOK
  <2>3. ASSUME NEW b \in BufferIds' PROVE bufs'[b].content \subseteq 1 .. issued
    <3>1. CASE b = Len(bufs) + 1
      BY <1>l, <2>1, <2>2, <3>1
    <3>2. CASE b # Len(bufs) + 1
      BY <1>a, <2>1, <2>2, <3>2 DEF NumbersIssued, BufferIds
    <3> QED  BY <3>1, <3>2
  <2> QED  BY <1>l, <2>3
<1> HIDE DEF Files, Copies, Carried
<1>1. ASSUME NEW c \in Clients, NEW p \in Paths, NEW goal, GetOrLoad(c, p, goal)
      PROVE  Files /\ Copies /\ Carried
  <2>1. issued' = issued /\ disk' = disk /\ live' = live /\ bufs' = bufs
    BY <1>1 DEF GetOrLoad
  <2>2. Carried
    <3> DEFINE r == [pc |-> "stat", path |-> p, buf |-> current[p], goal |-> goal]
    <3>1. Obtain(c, p, current[p], goal) \/ Become(c, r)
      BY <1>1 DEF GetOrLoad
    <3> QED  BY <1>h, <1>k, <2>1, <3>1
  <2> QED  BY <1>e, <1>g, <2>1, <2>2
<1>2. ASSUME NEW c \in Clients, NEW p \in Paths, OpenFile(c, p) \/ SetSize(c, p)
      PROVE  Files /\ Copies /\ Carried
  BY <1>1, <1>2 DEF OpenFile, SetSize
<1>3. ASSUME NEW c \in Clients, LoadStat(c) PROVE Files /\ Copies /\ Carried
  <2>1. issued' = issued /\ disk' = disk /\ live' = live /\ bufs' = bufs
    BY <1>3 DEF LoadStat
  <2>2. Carried
    <3> DEFINE r == [pc |-> "load", path |-> task[c].path, mtime |-> disk[task[c].path].mtime,
                     goal |-> task[c].goal]
    <3>1. Obtain(c, task[c].path, task[c].buf, task[c].goal) \/ Become(c, r) \/ Become(c, Idle)
      BY <1>3 DEF LoadStat, Finish
    <3> QED  BY <1>h, <1>j, <1>k, <2>1, <3>1
  <2> QED  BY <1>e, <1>g, <2>1, <2>2
<1>4. ASSUME NEW c \in Clients, LoadRead(c) PROVE Files /\ Copies /\ Carried
  <2>1. issued' = issued /\ disk' = disk /\ live' = live /\ bufs' = bufs
    BY <1>4 DEF LoadRead
  <2>2. Carried
    <3> DEFINE r == [pc |-> "insert", path |-> task[c].path, data |-> disk[task[c].path].content,
                     mtime |-> task[c].mtime, goal |-> task[c].goal]
    <3>1. Become(c, r) \/ Become(c, Idle)
      BY <1>4 DEF LoadRead, Finish
    <3>2. r.data \subseteq 1 .. issued
      BY <1>4, RequestShape DEF LoadRead, Busy, NumbersIssued
    <3> QED  BY <1>h, <1>j, <2>1, <3>1, <3>2
  <2> QED  BY <1>e, <1>g, <2>1, <2>2
<1>5. ASSUME NEW c \in Clients, LoadInsert(c) PROVE Files /\ Copies /\ Carried
  <2>1. issued' = issued /\ disk' = disk /\ live' = live
    BY <1>5 DEF LoadInsert
  <2>2. task[c].path \in Paths /\ task[c].data \in SUBSET (1 .. issued)
    BY <1>5, RequestShape DEF LoadInsert, Busy, NumbersIssued
  <2> QED  BY <1>5, <1>e, <1>k, <1>l, <2>1, <2>2 DEF LoadInsert
<1>6. ASSUME NEW c \in Clients, Write(c) PROVE Files /\ Copies /\ Carried
  <2>1. issued' = issued + 1 /\ disk' = disk /\ task' = task
    BY <1>6 DEF Write
  <2>2. \A p \in Paths : live'[p] \subseteq live[p] \cup {issued'}
    BY <1>6 DEF Write, Acknowledge
  <2>3. Files
    <3>1. 1 .. issued \subseteq 1 .. issued' /\ issued' \in 1 .. issued'
      BY <1>a, <2>1
    <3>2. \A p \in Paths : live'[p] \subseteq 1 .. issued' /\ disk'[p].content \subseteq 1 .. issued'
      BY <2>1, <2>2, <3>1 DEF NumbersIssued
    <3> QED  BY <3>2 DEF Files
  <2>4. Copies
    <3>1. handle[c].buf \in BufferIds
      BY <1>6, <1>a DEF Write, IsOpen, ClientsOK, Handles, BufferIds
    <3>2. bufs' = [bufs EXCEPT ![handle[c].buf] =
                    [content |-> bufs[handle[c].buf].content \cup {issued + 1}, dirty |-> TRUE, mtime |-> clock]]
      BY <1>6 DEF Write
    <3> QED  BY <1>a, <2>1, <3>1, <3>2 DEF Copies, NumbersIssued, BufferIds, StoreOK
  <2> QED  BY <1>i, <2>1, <2>3, <2>4
<1>7. ASSUME NEW c \in Clients, NEW p \in Paths, Flush(c, p) PROVE Files /\ Copies /\ Carried
  <2>1. issued' = issued /\ disk' = disk /\ live' = live /\ bufs' = bufs
    BY <1>7 DEF Flush
  <2>2. Carried
    <3> DEFINE r == [pc |-> "write", path |-> p, buf |-> current[p], data |-> bufs[current[p]].content]
    <3>1. (Become(c, r) /\ current[p] # 0) \/ Become(c, Idle)
      BY <1>7 DEF Flush, Finish
    <3>2. ASSUME current[p] # 0 PROVE r.data \subseteq 1 .. issued
      BY <1>a, <3>2 DEF StoreOK, NumbersIssued, BufferIds
    <3> HIDE DEF r
    <3> QED  BY <1>h, <1>j, <2>1, <3>1, <3>2
  <2> QED  BY <1>e, <1>g, <2>1, <2>2
<1>8. ASSUME NEW c \in Clients, FlushHandle(c) \/ Close(c) PROVE Files /\ Copies /\ Carried
  <2>1. handle[c].path \in Paths
    BY <1>8, <1>a DEF FlushHandle, Close, IsOpen, ClientsOK, Handles
  <2> QED  BY <1>7, <1>8, <2>1 DEF FlushHandle, Close
<1>9. ASSUME NEW c \in Clients, FlushWrite(c) PROVE Files /\ Copies /\ Carried
  <2>1. issued' = issued /\ live' = live /\ bufs' = bufs
    BY <1>9 DEF FlushWrite
  <2>2. /\ task[c].path \in Paths /\ task[c].data \subseteq 1 .. issued
        /\ task[c] = [pc |-> task[c].pc, path |-> task[c].path, buf |-> task[c].buf, data |-> task[c].data]
    BY <1>9, RequestShape DEF FlushWrite, Busy, NumbersIssued
  <2>3. Files
    <3>1. disk' = [disk EXCEPT ![task[c].path] = [exists |-> TRUE, content |-> task[c].data, mtime |-> clock + 1]]
      BY <1>9 DEF FlushWrite, SetDisk
    <3>2. \A p \in Paths : disk'[p].content \subseteq disk[p].content \cup (1 .. issued')
      BY <1>a, <2>1, <2>2, <3>1 DEF StoreOK
    <3> QED  BY <1>f, <2>1, <3>2
  <2>4. Carried
    <3> DEFINE r == [task[c] EXCEPT !.pc = "clean"]
    <3>1. Become(c, r) /\ r.data = task[c].data
      BY <1>9, <2>2 DEF FlushWrite
    <3> HIDE DEF r
    <3> QED  BY <1>h, <2>1, <2>2, <3>1
  <2> QED  BY <1>g, <2>1, <2>3, <2>4
<1>10. ASSUME NEW b \in BufferIds, NEW x, bufs' = [bufs EXCEPT ![b] = x],
              x.content \subseteq bufs[b].content, issued' = issued
       PROVE  Copies
  BY <1>10, <1>a DEF Copies, NumbersIssued, BufferIds, StoreOK
<1>11. ASSUME NEW c \in Clients, FlushClean(c) PROVE Files /\ Copies /\ Carried
  <2> DEFINE b == task[c].buf
             x == [bufs[b] EXCEPT !.dirty = FALSE]
             r == [pc |-> "stamp", path |-> task[c].path, buf |-> b]
  <2>1. b \in BufferIds /\ issued' = issued /\ live' = live /\ disk' = disk
    BY <1>11, RequestShape DEF FlushClean, Busy
  <2>2. bufs' = [bufs EXCEPT ![b] = x] /\ Become(c, r)
    BY <1>11 DEF FlushClean
  <2>a. bufs[b] \in Buffer
    BY <1>a, <2>1 DEF StoreOK, BufferIds
  <2>3. x.content = bufs[b].content
    BY <2>a DEF Buffer
  <2> HIDE DEF x
  <2> QED  BY <1>e, <1>h, <1>10, <2>1, <2>2, <2>3
<1>12. ASSUME NEW c \in Clients, FlushStamp(c) PROVE Files /\ Copies /\ Carried
  <2> DEFINE b == task[c].buf
             x == [bufs[b] EXCEPT !.mtime = disk[task[c].path].mtime]
  <2>1. b \in BufferIds /\ issued' = issued /\ live' = live /\ disk' = disk /\ Become(c, Idle)
    BY <1>12, RequestShape DEF FlushStamp, Busy, Finish
  <2>2. bufs' = [bufs EXCEPT ![b] = x] \/ bufs' = bufs
    BY <1>12 DEF FlushStamp
  <2>a. bufs[b] \in Buffer
    BY <1>a, <2>1 DEF StoreOK, BufferIds
  <2>3. x.content = bufs[b].content
    BY <2>a DEF Buffer
  <2> HIDE DEF x
  <2> QED  BY <1>e, <1>g, <1>h, <1>j, <1>10, <2>1, <2>2, <2>3
<1>13. ASSUME NEW c \in Clients, TruncateBuffer(c) PROVE Files /\ Copies /\ Carried
  <2> DEFINE x == [content |-> {}, dirty |-> TRUE, mtime |-> clock]
             r == [pc |-> "setlen", path |-> task[c].path]
  <2>1. task[c].buf \in BufferIds /\ task[c].path \in Paths /\ issued' = issued /\ disk' = disk
    BY <1>13, RequestShape DEF TruncateBuffer, Busy
  <2>2. bufs' = [bufs EXCEPT ![task[c].buf] = x] /\ Become(c, r) /\ live' = [live EXCEPT ![task[c].path] = {}]
    BY <1>13 DEF TruncateBuffer
  <2>3. Copies /\ Carried
    BY <1>h, <1>10, <2>1, <2>2
  <2>4. \A p \in Paths : live'[p] \subseteq live[p]
    BY <1>a, <2>1, <2>2 DEF StoreOK
  <2> QED  BY <1>f, <2>1, <2>3, <2>4
<1>14. ASSUME NEW c \in Clients, TruncateDisk(c) PROVE Files /\ Copies /\ Carried
  <2>1. issued' = issued /\ live' = live /\ bufs' = bufs /\ Become(c, Idle) /\ task[c].path \in Paths
    BY <1>14, RequestShape DEF TruncateDisk, Busy, Finish
  <2>2. \A p \in Paths : disk'[p].content \subseteq disk[p].content
    BY <1>14, <1>a, <2>1 DEF TruncateDisk, SetDisk, StoreOK
  <2> QED  BY <1>f, <1>g, <1>h, <1>j, <2>1, <2>2
<1>15. ASSUME NEW c \in Clients, NEW p \in Paths, Create(c, p) PROVE Files /\ Copies /\ Carried
  <2>1. issued' = issued /\ bufs' = bufs /\ Become(c, [pc |-> "install", path |-> p])
    BY <1>15 DEF Create
  <2>2. \A q \in Paths : disk'[q].content \subseteq disk[q].content /\ live'[q] \subseteq live[q]
    BY <1>15, <1>a DEF Create, SetDisk, StoreOK
  <2> QED  BY <1>f, <1>g, <1>h, <2>1, <2>2
<1>16. ASSUME NEW c \in Clients, CreateInstall(c) PROVE Files /\ Copies /\ Carried
  <2>1. issued' = issued /\ disk' = disk /\ live' = live
    BY <1>16 DEF CreateInstall
  <2>2. task[c].path \in Paths /\ {} \in SUBSET (1 .. issued)
    BY <1>16, RequestShape DEF CreateInstall, Busy
  <2> QED  BY <1>16, <1>e, <1>k, <1>l, <2>1, <2>2 DEF CreateInstall
<1>17. ASSUME NEW c \in Clients, NEW p \in Paths, Unlink(c, p) PROVE Files /\ Copies /\ Carried
  <2>1. /\ issued' = issued /\ disk' = disk /\ live' = live /\ bufs' = bufs
        /\ Become(c, [pc |-> "unlink", path |-> p])
    BY <1>17 DEF Unlink
  <2> QED  BY <1>e, <1>g, <1>h, <2>1
<1>18. ASSUME NEW c \in Clients, UnlinkDisk(c) PROVE Files /\ Copies /\ Carried
  <2>1. issued' = issued /\ bufs' = bufs /\ Become(c, Idle) /\ task[c].path \in Paths
    BY <1>18, RequestShape DEF UnlinkDisk, Busy, Finish
  <2>2. \A p \in Paths : disk'[p].content \subseteq disk[p].content /\ live'[p] \subseteq live[p]
    BY <1>18, <1>a, <2>1 DEF UnlinkDisk, Gone, StoreOK
  <2> QED  BY <1>f, <1>g, <1>h, <1>j, <2>1, <2>2
<1>19. ASSUME NEW c \in Clients, NEW p \in Paths, NEW q \in Paths, Rename(c, p, q)
       PROVE  Files /\ Copies /\ Carried
  <2>1. issued' = issued /\ bufs' = bufs /\ Become(c, [pc |-> "forget", path |-> p])
    BY <1>19 DEF Rename
  <2>2. Files
    BY <1>19, <1>a DEF Rename, Gone, StoreOK, Files, NumbersIssued
  <2> QED  BY <1>g, <1>h, <2>1, <2>2
<1>20. ASSUME NEW c \in Clients, RenameForget(c) PROVE Files /\ Copies /\ Carried
  <2>1. issued' = issued /\ disk' = disk /\ live' = live /\ bufs' = bufs /\ Become(c, Idle)
    BY <1>20 DEF RenameForget, Finish
  <2> QED  BY <1>e, <1>g, <1>h, <1>j, <2>1
<1>21. ASSUME NEW p \in Paths, Refresh(p) PROVE Files /\ Copies /\ Carried
  <2>1. issued' = issued + 1 /\ bufs' = bufs /\ task' = task
    BY <1>21 DEF Refresh
  <2>2. \A q \in Paths : live'[q] \subseteq live[q] /\ disk'[q].content \subseteq 1 .. issued'
    BY <1>21, <1>a, <1>b DEF Refresh, SetDisk, StoreOK, NumbersIssued
  <2> QED  BY <1>a, <1>f, <1>g, <1>i, <2>1, <2>2
<1>22. CASE UNCHANGED vars
  BY <1>22, <1>e, <1>g, <1>i DEF vars
<1> QED  BY <1>2, <1>3, <1>4, <1>5, <1>6, <1>8, <1>9, <1>11, <1>12, <1>13, <1>14, <1>15, <1>16,
            <1>17, <1>18, <1>19, <1>20, <1>21, <1>22 DEF Next

LEMMA BufferOfPathKept == TypeOK /\ OnePath /\ BufferOfPath /\ [Next]_vars => BufferOfPath'
<1> SUFFICES ASSUME TypeOK, OnePath, BufferOfPath, [Next]_vars,
                    NEW d \in Clients, NEW s \in Paths, current'[s] # 0
             PROVE  /\ current'[s] = handle'[d].buf => s = handle'[d].path
                    /\ task'[d].pc \in {"stat", "truncate", "stamp", "write", "clean"} /\ current'[s] = task'[d].buf
                         => s = task'[d].path
  BY DEF BufferOfPath
<1> DEFINE HandlePart == current'[s] = handle'[d].buf => s = handle'[d].path
           TaskPart == task'[d].pc \in {"stat", "truncate", "stamp", "write", "clean"} /\ current'[s] = task'[d].buf
                         => s = task'[d].path
<1> SUFFICES HandlePart /\ TaskPart
  OBVIOUS
<1>a. StoreOK /\ ClientsOK /\ Len(bufs) \in Nat
  BY TypeSplits DEF StoreOK
<1>b. /\ current[s] # 0 /\ current[s] = handle[d].buf => s = handle[d].path
      /\ current[s] # 0 /\ task[d].pc \in {"stat", "truncate", "stamp", "write", "clean"}
         /\ current[s] = task[d].buf => s = task[d].path
  BY DEF BufferOfPath
\* Nothing is learned: what stays, stays under its path.
<1>c. ASSUME current'[s] = current[s], handle'[d] = handle[d] PROVE HandlePart
  BY <1>b, <1>c
<1>d. ASSUME current'[s] = current[s],
             \/ task'[d] = task[d]
             \/ ~ (task'[d].pc \in {"stat", "truncate", "stamp", "write", "clean"})
             \/ task'[d].buf = current[task'[d].path] /\ task'[d].path \in Paths
             \/ /\ task[d].pc \in {"stat", "truncate", "stamp", "write", "clean"}
                /\ task'[d].buf = task[d].buf /\ task'[d].path = task[d].path
      PROVE  TaskPart
  BY <1>b, <1>d DEF OnePath
<1>e. ASSUME NEW c \in Clients, NEW p \in Paths, NEW b, NEW goal \in {"open", "truncate"},
             Obtain(c, p, b, goal), current'[s] = current[s],
             b = current[s] => s = p
      PROVE  HandlePart /\ TaskPart
  BY <1>a, <1>b, <1>e DEF Obtain, OpenHandle, Finish, Become, ClientsOK, Idle
<1>i. ASSUME NEW c \in Clients, NEW r, Become(c, r), handle' = handle, current' = current,
             \/ ~ (r.pc \in {"stat", "truncate", "stamp", "write", "clean"})
             \/ r.buf = current[r.path] /\ r.path \in Paths
             \/ /\ task[c].pc \in {"stat", "truncate", "stamp", "write", "clean"}
                /\ r.buf = task[c].buf /\ r.path = task[c].path
      PROVE  HandlePart /\ TaskPart
  BY <1>i, <1>a, <1>c, <1>d DEF Become, ClientsOK
<1>j. Idle.pc = "idle"
  BY DEF Idle
<1> HIDE DEF HandlePart, TaskPart
<1>1. ASSUME NEW c \in Clients, NEW p \in Paths, NEW goal \in {"open", "truncate"}, GetOrLoad(c, p, goal)
      PROVE  HandlePart /\ TaskPart
  <2>1. CASE current[p] # 0 /\ bufs[current[p]].dirty
    <3>1. Obtain(c, p, current[p], goal) /\ current' = current
      BY <1>1, <2>1 DEF GetOrLoad
    <3>2. current[p] = current[s] => s = p
      BY <2>1 DEF OnePath
    <3> QED  BY <1>e, <3>1, <3>2
  <2>2. CASE ~ (current[p] # 0 /\ bufs[current[p]].dirty)
    BY <1>1, <1>i, <2>2 DEF GetOrLoad
  <2> QED  BY <2>1, <2>2
<1>2. ASSUME NEW c \in Clients, NEW p \in Paths, OpenFile(c, p) \/ SetSize(c, p)
      PROVE  HandlePart /\ TaskPart
  BY <1>1, <1>2 DEF OpenFile, SetSize
<1>3. ASSUME NEW c \in Clients, LoadStat(c) PROVE HandlePart /\ TaskPart
  <2> DEFINE p == task[c].path
             b == task[c].buf
             stale == disk[p].exists /\ (b # 0 => disk[p].mtime > bufs[b].mtime)
             r == [pc |-> "load", path |-> p, mtime |-> disk[p].mtime, goal |-> task[c].goal]
  <2>1. p \in Paths /\ task[c].goal \in {"open", "truncate"} /\ task[c].pc = "stat"
    BY <1>3, RequestShape DEF LoadStat, Busy
  <2>2. CASE stale
    <3>1. Become(c, r) /\ handle' = handle /\ (current'[s] = current[s] \/ current'[s] = 0)
      BY <1>3, <1>a, <2>1, <2>2 DEF LoadStat, StoreOK
    <3> QED  BY <1>a, <1>c, <1>d, <3>1 DEF Become, ClientsOK
  <2>3. CASE ~ stale /\ b = 0
    BY <1>3, <1>i, <1>j, <2>3 DEF LoadStat, Finish
  <2>4. CASE ~ stale /\ b # 0
    <3>1. Obtain(c, p, b, task[c].goal) /\ current' = current
      BY <1>3, <2>4 DEF LoadStat
    <3>2. b = current[s] => s = p
      BY <2>1, <2>4 DEF BufferOfPath
    <3> QED  BY <1>e, <2>1, <3>1, <3>2
  <2> QED  BY <2>2, <2>3, <2>4
<1>4. ASSUME NEW c \in Clients, LoadRead(c) PROVE HandlePart /\ TaskPart
  BY <1>4, <1>i, <1>j DEF LoadRead, Finish
\* A buffer that is new belongs to whoever inserted it.
<1>5. ASSUME NEW c \in Clients, NEW p \in Paths, NEW data, NEW mtime, Cache(p, data, mtime),
             NEW goal \in {"open", "truncate"}, Obtain(c, p, Len(bufs) + 1, goal)
      PROVE  HandlePart /\ TaskPart
  <2>1. current'[s] = IF s = p THEN Len(bufs) + 1 ELSE current[s]
    BY <1>5, <1>a DEF Cache, StoreOK
  <2>2. CASE s = p
    <3>1. handle[d].buf # Len(bufs) + 1
      BY <1>a DEF ClientsOK, Handles, Closed
    <3>2. task[d].pc \in {"stat", "truncate", "stamp", "write", "clean"} => task[d].buf # Len(bufs) + 1
      <4>1. CASE task[d].pc = "stat"
        <5>1. task[d].buf \in 0 .. Len(bufs)
          BY <4>1, RequestShape
        <5> QED  BY <1>a, <5>1
      <4>2. CASE task[d].pc \in {"truncate", "stamp", "write", "clean"}
        <5>1. task[d].buf \in BufferIds
          BY <4>2, RequestShape
        <5> QED  BY <1>a, <5>1 DEF BufferIds
      <4> QED  BY <4>1, <4>2
    <3>3. current'[s] = Len(bufs) + 1
      BY <2>1, <2>2
    <3>4. handle'[d] = handle[d] \/ handle'[d].path = p
      BY <1>5, <1>a DEF Obtain, OpenHandle, ClientsOK
    <3>5. task'[d] = task[d] \/ task'[d].pc = "idle" \/ task'[d].path = p
      BY <1>5, <1>a, <1>j DEF Obtain, Finish, Become, ClientsOK
    <3> QED  BY <2>2, <3>1, <3>2, <3>3, <3>4, <3>5 DEF HandlePart, TaskPart
  <2>3. CASE s # p
    <3>1. current'[s] = current[s] /\ Len(bufs) + 1 # current[s]
      BY <1>a, <2>1, <2>3 DEF StoreOK
    <3> QED  BY <1>5, <1>e, <3>1
  <2> QED  BY <2>2, <2>3
<1>6. ASSUME NEW c \in Clients, LoadInsert(c) PROVE HandlePart /\ TaskPart
  BY <1>5, <1>6, RequestShape DEF LoadInsert, Busy
<1>7. ASSUME NEW c \in Clients, CreateInstall(c) PROVE HandlePart /\ TaskPart
  BY <1>5, <1>7, RequestShape DEF CreateInstall, Busy
<1>8. ASSUME NEW c \in Clients, NEW p \in Paths, Flush(c, p), handle' = handle \/ handle' = [handle EXCEPT ![c] = Closed]
      PROVE  HandlePart /\ TaskPart
  <2> DEFINE r == [pc |-> "write", path |-> p, buf |-> current[p], data |-> bufs[current[p]].content]
  <2>1. Become(c, r) \/ Become(c, Idle)
    BY <1>8 DEF Flush, Finish
  <2>2. current' = current
    BY <1>8 DEF Flush
  <2>3. HandlePart
    <3>1. handle'[d] = handle[d] \/ handle'[d].buf = 0
      BY <1>8, <1>a DEF ClientsOK, Closed
    <3> QED  BY <1>c, <2>2, <3>1 DEF HandlePart
  <2>4. TaskPart
    <3>1. task'[d] = task[d] \/ task'[d] = r \/ task'[d] = Idle
      BY <1>a, <2>1 DEF Become, ClientsOK
    <3> QED  BY <1>d, <1>j, <2>2, <3>1
  <2> QED  BY <2>3, <2>4
<1>9. ASSUME NEW c \in Clients, FlushHandle(c) \/ Close(c) PROVE HandlePart /\ TaskPart
  <2>1. handle[c].path \in Paths
    BY <1>9, <1>a DEF FlushHandle, Close, IsOpen, ClientsOK, Handles
  <2> QED  BY <1>8, <1>9, <2>1 DEF FlushHandle, Close
<1>10. ASSUME NEW c \in Clients, FlushWrite(c) PROVE HandlePart /\ TaskPart
  <2>1. task[c].pc = "write" /\ task[c] = [pc |-> task[c].pc, path |-> task[c].path,
                                           buf |-> task[c].buf, data |-> task[c].data]
    BY <1>10, RequestShape DEF FlushWrite, Busy
  <2> DEFINE r == [task[c] EXCEPT !.pc = "clean"]
  <2>2. r.buf = task[c].buf /\ r.path = task[c].path
    BY <2>1
  <2> HIDE DEF r
  <2>3. Become(c, r) /\ handle' = handle /\ current' = current
    BY <1>10 DEF FlushWrite, r
  <2> QED  BY <1>i, <2>1, <2>2, <2>3
<1>11. ASSUME NEW c \in Clients, FlushClean(c) PROVE HandlePart /\ TaskPart
  BY <1>11, <1>i DEF FlushClean, Busy
<1>12. ASSUME NEW c \in Clients,
              FlushStamp(c) \/ TruncateDisk(c)
       PROVE  HandlePart /\ TaskPart
  BY <1>12, <1>i, <1>j DEF FlushStamp, TruncateDisk, Finish
<1>13. ASSUME NEW c \in Clients, TruncateBuffer(c) PROVE HandlePart /\ TaskPart
  BY <1>13, <1>i DEF TruncateBuffer
<1>14. ASSUME NEW c \in Clients, NEW p \in Paths, Create(c, p) PROVE HandlePart /\ TaskPart
  BY <1>14, <1>i DEF Create
<1>15. ASSUME NEW c \in Clients, NEW p \in Paths, Unlink(c, p) PROVE HandlePart /\ TaskPart
  <2>1. /\ Become(c, [pc |-> "unlink", path |-> p]) /\ handle' = handle
        /\ current'[s] = current[s] \/ current'[s] = 0
    BY <1>15, <1>a DEF Unlink, StoreOK
  <2> QED  BY <1>a, <1>c, <1>d, <2>1 DEF Become, ClientsOK
\* The names of a handle change, not its buffer.
<1>16. ASSUME current'[s] = current[s], handle[d] = Closed => handle'[d] = Closed,
              handle[d] # Closed => \E N : handle'[d] = [handle[d] EXCEPT !.names = N]
       PROVE  HandlePart
  <2>1. CASE handle[d] = Closed
    BY <1>16, <1>c, <2>1
  <2>2. CASE handle[d] # Closed
    <3>1. handle[d] \in [path : Paths, buf : 1 .. Len(bufs), names : SUBSET Paths]
      BY <1>a, <2>2 DEF ClientsOK, Handles
    <3>2. handle'[d].buf = handle[d].buf /\ handle'[d].path = handle[d].path
      BY <1>16, <2>2, <3>1
    <3> QED  BY <1>16, <1>b, <3>2 DEF HandlePart
  <2> QED  BY <2>1, <2>2
<1>17. ASSUME NEW c \in Clients, UnlinkDisk(c) PROVE HandlePart /\ TaskPart
  <2>1. HandlePart
    BY <1>16, <1>17 DEF UnlinkDisk, Unlinked
  <2>2. TaskPart
    BY <1>17, <1>a, <1>d, <1>j DEF UnlinkDisk, Finish, Become, ClientsOK
  <2> QED  BY <2>1, <2>2
<1>18. ASSUME NEW c \in Clients, NEW p \in Paths, NEW q \in Paths, Rename(c, p, q)
       PROVE  HandlePart /\ TaskPart
  <2>1. HandlePart
    BY <1>16, <1>18 DEF Rename, Renamed
  <2>2. TaskPart
    BY <1>18, <1>a, <1>d DEF Rename, Become, ClientsOK
  <2> QED  BY <2>1, <2>2
<1>19. ASSUME NEW c \in Clients, RenameForget(c) PROVE HandlePart /\ TaskPart
  <2>1. /\ Become(c, Idle) /\ handle' = handle
        /\ current'[s] = current[s] \/ current'[s] = 0
    BY <1>19, <1>a, RequestShape DEF RenameForget, Finish, StoreOK, Busy
  <2> QED  BY <1>a, <1>c, <1>d, <1>j, <2>1 DEF Become, ClientsOK
<1>20. ASSUME handle' = handle, current' = current, task' = task PROVE HandlePart /\ TaskPart
  BY <1>20, <1>c, <1>d
<1>21. ASSUME NEW c \in Clients, Write(c) PROVE HandlePart /\ TaskPart
  BY <1>20, <1>21 DEF Write
<1>22. ASSUME NEW p \in Paths, Refresh(p) PROVE HandlePart /\ TaskPart
  BY <1>20, <1>22 DEF Refresh
<1>23. CASE UNCHANGED vars
  BY <1>20, <1>23 DEF vars
<1> QED  BY <1>2, <1>3, <1>4, <1>6, <1>7, <1>9, <1>10, <1>11, <1>12, <1>13, <1>14, <1>15, <1>17,
            <1>18, <1>19, <1>21, <1>22, <1>23 DEF Next

\* A write counts for one file: a rename takes it along, a new one has one name.
LEMMA LiveDisjointKept ==
  TypeOK /\ LiveDisjoint /\ OneName /\ NumbersIssued /\ [Next]_vars => LiveDisjoint'
<1> SUFFICES ASSUME TypeOK, LiveDisjoint, OneName, NumbersIssued, [Next]_vars PROVE LiveDisjoint'
  OBVIOUS
<1>a. StoreOK /\ ClientsOK /\ issued \in Nat /\ live \in [Paths -> Content]
  BY TypeSplits DEF StoreOK
<1>b. ASSUME \A p \in Paths : live'[p] \subseteq live[p] PROVE LiveDisjoint'
  BY <1>b DEF LiveDisjoint
<1>c. ASSUME live' = live PROVE LiveDisjoint'
  BY <1>c DEF LiveDisjoint
<1>1. ASSUME NEW c \in Clients, Write(c) PROVE LiveDisjoint'
  <2>1. \A p \in Paths : ~ (issued + 1 \in live[p])
    <3>1. ~ (issued + 1 \in 1 .. issued)
      BY <1>a
    <3> QED  BY <3>1 DEF NumbersIssued
  <2>2. \A p \in Paths : live'[p] = IF p \in handle[c].names THEN live[p] \cup {issued + 1} ELSE live[p]
    BY <1>1 DEF Write, Acknowledge
  <2>3. \A p, q \in handle[c].names : p = q
    BY <1>1 DEF Write, IsOpen, OneName
  <2> SUFFICES ASSUME NEW p \in Paths, NEW q \in Paths, p # q, NEW x \in live'[p], x \in live'[q] PROVE FALSE
    BY DEF LiveDisjoint
  <2>4. CASE x = issued + 1
    BY <2>1, <2>2, <2>3, <2>4
  <2>5. CASE x # issued + 1
    <3>1. x \in live[p] /\ x \in live[q]
      BY <2>2, <2>5
    <3> QED  BY <3>1 DEF LiveDisjoint
  <2> QED  BY <2>4, <2>5
<1>2. ASSUME NEW c \in Clients, NEW p \in Paths, NEW q \in Paths, Rename(c, p, q) PROVE LiveDisjoint'
  <2>1. \A r \in Paths : live'[r] = IF r = p THEN {} ELSE IF r = q THEN live[p] ELSE live[r]
    BY <1>2, <1>a DEF Rename
  <2> QED  BY <2>1 DEF LiveDisjoint
<1>3. ASSUME NEW c \in Clients, TruncateBuffer(c) \/ UnlinkDisk(c) PROVE LiveDisjoint'
  BY <1>3, <1>a, <1>b, RequestShape DEF TruncateBuffer, UnlinkDisk, Busy
<1>4. ASSUME NEW c \in Clients, NEW p \in Paths, Create(c, p) PROVE LiveDisjoint'
  BY <1>4, <1>a, <1>b DEF Create
<1>5. ASSUME NEW p \in Paths, Refresh(p) PROVE LiveDisjoint'
  BY <1>5, <1>a, <1>b DEF Refresh
<1>6. ASSUME NEW c \in Clients, NEW p \in Paths, OpenFile(c, p) \/ SetSize(c, p) \/ Unlink(c, p)
      PROVE  LiveDisjoint'
  BY <1>6, <1>c DEF OpenFile, SetSize, GetOrLoad, Unlink
<1>7. ASSUME NEW c \in Clients,
             \/ LoadStat(c) \/ LoadRead(c) \/ LoadInsert(c) \/ FlushHandle(c) \/ Close(c)
             \/ FlushWrite(c) \/ FlushClean(c) \/ FlushStamp(c) \/ TruncateDisk(c)
             \/ CreateInstall(c) \/ RenameForget(c)
      PROVE  LiveDisjoint'
  BY <1>7, <1>c DEF LoadStat, LoadRead, LoadInsert, FlushHandle, Close, Flush, FlushWrite, FlushClean,
                    FlushStamp, TruncateDisk, CreateInstall, RenameForget
<1>8. CASE UNCHANGED vars
  BY <1>8, <1>c DEF vars
<1> QED  BY <1>1, <1>2, <1>3, <1>4, <1>5, <1>6, <1>7, <1>8 DEF Next

\* What was hit by a race stays hit.
LEMMA LostStays == TypeOK /\ [Next]_vars => Lost \subseteq Lost'
<1> SUFFICES ASSUME TypeOK, [Next]_vars PROVE Lost \subseteq Lost'
  OBVIOUS
<1>a. misfiled \in [raced : Content, overwritten : Content, strayed : Content]
  BY TypeSplits DEF StoreOK
<1>b. ASSUME misfiled' = misfiled PROVE Lost \subseteq Lost'
  BY <1>b DEF Lost
<1>1. ASSUME NEW c \in Clients, FlushWrite(c) PROVE Lost \subseteq Lost'
  BY <1>1, <1>a DEF FlushWrite, Lost
<1>2. ASSUME NEW c \in Clients, FlushClean(c) PROVE Lost \subseteq Lost'
  BY <1>2, <1>a DEF FlushClean, Lost
<1>3. ASSUME NEW c \in Clients, TruncateBuffer(c) PROVE Lost \subseteq Lost'
  BY <1>3, <1>a DEF TruncateBuffer, Lost
<1>4. ASSUME NEW c \in Clients, TruncateDisk(c) PROVE Lost \subseteq Lost'
  BY <1>4, <1>a DEF TruncateDisk, Lost
<1>5. ASSUME NEW c \in Clients, NEW p \in Paths,
             OpenFile(c, p) \/ SetSize(c, p) \/ Create(c, p) \/ Unlink(c, p)
      PROVE  Lost \subseteq Lost'
  BY <1>5, <1>b DEF OpenFile, SetSize, GetOrLoad, Create, Unlink
<1>6. ASSUME NEW c \in Clients,
             \/ LoadStat(c) \/ LoadRead(c) \/ LoadInsert(c) \/ Write(c) \/ FlushHandle(c) \/ Close(c)
             \/ FlushStamp(c) \/ CreateInstall(c) \/ UnlinkDisk(c) \/ RenameForget(c)
      PROVE  Lost \subseteq Lost'
  BY <1>6, <1>b DEF LoadStat, LoadRead, LoadInsert, Write, FlushHandle, Close, Flush, FlushStamp,
                    CreateInstall, UnlinkDisk, RenameForget
<1>7. ASSUME NEW c \in Clients, NEW p \in Paths, NEW q \in Paths, Rename(c, p, q)
      PROVE  Lost \subseteq Lost'
  BY <1>7, <1>b DEF Rename
<1>8. ASSUME NEW p \in Paths, Refresh(p) PROVE Lost \subseteq Lost'
  BY <1>8, <1>b DEF Refresh
<1>9. CASE UNCHANGED vars
  BY <1>9, <1>b DEF vars
<1> QED  BY <1>1, <1>2, <1>3, <1>4, <1>5, <1>6, <1>7, <1>8, <1>9 DEF Next

\* A write that counts for a file counted for one before: the same one, or the
\* one renamed to it.  What is saved stays saved, and handles keep the name.
Keeps(o, r) ==
  \A d \in Clients : handle[d] # Closed /\ o \in handle[d].names /\ ~ Close(d) =>
    handle'[d].buf = handle[d].buf /\ r \in handle'[d].names

Moves(o, r, w) ==
  /\ o \in Paths
  /\ w \in live[o]
  /\ Saved(o, w) => Saved(r, w)'
  /\ Keeps(o, r)

LEMMA WriteMoves ==
  ASSUME TypeOK, Opening, [Next]_vars, NEW r \in Paths, NEW w \in live'[r],
         issued' = issued \/ w # issued'
  PROVE  \E o : Moves(o, r, w)
<1>a. StoreOK /\ ClientsOK
  BY TypeSplits
<1>b. Lost \subseteq Lost'
  BY LostStays
<1>c. ASSUME disk' = disk, w \in live[r] PROVE Saved(r, w) => Saved(r, w)'
  BY <1>b, <1>c DEF Saved
<1>d. ASSUME handle' = handle PROVE Keeps(r, r)
  BY <1>d DEF Keeps
<1>e. ASSUME NEW c \in Clients, NEW p, NEW b, NEW goal, Obtain(c, p, b, goal),
             goal = "open" => handle[c] = Closed
      PROVE  Keeps(r, r)
  BY <1>a, <1>e DEF Keeps, Obtain, OpenHandle, ClientsOK
<1>f. SUFFICES \/ w \in live[r] /\ (Saved(r, w) => Saved(r, w)') /\ Keeps(r, r)
               \/ \E o \in Paths : Moves(o, r, w)
  BY DEF Moves
<1> DEFINE Stays == w \in live[r] /\ (Saved(r, w) => Saved(r, w)') /\ Keeps(r, r)
<1> HIDE DEF Stays
<1> SUFFICES Stays \/ \E o \in Paths : Moves(o, r, w)
  BY <1>f DEF Stays
<1>g. ASSUME disk' = disk, live' = live, handle' = handle PROVE Stays
  BY <1>c, <1>d, <1>g DEF Stays
<1>h. ASSUME disk' = disk, live' = live, Keeps(r, r) PROVE Stays
  BY <1>c, <1>h DEF Stays
<1>1. ASSUME NEW c \in Clients, NEW p \in Paths, NEW goal, GetOrLoad(c, p, goal),
             goal = "open" => handle[c] = Closed
      PROVE  Stays
  <2>1. disk' = disk /\ live' = live
    BY <1>1 DEF GetOrLoad
  <2>2. Obtain(c, p, current[p], goal) \/ handle' = handle
    BY <1>1 DEF GetOrLoad
  <2> QED  BY <1>1, <1>e, <1>g, <1>h, <2>1, <2>2
<1>2. ASSUME NEW c \in Clients, NEW p \in Paths, OpenFile(c, p) \/ SetSize(c, p) PROVE Stays
  BY <1>1, <1>2 DEF OpenFile, SetSize, IsOpen
<1>3. ASSUME NEW c \in Clients, LoadStat(c) PROVE Stays
  <2>1. disk' = disk /\ live' = live
    BY <1>3 DEF LoadStat
  <2>2. Obtain(c, task[c].path, task[c].buf, task[c].goal) \/ handle' = handle
    BY <1>3 DEF LoadStat
  <2>3. task[c].goal = "open" => handle[c] = Closed
    BY <1>3 DEF LoadStat, Busy, Opening
  <2> QED  BY <1>e, <1>g, <1>h, <2>1, <2>2, <2>3
<1>4. ASSUME NEW c \in Clients, LoadInsert(c) PROVE Stays
  BY <1>4, <1>e, <1>h DEF LoadInsert, Busy, Opening
<1>5. ASSUME NEW c \in Clients, CreateInstall(c) PROVE Stays
  BY <1>5, <1>e, <1>h DEF CreateInstall, Busy, Opening
<1>6. ASSUME NEW c \in Clients, Write(c) PROVE Stays
  <2>1. issued' = issued + 1 /\ issued' # issued /\ live'[r] \subseteq live[r] \cup {issued'}
    BY <1>6, <1>a DEF Write, Acknowledge, StoreOK
  <2>2. w \in live[r]
    BY <2>1
  <2> QED  BY <1>6, <1>c, <1>d, <2>2 DEF Write, Stays
<1>7. ASSUME NEW c \in Clients, Close(c) PROVE Stays
  <2>1. \A d \in Clients : d # c => handle'[d] = handle[d]
    BY <1>7, <1>a DEF Close, ClientsOK
  <2>2. Keeps(r, r)
    BY <1>7, <2>1 DEF Keeps
  <2> QED  BY <1>7, <1>h, <2>2 DEF Close, Flush
<1>8. ASSUME NEW c \in Clients,
             LoadRead(c) \/ FlushHandle(c) \/ FlushClean(c) \/ FlushStamp(c) \/ RenameForget(c)
      PROVE  Stays
  BY <1>8, <1>g DEF LoadRead, FlushHandle, Flush, FlushClean, FlushStamp, RenameForget
<1>9. ASSUME NEW c \in Clients, NEW p \in Paths, Unlink(c, p) PROVE Stays
  BY <1>9, <1>g DEF Unlink
<1>10. ASSUME NEW c \in Clients, FlushWrite(c) PROVE Stays
  <2> DEFINE p == task[c].path
  <2>1. /\ p \in Paths /\ live' = live /\ handle' = handle
        /\ disk' = [disk EXCEPT ![p] = [exists |-> TRUE, content |-> task[c].data, mtime |-> clock + 1]]
        /\ misfiled'.overwritten = misfiled.overwritten \cup ((disk[p].content \ task[c].data) \cap live[p])
    BY <1>10, <1>a, RequestShape DEF FlushWrite, SetDisk, Busy, StoreOK
  <2>2. Saved(r, w) => Saved(r, w)'
    BY <1>a, <1>b, <2>1 DEF Saved, Lost, StoreOK
  <2> QED  BY <1>d, <2>1, <2>2 DEF Stays
<1>11. ASSUME NEW c \in Clients, TruncateBuffer(c) PROVE Stays
  <2>1. w \in live[r] /\ disk' = disk /\ handle' = handle
    BY <1>11, <1>a, RequestShape DEF TruncateBuffer, StoreOK, Busy
  <2> QED  BY <1>c, <1>d, <2>1 DEF Stays
<1>12. ASSUME NEW c \in Clients, TruncateDisk(c) PROVE Stays
  <2> DEFINE p == task[c].path
  <2>1. p \in Paths /\ live' = live /\ handle' = handle
    BY <1>12, RequestShape DEF TruncateDisk, Busy
  <2>2. CASE disk[p].exists
    <3>1. /\ disk' = [disk EXCEPT ![p] = [exists |-> TRUE, content |-> {}, mtime |-> clock + 1]]
          /\ misfiled'.overwritten = misfiled.overwritten \cup (disk[p].content \cap live[p])
      BY <1>12, <1>a, <2>2 DEF TruncateDisk, SetDisk, StoreOK
    <3>2. Saved(r, w) => Saved(r, w)'
      BY <1>a, <1>b, <2>1, <3>1 DEF Saved, Lost, StoreOK
    <3> QED  BY <1>d, <2>1, <3>2 DEF Stays
  <2>3. CASE ~ disk[p].exists
    BY <1>12, <1>g, <2>1, <2>3 DEF TruncateDisk
  <2> QED  BY <2>2, <2>3
<1>13. ASSUME NEW c \in Clients, NEW p \in Paths, Create(c, p) PROVE Stays
  <2>1. /\ handle' = handle /\ live' = [live EXCEPT ![p] = {}]
        /\ disk' = [disk EXCEPT ![p] = [exists |-> TRUE, content |-> {}, mtime |-> clock + 1]]
    BY <1>13 DEF Create, SetDisk
  <2>2. r # p /\ w \in live[r] /\ disk'[r] = disk[r]
    BY <1>a, <2>1 DEF StoreOK
  <2> QED  BY <1>b, <1>d, <2>1, <2>2 DEF Stays, Saved
<1>14. ASSUME NEW c \in Clients, UnlinkDisk(c) PROVE Stays
  <2> DEFINE p == task[c].path
  <2>1. /\ p \in Paths /\ handle' = Unlinked(p) /\ live' = [live EXCEPT ![p] = {}]
        /\ disk' = [disk EXCEPT ![p] = Gone(p)]
    BY <1>14, RequestShape DEF UnlinkDisk, Busy
  <2>2. r # p /\ w \in live[r] /\ disk'[r] = disk[r]
    BY <1>a, <2>1 DEF StoreOK
  <2>3. ASSUME NEW d \in Clients, handle[d] # Closed, r \in handle[d].names
        PROVE  handle'[d].buf = handle[d].buf /\ r \in handle'[d].names
    <3>1. handle[d] \in [path : Paths, buf : 1 .. Len(bufs), names : SUBSET Paths]
      BY <1>a, <2>3 DEF ClientsOK, Handles
    <3>2. handle'[d] = [handle[d] EXCEPT !.names = handle[d].names \ {p}]
      BY <2>1, <2>3 DEF Unlinked
    <3> QED  BY <2>2, <2>3, <3>1, <3>2
  <2> QED  BY <1>b, <2>2, <2>3 DEF Stays, Saved, Keeps
<1>15. ASSUME NEW c \in Clients, NEW p \in Paths, NEW q \in Paths, Rename(c, p, q)
       PROVE  Stays \/ \E o \in Paths : Moves(o, r, w)
  <2>1. /\ p # q /\ handle' = Renamed(p, q)
        /\ live' = [live EXCEPT ![q] = live[p], ![p] = {}]
        /\ disk' = [disk EXCEPT ![q] = disk[p], ![p] = Gone(p)]
    BY <1>15 DEF Rename
  <2> DEFINE o == IF r = q THEN p ELSE r
  <2>2. r # p /\ o \in Paths /\ w \in live[o] /\ disk'[r] = disk[o]
    BY <1>a, <2>1 DEF StoreOK
  <2>3. ASSUME NEW d \in Clients, handle[d] # Closed, o \in handle[d].names
        PROVE  handle'[d].buf = handle[d].buf /\ r \in handle'[d].names
    <3>1. handle[d] \in [path : Paths, buf : 1 .. Len(bufs), names : SUBSET Paths]
      BY <1>a, <2>3 DEF ClientsOK, Handles
    <3> DEFINE N == (handle[d].names \ {p, q}) \cup {s \in {q} : p \in handle[d].names}
    <3>2. handle'[d] = [handle[d] EXCEPT !.names = N]
      BY <2>1, <2>3 DEF Renamed
    <3>3. r \in N
      BY <2>2, <2>3
    <3> HIDE DEF N
    <3> QED  BY <3>1, <3>2, <3>3
  <2>4. Saved(o, w) => Saved(r, w)'
    BY <1>b, <2>2 DEF Saved
  <2> HIDE DEF o
  <2> QED  BY <2>2, <2>3, <2>4 DEF Moves, Keeps
<1>16. ASSUME NEW p \in Paths, Refresh(p) PROVE Stays
  <2>1. /\ handle' = handle /\ live' = [live EXCEPT ![p] = live[p] \ disk[p].content]
        /\ disk' = [disk EXCEPT ![p] = [exists |-> TRUE, content |-> {issued + 1}, mtime |-> clock + 1]]
    BY <1>16 DEF Refresh, SetDisk
  <2>2. w \in live[r] /\ (w \in disk[r].content => disk'[r] = disk[r])
    BY <1>a, <2>1 DEF StoreOK
  <2> QED  BY <1>b, <1>d, <2>1, <2>2 DEF Stays, Saved
<1>17. CASE UNCHANGED vars
  BY <1>17, <1>g DEF vars
<1> QED  BY <1>2, <1>3, <1>4, <1>5, <1>6, <1>7, <1>8, <1>9, <1>10, <1>11, <1>12, <1>13, <1>14,
            <1>15, <1>16, <1>17 DEF Next

\* Only the flush itself goes on from what it has copied.
LEMMA FlushSteps ==
  ASSUME TypeOK, [Next]_vars, NEW d \in Clients
  PROVE  \/ task'[d] = task[d]
         \/ ~ (task[d].pc \in {"write", "clean"}) /\ task'[d].pc # "clean"
         \/ FlushWrite(d) \/ FlushClean(d)
<1> DEFINE Goal == \/ task'[d] = task[d]
                   \/ ~ (task[d].pc \in {"write", "clean"}) /\ task'[d].pc # "clean"
                   \/ FlushWrite(d) \/ FlushClean(d)
<1> SUFFICES Goal
  OBVIOUS
<1>a. ClientsOK
  BY TypeSplits
<1>b. ASSUME NEW c \in Clients, NEW r, Become(c, r), r.pc # "clean",
             ~ (task[c].pc \in {"write", "clean"})
      PROVE  Goal
  BY <1>b, <1>a DEF Become, ClientsOK
<1>c. Idle.pc = "idle"
  BY DEF Idle
<1>d. ASSUME NEW c \in Clients, NEW p, NEW b, NEW goal, Obtain(c, p, b, goal),
             ~ (task[c].pc \in {"write", "clean"})
      PROVE  Goal
  BY <1>b, <1>c, <1>d DEF Obtain, Finish
<1>e. ASSUME task' = task PROVE Goal
  BY <1>e
<1>f. ASSUME NEW c \in Clients, FlushWrite(c) \/ FlushClean(c) PROVE Goal
  BY <1>f, <1>a DEF FlushWrite, FlushClean, Become, ClientsOK
<1> HIDE DEF Goal
<1>g. ASSUME NEW c \in Clients, Ready(c) PROVE ~ (task[c].pc \in {"write", "clean"})
  BY <1>c, <1>g DEF Ready
<1>1. ASSUME NEW c \in Clients, NEW p \in Paths, NEW goal, Ready(c), GetOrLoad(c, p, goal) PROVE Goal
  <2>1. Obtain(c, p, current[p], goal)
        \/ Become(c, [pc |-> "stat", path |-> p, buf |-> current[p], goal |-> goal])
    BY <1>1 DEF GetOrLoad
  <2> QED  BY <1>1, <1>b, <1>d, <1>g, <2>1
<1>2. ASSUME NEW c \in Clients, NEW p \in Paths, OpenFile(c, p) \/ SetSize(c, p) PROVE Goal
  BY <1>1, <1>2 DEF OpenFile, SetSize
<1>3. ASSUME NEW c \in Clients, LoadStat(c) PROVE Goal
  <2> DEFINE r == [pc |-> "load", path |-> task[c].path, mtime |-> disk[task[c].path].mtime,
                   goal |-> task[c].goal]
  <2>1. Obtain(c, task[c].path, task[c].buf, task[c].goal) \/ Become(c, r) \/ Become(c, Idle)
    BY <1>3 DEF LoadStat, Finish
  <2> QED  BY <1>3, <1>b, <1>c, <1>d, <2>1 DEF LoadStat, Busy
<1>4. ASSUME NEW c \in Clients, LoadRead(c) PROVE Goal
  <2> DEFINE r == [pc |-> "insert", path |-> task[c].path, data |-> disk[task[c].path].content,
                   mtime |-> task[c].mtime, goal |-> task[c].goal]
  <2>1. Become(c, r) \/ Become(c, Idle)
    BY <1>4 DEF LoadRead, Finish
  <2> QED  BY <1>4, <1>b, <1>c, <2>1 DEF LoadRead, Busy
<1>5. ASSUME NEW c \in Clients, LoadInsert(c) \/ CreateInstall(c) PROVE Goal
  BY <1>5, <1>d DEF LoadInsert, CreateInstall, Busy
<1>6. ASSUME NEW c \in Clients, FlushHandle(c) \/ Close(c) PROVE Goal
  <2> DEFINE p == handle[c].path
             r == [pc |-> "write", path |-> p, buf |-> current[p], data |-> bufs[current[p]].content]
  <2>1. Become(c, r) \/ Become(c, Idle)
    BY <1>6 DEF FlushHandle, Close, Flush, Finish
  <2>2. Ready(c)
    BY <1>6 DEF FlushHandle, Close
  <2> QED  BY <1>b, <1>c, <1>g, <2>1, <2>2
<1>7. ASSUME NEW c \in Clients, FlushStamp(c) \/ TruncateDisk(c) \/ UnlinkDisk(c) \/ RenameForget(c)
      PROVE  Goal
  BY <1>7, <1>b, <1>c DEF FlushStamp, TruncateDisk, UnlinkDisk, RenameForget, Busy, Finish
<1>8. ASSUME NEW c \in Clients, TruncateBuffer(c) PROVE Goal
  BY <1>8, <1>b DEF TruncateBuffer, Busy
<1>9. ASSUME NEW c \in Clients, NEW p \in Paths, Create(c, p) \/ Unlink(c, p) PROVE Goal
  BY <1>9, <1>b, <1>g DEF Create, Unlink
<1>10. ASSUME NEW c \in Clients, NEW p \in Paths, NEW q \in Paths, Rename(c, p, q) PROVE Goal
  BY <1>10, <1>b, <1>g DEF Rename
<1>11. ASSUME NEW c \in Clients, Write(c) PROVE Goal
  BY <1>11, <1>e DEF Write
<1>12. ASSUME NEW p \in Paths, Refresh(p) PROVE Goal
  BY <1>12, <1>e DEF Refresh
<1>13. CASE UNCHANGED vars
  BY <1>13, <1>e DEF vars
<1> QED  BY <1>2, <1>3, <1>4, <1>5, <1>6, <1>7, <1>8, <1>9, <1>10, <1>11, <1>12, <1>13, <1>f DEF Next

\* A buffer grows and stays dirty, but for mark_clean and truncate.
LEMMA BufferSteps ==
  ASSUME TypeOK, [Next]_vars, NEW b \in BufferIds
  PROVE  \/ bufs[b].content \subseteq bufs'[b].content /\ (bufs[b].dirty => bufs'[b].dirty)
         \/ \E c \in Clients : (FlushClean(c) \/ TruncateBuffer(c)) /\ task[c].buf = b
<1> DEFINE Grows == bufs[b].content \subseteq bufs'[b].content /\ (bufs[b].dirty => bufs'[b].dirty)
           Other == \E c \in Clients : (FlushClean(c) \/ TruncateBuffer(c)) /\ task[c].buf = b
<1> SUFFICES Grows \/ Other
  OBVIOUS
<1>a. StoreOK /\ ClientsOK /\ Len(bufs) \in Nat /\ bufs[b] \in Buffer
  BY TypeSplits DEF StoreOK, BufferIds
<1>b. ASSUME bufs' = bufs PROVE Grows
  BY <1>b
<1>c. ASSUME NEW p, NEW data, NEW mtime, Cache(p, data, mtime) PROVE Grows
  <2>1. bufs' = Append(bufs, [content |-> data, dirty |-> FALSE, mtime |-> mtime])
    BY <1>c DEF Cache
  <2>2. bufs'[b] = bufs[b]
    BY <1>a, <2>1 DEF StoreOK, BufferIds
  <2> QED  BY <2>2
<1>d. ASSUME NEW x, NEW y, bufs' = [bufs EXCEPT ![x] = y], x # b PROVE Grows
  BY <1>d, <1>a DEF StoreOK, BufferIds
<1>e. ASSUME NEW y, bufs' = [bufs EXCEPT ![b] = y],
             bufs[b].content \subseteq y.content, bufs[b].dirty => y.dirty
      PROVE  Grows
  <2>1. bufs'[b] = y
    BY <1>e, <1>a DEF StoreOK, BufferIds
  <2> QED  BY <1>e, <2>1
<1> HIDE DEF Grows
<1>1. ASSUME NEW c \in Clients, Write(c) PROVE Grows
  <2> DEFINE y == [content |-> bufs[handle[c].buf].content \cup {issued + 1}, dirty |-> TRUE, mtime |-> clock]
  <2>1. bufs' = [bufs EXCEPT ![handle[c].buf] = y] /\ y.dirty
        /\ bufs[handle[c].buf].content \subseteq y.content
    BY <1>1 DEF Write
  <2> HIDE DEF y
  <2> QED  BY <1>d, <1>e, <2>1
<1>2. ASSUME NEW c \in Clients, FlushClean(c) PROVE Grows \/ Other
  <2>1. bufs' = [bufs EXCEPT ![task[c].buf] = [bufs[task[c].buf] EXCEPT !.dirty = FALSE]]
    BY <1>2 DEF FlushClean
  <2> QED  BY <1>2, <1>d, <2>1
<1>3. ASSUME NEW c \in Clients, TruncateBuffer(c) PROVE Grows \/ Other
  BY <1>3, <1>d DEF TruncateBuffer
<1>4. ASSUME NEW c \in Clients, FlushStamp(c) PROVE Grows
  <2> DEFINE y == [bufs[task[c].buf] EXCEPT !.mtime = disk[task[c].path].mtime]
  <2>1. bufs' = [bufs EXCEPT ![task[c].buf] = y] \/ bufs' = bufs
    BY <1>4 DEF FlushStamp
  <2>2. task[c].buf = b => y.content = bufs[b].content /\ y.dirty = bufs[b].dirty
    BY <1>a DEF Buffer
  <2> HIDE DEF y
  <2> QED  BY <1>b, <1>d, <1>e, <2>1, <2>2
<1>5. ASSUME NEW c \in Clients, LoadInsert(c) \/ CreateInstall(c) PROVE Grows
  BY <1>5, <1>c DEF LoadInsert, CreateInstall
<1>6. ASSUME NEW c \in Clients,
             \/ LoadStat(c) \/ LoadRead(c) \/ FlushHandle(c) \/ Close(c) \/ FlushWrite(c)
             \/ TruncateDisk(c) \/ UnlinkDisk(c) \/ RenameForget(c)
      PROVE  Grows
  BY <1>6, <1>b DEF LoadStat, LoadRead, FlushHandle, Close, Flush, FlushWrite, TruncateDisk,
                    UnlinkDisk, RenameForget
<1>7. ASSUME NEW c \in Clients, NEW p \in Paths,
             OpenFile(c, p) \/ SetSize(c, p) \/ Create(c, p) \/ Unlink(c, p)
      PROVE  Grows
  BY <1>7, <1>b DEF OpenFile, SetSize, GetOrLoad, Create, Unlink
<1>8. ASSUME NEW c \in Clients, NEW p \in Paths, NEW q \in Paths, Rename(c, p, q) PROVE Grows
  BY <1>8, <1>b DEF Rename
<1>9. ASSUME NEW p \in Paths, Refresh(p) PROVE Grows
  BY <1>9, <1>b DEF Refresh
<1>10. CASE UNCHANGED vars
  BY <1>10, <1>b DEF vars
<1> HIDE DEF Other
<1> QED  BY <1>1, <1>2, <1>3, <1>4, <1>5, <1>6, <1>7, <1>8, <1>9, <1>10 DEF Next

\* Only write and a refresh number something new.
LEMMA IssuedSteps ==
  ASSUME [Next]_vars
  PROVE  \/ issued' = issued
         \/ issued' = issued + 1 /\ \E c \in Clients : Write(c)
         \/ issued' = issued + 1 /\ \E p \in Paths : Refresh(p)
<1> DEFINE Same == issued' = issued
<1>1. ASSUME NEW c \in Clients, NEW p \in Paths,
             OpenFile(c, p) \/ SetSize(c, p) \/ Create(c, p) \/ Unlink(c, p)
      PROVE  Same
  BY <1>1 DEF OpenFile, SetSize, GetOrLoad, Create, Unlink
<1>2. ASSUME NEW c \in Clients,
             \/ LoadStat(c) \/ LoadRead(c) \/ LoadInsert(c) \/ FlushHandle(c) \/ Close(c)
             \/ FlushWrite(c) \/ FlushClean(c) \/ FlushStamp(c) \/ TruncateBuffer(c) \/ TruncateDisk(c)
             \/ CreateInstall(c) \/ UnlinkDisk(c) \/ RenameForget(c)
      PROVE  Same
  BY <1>2 DEF LoadStat, LoadRead, LoadInsert, FlushHandle, Close, Flush, FlushWrite, FlushClean, FlushStamp,
              TruncateBuffer, TruncateDisk, CreateInstall, UnlinkDisk, RenameForget
<1>3. ASSUME NEW c \in Clients, NEW p \in Paths, NEW q \in Paths, Rename(c, p, q) PROVE Same
  BY <1>3 DEF Rename
<1>4. ASSUME NEW c \in Clients, Write(c) PROVE issued' = issued + 1
  BY <1>4 DEF Write
<1>5. ASSUME NEW p \in Paths, Refresh(p) PROVE issued' = issued + 1
  BY <1>5 DEF Refresh
<1>6. CASE UNCHANGED vars
  BY <1>6 DEF vars
<1> HIDE DEF Same
<1>7. Same => issued' = issued
  BY DEF Same
<1> QED  BY <1>1, <1>2, <1>3, <1>4, <1>5, <1>6, <1>7 DEF Next

\* A dirty buffer the manager knows keeps somebody who will flush it: who
\* closes the last handle copies the buffer in the same step.
LEMMA AttendedKept ==
  ASSUME TypeOK, BufferOfPath, [Next]_vars, NEW b \in BufferIds, NEW o, NEW r, Keeps(o, r),
         bufs[b].dirty, Known(b)', Attended(b, o),
         \A c \in Clients : FlushClean(c) => task[c].buf # b
  PROVE  Attended(b, r)'
<1>a. StoreOK /\ ClientsOK /\ b # 0
  BY TypeSplits DEF BufferIds
<1>1. PICK c \in Clients : \/ handle[c].buf = b /\ o \in handle[c].names
                           \/ task[c].pc \in {"write", "clean"} /\ task[c].buf = b
  BY DEF Attended
<1>2. CASE handle[c].buf = b /\ o \in handle[c].names /\ ~ Close(c)
  <2>1. handle[c] # Closed
    BY <1>a, <1>2 DEF Closed
  <2> QED  BY <1>2, <2>1 DEF Keeps, Attended
<1>3. CASE handle[c].buf = b /\ Close(c)
  <2>1. PICK q \in Paths : current'[q] = b
    BY DEF Known
  <2>2. current[q] = b
    BY <1>3, <2>1 DEF Close, Flush
  <2>3. q = handle[c].path
    BY <1>3, <1>a, <2>2 DEF BufferOfPath
  <2>4. Become(c, [pc |-> "write", path |-> q, buf |-> b, data |-> bufs[b].content])
    BY <1>3, <1>a, <2>2, <2>3 DEF Close, Flush
  <2> QED  BY <1>a, <2>4 DEF Become, ClientsOK, Attended
<1>4. CASE task[c].pc \in {"write", "clean"} /\ task[c].buf = b
  <2>1. task'[c] = task[c] \/ FlushWrite(c)
    BY <1>4, FlushSteps
  <2>2. CASE task'[c] = task[c]
    BY <1>4, <2>2 DEF Attended
  <2>3. CASE FlushWrite(c)
    <3>1. task[c] = [pc |-> task[c].pc, path |-> task[c].path, buf |-> task[c].buf, data |-> task[c].data]
      BY <1>4, RequestShape
    <3>2. task'[c] = [task[c] EXCEPT !.pc = "clean"]
      BY <1>a, <2>3 DEF FlushWrite, Become, ClientsOK
    <3>3. task'[c].pc = "clean" /\ task'[c].buf = task[c].buf
      BY <3>1, <3>2
    <3> QED  BY <1>4, <3>3 DEF Attended
  <2> QED  BY <2>1, <2>2, <2>3
<1> QED  BY <1>1, <1>2, <1>3, <1>4

IInv ==
  /\ TypeOK
  /\ WritesHeld
  /\ FlushedSaved
  /\ LiveDisjoint
  /\ OneName
  /\ NumbersIssued
  /\ OnePath
  /\ BufferOfPath
  /\ Opening

\* A held write stays held, or it is saved: what a flush marks clean it has
\* written before, unless the write came in between, and what truncate takes
\* out of a buffer counts for the truncated file or was overwritten.
LEMMA HeldKept ==
  ASSUME IInv, [Next]_vars, NEW r \in Paths, NEW w \in live'[r], NEW o, Moves(o, r, w),
         NEW b \in BufferIds, Holds(b, o, w)
  PROVE  Saved(r, w)' \/ Holds(b, r, w)'
<1>a. StoreOK /\ ClientsOK /\ TypeOK
  BY TypeSplits DEF IInv
<1>1. CASE bufs[b].content \subseteq bufs'[b].content /\ (bufs[b].dirty => bufs'[b].dirty)
           /\ \A c \in Clients : FlushClean(c) => task[c].buf # b
  <2>1. ASSUME Known(b)' PROVE Attended(b, r)'
    <3>1. Known(b)
      BY <1>a, <2>1, UnknownStays DEF Known
    <3>2. Attended(b, o) /\ bufs[b].dirty
      BY <3>1 DEF Holds
    <3> QED  BY <1>1, <1>a, <2>1, <3>2, AttendedKept DEF IInv, Moves
  <2> QED  BY <1>1, <2>1 DEF Holds
<1>2. ASSUME NEW c \in Clients, FlushClean(c), task[c].buf = b PROVE Saved(r, w)'
  <2>1. CASE w \in task[c].data
    BY <1>2, <2>1 DEF IInv, FlushedSaved, FlushClean, Busy, Moves
  <2>2. CASE ~ (w \in task[c].data)
    <3>1. misfiled'.raced = misfiled.raced \cup (bufs[b].content \ task[c].data)
      BY <1>2, <1>a DEF FlushClean, StoreOK
    <3> QED  BY <2>2, <3>1 DEF Holds, Saved, Lost
  <2> QED  BY <2>1, <2>2
<1>3. ASSUME NEW c \in Clients, TruncateBuffer(c), task[c].buf = b PROVE Saved(r, w)'
  <2> DEFINE p == task[c].path
  <2>1. /\ p \in Paths /\ live' = [live EXCEPT ![p] = {}] /\ disk' = disk
        /\ misfiled'.overwritten = misfiled.overwritten \cup (bufs[b].content \ live[p])
    BY <1>3, <1>a, RequestShape DEF TruncateBuffer, StoreOK, Busy
  <2>2. r # p /\ w \in live[r]
    BY <1>a, <2>1 DEF StoreOK
  <2>3. ~ (w \in live[p])
    BY <2>1, <2>2 DEF IInv, LiveDisjoint
  <2> QED  BY <2>1, <2>3 DEF Holds, Saved, Lost
<1> QED  BY <1>1, <1>2, <1>3, <1>a, BufferSteps

LEMMA WritesHeldKept == IInv /\ [Next]_vars => WritesHeld'
<1> SUFFICES ASSUME IInv, [Next]_vars, NEW r \in Paths, NEW w \in live'[r]
             PROVE  Saved(r, w)' \/ \E b \in BufferIds' : Holds(b, r, w)'
  BY DEF WritesHeld
<1>a. StoreOK /\ ClientsOK /\ TypeOK /\ issued \in Nat
  BY TypeSplits DEF IInv, StoreOK
<1>1. CASE issued' = issued \/ w # issued'
  <2>1. PICK o : Moves(o, r, w)
    BY <1>1, <1>a, WriteMoves DEF IInv
  <2>2. Saved(o, w) \/ \E b \in BufferIds : Holds(b, o, w)
    BY <2>1 DEF IInv, WritesHeld, Moves
  <2>3. Saved(o, w) => Saved(r, w)'
    BY <2>1 DEF Moves
  <2>4. ASSUME NEW b \in BufferIds, Holds(b, o, w)
        PROVE  Saved(r, w)' \/ \E x \in BufferIds' : Holds(x, r, w)'
    <3>1. b \in BufferIds'
      BY <1>a, BuffersStay
    <3> QED  BY <2>1, <2>4, <3>1, HeldKept
  <2> QED  BY <2>2, <2>3, <2>4
<1>2. CASE issued' # issued /\ w = issued'
  <2>1. issued' = issued + 1 /\ ~ (w \in live[r])
    BY <1>2, <1>a, IssuedSteps DEF IInv, NumbersIssued
  <2>2. PICK c \in Clients : Write(c)
    <3>1. ASSUME NEW p \in Paths, Refresh(p) PROVE FALSE
      BY <1>a, <2>1, <3>1 DEF Refresh, StoreOK
    <3> QED  BY <1>2, <3>1, IssuedSteps
  <2> DEFINE b == handle[c].buf
  <2>3. b \in BufferIds /\ r \in handle[c].names /\ handle' = handle
    BY <1>a, <2>1, <2>2 DEF Write, Acknowledge, IsOpen, ClientsOK, Handles, BufferIds
  <2>4. bufs' = [bufs EXCEPT ![b] = [content |-> bufs[b].content \cup {issued + 1}, dirty |-> TRUE, mtime |-> clock]]
    BY <2>2 DEF Write
  <2>5. w \in bufs'[b].content /\ bufs'[b].dirty
    BY <1>a, <1>2, <2>1, <2>3, <2>4 DEF StoreOK, BufferIds
  <2>6. Attended(b, r)'
    BY <2>3 DEF Attended
  <2>7. b \in BufferIds'
    BY <1>a, <2>3, BuffersStay
  <2> QED  BY <2>3, <2>5, <2>6, <2>7 DEF Holds
<1> QED  BY <1>1, <1>2

LEMMA FlushedSavedKept == IInv /\ [Next]_vars => FlushedSaved'
<1> SUFFICES ASSUME IInv, [Next]_vars, NEW c \in Clients, task'[c].pc = "clean",
                    NEW r \in Paths, NEW w \in task'[c].data, w \in live'[r]
             PROVE  Saved(r, w)'
  BY DEF FlushedSaved
<1>a. StoreOK /\ ClientsOK /\ TypeOK /\ issued \in Nat
  BY TypeSplits DEF IInv, StoreOK
<1>1. CASE task'[c] = task[c]
  <2>1. w # issued + 1
    BY <1>a, <1>1 DEF IInv, NumbersIssued
  <2>2. PICK o : Moves(o, r, w)
    BY <1>a, <2>1, IssuedSteps, WriteMoves DEF IInv
  <2>3. Saved(o, w)
    BY <1>1, <2>2 DEF IInv, FlushedSaved, Moves
  <2> QED  BY <2>2, <2>3 DEF Moves
<1>2. CASE FlushWrite(c)
  <2> DEFINE p == task[c].path
  <2>0. /\ p \in Paths
        /\ task[c] = [pc |-> task[c].pc, path |-> task[c].path, buf |-> task[c].buf, data |-> task[c].data]
    BY <1>2, <1>a, RequestShape DEF FlushWrite, Busy
  <2>a. task'[c] = [task[c] EXCEPT !.pc = "clean"]
    BY <1>2, <1>a DEF FlushWrite, Become, ClientsOK
  <2>1. task'[c].data = task[c].data
    BY <2>0, <2>a
  <2>2. /\ live' = live
        /\ disk' = [disk EXCEPT ![p] = [exists |-> TRUE, content |-> task[c].data, mtime |-> clock + 1]]
        /\ misfiled'.strayed = misfiled.strayed \cup (task[c].data \ live[p])
    BY <1>2, <1>a DEF FlushWrite, SetDisk, StoreOK
  <2>3. CASE r = p
    BY <1>a, <2>0, <2>1, <2>2, <2>3 DEF Saved, StoreOK
  <2>4. CASE r # p
    <3>1. ~ (w \in live[p])
      BY <2>0, <2>2, <2>4 DEF IInv, LiveDisjoint
    <3> QED  BY <2>1, <2>2, <3>1 DEF Saved, Lost
  <2> QED  BY <2>3, <2>4
<1>3. CASE FlushClean(c)
  BY <1>3, <1>a DEF FlushClean, Become, ClientsOK
<1> QED  BY <1>1, <1>2, <1>3, <1>a, FlushSteps

\* What misses the disk when a file is not in use is explained.
LEMMA HeldIsExplained == IInv => UnsavedIsExplained
<1> SUFFICES ASSUME IInv, NEW p \in Paths, ~ InUse(p), NEW w \in Unsaved(p)
             PROVE  w \in Orphaned \cup Lost
  BY DEF UnsavedIsExplained, Lost
<1>1. w \in live[p] /\ ~ (w \in disk[p].content)
  BY DEF Unsaved
<1>2. CASE Saved(p, w)
  BY <1>1, <1>2 DEF Saved
<1>3. ASSUME NEW b \in BufferIds, Holds(b, p, w) PROVE w \in Orphaned
  <2>1. ~ Attended(b, p)
    <3>1. SUFFICES ASSUME NEW c \in Clients, \/ handle[c].buf = b /\ p \in handle[c].names
                                             \/ task[c].pc \in {"write", "clean"}
                   PROVE  FALSE
      BY DEF Attended
    <3>2. b # 0
      BY TypeSplits DEF IInv, BufferIds
    <3> QED  BY <3>1, <3>2 DEF InUse, IsOpen, Ready, Idle, Closed
  <2>2. \A q \in Paths : current[q] # b
    BY <1>3, <2>1 DEF Holds, Known
  <2> QED  BY <1>3, <2>2 DEF Holds, Orphaned
<1> QED  BY <1>1, <1>2, <1>3 DEF IInv, WritesHeld

LEMMA InitHeld == Init => IInv
<1> SUFFICES ASSUME Init PROVE IInv
  OBVIOUS
<1>1. TypeOK
  BY InitTyped
<1>2. \A c \in Clients : handle[c] = Closed /\ task[c].pc = "idle"
  BY DEF Init, Idle
<1>3. WritesHeld /\ LiveDisjoint /\ NumbersIssued
  BY <1>2 DEF Init, WritesHeld, LiveDisjoint, NumbersIssued, BufferIds
<1>4. FlushedSaved /\ OneName /\ Opening
  BY <1>2 DEF FlushedSaved, OneName, Opening
<1>5. OnePath /\ BufferOfPath
  BY DEF Init, OnePath, BufferOfPath
<1> QED  BY <1>1, <1>3, <1>4, <1>5 DEF IInv

\* Whatever the races between requests do, a write that counts for a file
\* nobody uses is on the disk, sits in a dirty buffer the manager has
\* forgotten, or was hit by one of the three named races of flush: a buffer the
\* manager knows is never left dirty by the last close.
THEOREM UnsavedExplained == Spec => []UnsavedIsExplained
<1>1. Init => IInv
  BY InitHeld
<1>2. IInv /\ [Next]_vars => IInv'
  <2> SUFFICES ASSUME IInv, [Next]_vars PROVE IInv'
    OBVIOUS
  <2>1. TypeOK' /\ LiveDisjoint' /\ OneName' /\ NumbersIssued'
    BY TypeInductive, LiveDisjointKept, OneNameKept, NumbersIssuedKept DEF IInv
  <2>2. OnePath' /\ BufferOfPath' /\ Opening'
    BY OnePathKept, BufferOfPathKept, OpeningKept DEF IInv
  <2>3. WritesHeld' /\ FlushedSaved'
    BY WritesHeldKept, FlushedSavedKept
  <2> QED  BY <2>1, <2>2, <2>3 DEF IInv
<1>3. IInv => UnsavedIsExplained
  BY HeldIsExplained
<1> QED  BY <1>1, <1>2, <1>3, PTL DEF Spec

-------------------------------------------------------------------------------
(***************************************************************************)
(* When no two applications use the same file, nothing is renamed or       *)
(* truncated and memory suffices: whatever a backend writes meanwhile,     *)
(* close saves.                                                            *)
(***************************************************************************)
Disciplined ==
  /\ \A c, d \in Clients : c # d => Opens[c] \cap Opens[d] = {}
  /\ \A c \in Clients : Operations[c] \cap {"rename", "truncate"} = {}
  /\ ~ Pressure

\* A client is busy with the files it opens.
Private ==
  \A c \in Clients :
    /\ handle[c] # Closed => handle[c].path \in Opens[c] /\ handle[c].names \subseteq {handle[c].path}
    /\ task[c].pc \in {"idle", "stat", "load", "insert", "write", "clean", "stamp", "install", "unlink"}
    /\ task[c].pc # "idle" => task[c].path \in Opens[c]
    /\ task[c].pc \in {"stat", "load", "insert"} => task[c].goal = "open"

At(c, pc, p) == task[c].pc = pc /\ task[c].path = p

HasOpen(c, p) == handle[c] # Closed /\ handle[c].path = p

OnDisk(p) == live[p] \subseteq disk[p].content

\* The buffer the manager knows has every write that counts for the file; the
\* disk has them too, unless that buffer is dirty and its file open or flushed.
BufferHasAll(c, p) ==
  IF current[p] = 0
    THEN OnDisk(p) \/ At(c, "unlink", p)
    ELSE /\ live[p] \subseteq bufs[current[p]].content
         /\ IF bufs[current[p]].dirty
              THEN HasOpen(c, p) \/ At(c, "write", p) \/ At(c, "clean", p)
              ELSE OnDisk(p)

\* The handle has the buffer the manager knows, or the file is removed.
HandleIsCurrent(c, p) ==
  HasOpen(c, p) =>
    \/ current[p] = handle[c].buf /\ handle[c].names = {p}
    \/ current[p] = 0 /\ (handle[c].names = {} \/ At(c, "unlink", p))

\* What a request has seen of the file is still so.
SeenIsSo(c, p) ==
  /\ At(c, "stat", p) => disk[p].exists /\ OnDisk(p) /\ task[c].buf = current[p]
  /\ At(c, "load", p) => disk[p].exists /\ OnDisk(p)
  /\ At(c, "insert", p) => disk[p].exists /\ OnDisk(p) /\ live[p] \subseteq task[c].data
  /\ At(c, "install", p) => disk[p].exists /\ live[p] = {}
  /\ At(c, "unlink", p) => current[p] = 0
  /\ At(c, "write", p) => current[p] = task[c].buf /\ live[p] \subseteq task[c].data
  /\ At(c, "clean", p) => current[p] = task[c].buf /\ OnDisk(p)

Local(c, p) == BufferHasAll(c, p) /\ HandleIsCurrent(c, p) /\ SeenIsSo(c, p)

Unused == \A p \in Paths : (\A c \in Clients : ~ (p \in Opens[c])) => live[p] = {}

OInv ==
  /\ TypeOK
  /\ OnePath
  /\ BufferOfPath
  /\ Opening
  /\ Private
  /\ Unused
  /\ \A c \in Clients : \A p \in Opens[c] : Local(c, p)

LEMMA OInitially == Disciplined /\ Init => OInv
<1> SUFFICES ASSUME Init PROVE OInv
  OBVIOUS
<1>1. TypeOK
  BY InitTyped
<1>2. \A c \in Clients : handle[c] = Closed /\ task[c].pc = "idle"
  BY DEF Init, Idle
<1>3. \A p \in Paths : live[p] = {} /\ current[p] = 0
  BY DEF Init
<1>4. OnePath /\ BufferOfPath /\ Opening /\ Unused
  BY <1>2, <1>3 DEF OnePath, BufferOfPath, Opening, Unused
<1>5. Private
  BY <1>2 DEF Private
<1>6. \A c \in Clients : \A p \in Opens[c] : Local(c, p)
  BY <1>2, <1>3, FileBuffersAssumption DEF FileBuffersAssumption, Local, BufferHasAll, HandleIsCurrent, SeenIsSo,
     At, HasOpen, OnDisk
<1> QED  BY <1>1, <1>4, <1>5, <1>6 DEF OInv

\* The operations that are left.
LEMMA DisciplinedSteps ==
  ASSUME Disciplined, OInv, [Next]_vars
  PROVE  \/ \E c \in Clients :
              \/ \E p \in Paths : OpenFile(c, p) \/ Create(c, p) \/ Unlink(c, p)
              \/ LoadStat(c) \/ LoadRead(c) \/ LoadInsert(c)
              \/ Write(c) \/ FlushHandle(c) \/ Close(c)
              \/ FlushWrite(c) \/ FlushClean(c) \/ FlushStamp(c)
              \/ CreateInstall(c) \/ UnlinkDisk(c)
         \/ \E p \in Paths : Refresh(p)
         \/ UNCHANGED vars
<1>1. \A c \in Clients : ~ Busy(c, "truncate") /\ ~ Busy(c, "setlen") /\ ~ Busy(c, "forget")
  BY DEF OInv, Private, Busy
<1>2. \A c \in Clients : ~ ("rename" \in Operations[c]) /\ ~ ("truncate" \in Operations[c])
  BY DEF Disciplined
<1>3. \A c \in Clients : ~ TruncateBuffer(c) /\ ~ TruncateDisk(c) /\ ~ RenameForget(c)
  BY <1>1 DEF TruncateBuffer, TruncateDisk, RenameForget
<1>4. \A c \in Clients, p, q \in Paths : ~ SetSize(c, p) /\ ~ Rename(c, p, q)
  BY <1>2 DEF SetSize, Rename
<1> QED  BY <1>3, <1>4 DEF Next

\* What a step of somebody else leaves alone.
Untouched(d, p) ==
  /\ handle'[d] = handle[d]
  /\ task'[d] = task[d]
  /\ disk'[p] = disk[p]
  /\ live'[p] = live[p]
  /\ current'[p] = current[p]
  /\ current[p] # 0 => /\ bufs'[current[p]].content = bufs[current[p]].content
                       /\ bufs'[current[p]].dirty = bufs[current[p]].dirty

LEMMA UntouchedKept ==
  ASSUME NEW d, NEW p, Local(d, p), Untouched(d, p)
  PROVE  Local(d, p)'
  BY DEF Local, Untouched, BufferHasAll, HandleIsCurrent, SeenIsSo, At, HasOpen, OnDisk

LEMMA PathsOpened == \A c \in Clients : Opens[c] \subseteq Paths
  BY FileBuffersAssumption DEF FileBuffersAssumption

LEMMA PrivateKept == Disciplined /\ OInv /\ [Next]_vars => Private'
<1> SUFFICES ASSUME Disciplined, OInv, [Next]_vars, NEW d \in Clients
             PROVE  /\ handle'[d] # Closed => handle'[d].path \in Opens[d] /\ handle'[d].names \subseteq {handle'[d].path}
                    /\ task'[d].pc \in {"idle", "stat", "load", "insert", "write", "clean", "stamp", "install", "unlink"}
                    /\ task'[d].pc # "idle" => task'[d].path \in Opens[d]
                    /\ task'[d].pc \in {"stat", "load", "insert"} => task'[d].goal = "open"
  BY DEF Private
<1> DEFINE H == handle'[d] # Closed => handle'[d].path \in Opens[d] /\ handle'[d].names \subseteq {handle'[d].path}
           T(r) == /\ r.pc \in {"idle", "stat", "load", "insert", "write", "clean", "stamp", "install", "unlink"}
                   /\ r.pc # "idle" => r.path \in Opens[d]
                   /\ r.pc \in {"stat", "load", "insert"} => r.goal = "open"
<1> SUFFICES H /\ T(task'[d])
  OBVIOUS
<1>a. StoreOK /\ ClientsOK /\ TypeOK
  BY TypeSplits DEF OInv
<1>b. /\ handle[d] # Closed => handle[d].path \in Opens[d] /\ handle[d].names \subseteq {handle[d].path}
      /\ T(task[d])
  BY DEF OInv, Private
<1>c. T(Idle)
  BY DEF Idle
<1>d. ASSUME handle' = handle PROVE H
  BY <1>b, <1>d
<1>e. ASSUME NEW c \in Clients, NEW r, Become(c, r), c = d => T(r) PROVE T(task'[d])
  <2>1. task'[d] = IF c = d THEN r ELSE task[d]
    BY <1>a, <1>e DEF Become, ClientsOK
  <2> HIDE DEF T
  <2> QED  BY <1>b, <1>e, <2>1
<1>f. ASSUME NEW c \in Clients, NEW p, NEW b, Obtain(c, p, b, "open"), p \in Opens[c]
      PROVE  H /\ T(task'[d])
  <2>1. handle'[d] = IF c = d THEN [path |-> p, buf |-> b, names |-> {q \in {p} : disk[q].exists}] ELSE handle[d]
    BY <1>a, <1>f DEF Obtain, OpenHandle, ClientsOK
  <2>2. T(task'[d])
    BY <1>c, <1>e, <1>f DEF Obtain, Finish
  <2>3. H
    BY <1>b, <1>f, <2>1
  <2> QED  BY <2>2, <2>3
<1> HIDE DEF H
<1>1. ASSUME NEW c \in Clients, NEW p \in Paths, OpenFile(c, p) PROVE H /\ T(task'[d])
  <2> DEFINE r == [pc |-> "stat", path |-> p, buf |-> current[p], goal |-> "open"]
  <2>1. p \in Opens[c] /\ (Obtain(c, p, current[p], "open") \/ (Become(c, r) /\ handle' = handle))
    BY <1>1 DEF OpenFile, GetOrLoad
  <2>2. c = d => T(r)
    BY <2>1
  <2> HIDE DEF r, T
  <2> QED  BY <1>d, <1>e, <1>f, <2>1, <2>2
<1>g. ASSUME NEW c \in Clients, c = d, task[c].pc # "idle" PROVE task[c].path \in Opens[c]
  BY <1>b, <1>g
<1>h. ASSUME NEW c \in Clients, task[c].pc # "idle" PROVE task[c].path \in Opens[c]
  BY <1>h DEF OInv, Private
<1>i. ASSUME NEW c \in Clients, task[c].pc \in {"stat", "load", "insert"} PROVE task[c].goal = "open"
  BY <1>i DEF OInv, Private
<1>2. ASSUME NEW c \in Clients, LoadStat(c) PROVE H /\ T(task'[d])
  <2> DEFINE r == [pc |-> "load", path |-> task[c].path, mtime |-> disk[task[c].path].mtime, goal |-> task[c].goal]
  <2>0. task[c].path \in Opens[c] /\ task[c].goal = "open"
    BY <1>2, <1>h, <1>i DEF LoadStat, Busy
  <2>1. \/ Obtain(c, task[c].path, task[c].buf, "open")
        \/ (Become(c, r) \/ Become(c, Idle)) /\ handle' = handle
    BY <1>2, <2>0 DEF LoadStat, Finish
  <2>2. c = d => T(r)
    BY <2>0
  <2> HIDE DEF r, T
  <2> QED  BY <1>c, <1>d, <1>e, <1>f, <2>0, <2>1, <2>2
<1>3. ASSUME NEW c \in Clients, LoadRead(c) PROVE H /\ T(task'[d])
  <2> DEFINE r == [pc |-> "insert", path |-> task[c].path, data |-> disk[task[c].path].content,
                   mtime |-> task[c].mtime, goal |-> task[c].goal]
  <2>0. task[c].path \in Opens[c] /\ task[c].goal = "open"
    BY <1>3, <1>h, <1>i DEF LoadRead, Busy
  <2>1. (Become(c, r) \/ Become(c, Idle)) /\ handle' = handle
    BY <1>3 DEF LoadRead, Finish
  <2>2. c = d => T(r)
    BY <2>0
  <2> HIDE DEF r, T
  <2> QED  BY <1>c, <1>d, <1>e, <2>1, <2>2
<1>4. ASSUME NEW c \in Clients, LoadInsert(c) PROVE H /\ T(task'[d])
  BY <1>4, <1>f, <1>h, <1>i DEF LoadInsert, Busy
<1>5. ASSUME NEW c \in Clients, CreateInstall(c) PROVE H /\ T(task'[d])
  BY <1>5, <1>f, <1>h DEF CreateInstall, Busy
<1>6. ASSUME NEW c \in Clients, NEW p, Flush(c, p), p \in Opens[c] PROVE T(task'[d])
  <2> DEFINE r == [pc |-> "write", path |-> p, buf |-> current[p], data |-> bufs[current[p]].content]
  <2>1. Become(c, r) \/ Become(c, Idle)
    BY <1>6 DEF Flush, Finish
  <2>2. c = d => T(r)
    BY <1>6
  <2> HIDE DEF r, T
  <2> QED  BY <1>c, <1>e, <2>1, <2>2
<1>j. ASSUME NEW c \in Clients, IsOpen(c) PROVE handle[c].path \in Opens[c]
  BY <1>j DEF IsOpen, OInv, Private
<1>7. ASSUME NEW c \in Clients, FlushHandle(c) PROVE H /\ T(task'[d])
  BY <1>6, <1>7, <1>d, <1>j DEF FlushHandle
<1>8. ASSUME NEW c \in Clients, Close(c) PROVE H /\ T(task'[d])
  <2>1. H
    BY <1>8, <1>a, <1>b DEF Close, ClientsOK, H
  <2> QED  BY <1>6, <1>8, <1>j, <2>1 DEF Close
<1>9. ASSUME NEW c \in Clients, FlushWrite(c) PROVE H /\ T(task'[d])
  <2> DEFINE r == [task[c] EXCEPT !.pc = "clean"]
  <2>1. /\ task[c].pc = "write" /\ task[c].path \in Opens[c]
        /\ task[c] = [pc |-> task[c].pc, path |-> task[c].path, buf |-> task[c].buf, data |-> task[c].data]
    BY <1>9, <1>a, <1>h, RequestShape DEF FlushWrite, Busy
  <2>2. c = d => T(r)
    BY <2>1
  <2>3. Become(c, r) /\ handle' = handle
    BY <1>9 DEF FlushWrite
  <2> HIDE DEF r, T
  <2> QED  BY <1>d, <1>e, <2>2, <2>3
<1>10. ASSUME NEW c \in Clients, FlushClean(c) PROVE H /\ T(task'[d])
  <2> DEFINE r == [pc |-> "stamp", path |-> task[c].path, buf |-> task[c].buf]
  <2>1. Become(c, r) /\ handle' = handle /\ (c = d => T(r))
    BY <1>10, <1>h DEF FlushClean, Busy
  <2> HIDE DEF r, T
  <2> QED  BY <1>d, <1>e, <2>1
<1>11. ASSUME NEW c \in Clients, FlushStamp(c) PROVE H /\ T(task'[d])
  BY <1>11, <1>c, <1>d, <1>e DEF FlushStamp, Finish
<1>12. ASSUME NEW c \in Clients, NEW p \in Paths, Create(c, p) PROVE H /\ T(task'[d])
  BY <1>12, <1>d, <1>e DEF Create
<1>13. ASSUME NEW c \in Clients, NEW p \in Paths, Unlink(c, p) PROVE H /\ T(task'[d])
  BY <1>13, <1>d, <1>e DEF Unlink
<1>14. ASSUME NEW c \in Clients, UnlinkDisk(c) PROVE H /\ T(task'[d])
  <2>1. H
    <3>1. CASE handle[d] = Closed
      BY <1>14, <3>1 DEF UnlinkDisk, Unlinked, H
    <3>2. CASE handle[d] # Closed
      <4>1. handle[d] \in [path : Paths, buf : 1 .. Len(bufs), names : SUBSET Paths]
        BY <1>a, <3>2 DEF ClientsOK, Handles
      <4>2. handle'[d] = [handle[d] EXCEPT !.names = handle[d].names \ {task[c].path}]
        BY <1>14, <3>2 DEF UnlinkDisk, Unlinked
      <4> QED  BY <1>b, <3>2, <4>1, <4>2 DEF H
    <3> QED  BY <3>1, <3>2
  <2> QED  BY <1>14, <1>c, <1>e, <2>1 DEF UnlinkDisk, Finish
<1>15. ASSUME NEW c \in Clients, Write(c) PROVE H /\ T(task'[d])
  BY <1>15, <1>b, <1>d DEF Write
<1>16. ASSUME NEW p \in Paths, Refresh(p) PROVE H /\ T(task'[d])
  BY <1>16, <1>b, <1>d DEF Refresh
<1>17. CASE UNCHANGED vars
  BY <1>17, <1>b, <1>d DEF vars
<1> HIDE DEF T
<1> QED  BY <1>1, <1>2, <1>3, <1>4, <1>5, <1>7, <1>8, <1>9, <1>10, <1>11, <1>12, <1>13, <1>14, <1>15,
            <1>16, <1>17, DisciplinedSteps

LEMMA UnusedKept == Disciplined /\ OInv /\ [Next]_vars => Unused'
<1> SUFFICES ASSUME Disciplined, OInv, [Next]_vars, NEW p \in Paths,
                    \A c \in Clients : ~ (p \in Opens[c])
             PROVE  live'[p] = {}
  BY DEF Unused
<1>a. StoreOK /\ ClientsOK /\ TypeOK /\ live[p] = {}
  BY TypeSplits DEF OInv, Unused
<1>1. ASSUME NEW c \in Clients, Write(c) PROVE live'[p] = {}
  <2>1. handle[c].path \in Opens[c] /\ handle[c].names \subseteq {handle[c].path}
    BY <1>1 DEF Write, IsOpen, OInv, Private
  <2> QED  BY <1>1, <1>a, <2>1 DEF Write, Acknowledge
<1>2. ASSUME NEW c \in Clients, NEW q \in Paths, OpenFile(c, q) \/ Create(c, q) \/ Unlink(c, q)
      PROVE  live'[p] = {}
  BY <1>2, <1>a DEF OpenFile, GetOrLoad, Create, Unlink, StoreOK
<1>3. ASSUME NEW c \in Clients,
             \/ LoadStat(c) \/ LoadRead(c) \/ LoadInsert(c) \/ FlushHandle(c) \/ Close(c)
             \/ FlushWrite(c) \/ FlushClean(c) \/ FlushStamp(c) \/ CreateInstall(c)
      PROVE  live'[p] = {}
  BY <1>3, <1>a DEF LoadStat, LoadRead, LoadInsert, FlushHandle, Close, Flush, FlushWrite,
                    FlushClean, FlushStamp, CreateInstall
<1>4. ASSUME NEW c \in Clients, UnlinkDisk(c) PROVE live'[p] = {}
  BY <1>4, <1>a DEF UnlinkDisk, StoreOK
<1>5. ASSUME NEW q \in Paths, Refresh(q) PROVE live'[p] = {}
  BY <1>5, <1>a DEF Refresh, StoreOK
<1>6. CASE UNCHANGED vars
  BY <1>6, <1>a DEF vars
<1> QED  BY <1>1, <1>2, <1>3, <1>4, <1>5, <1>6, DisciplinedSteps

\* A buffer that changes is known, if at all, under the path of who changes it.
LEMMA OthersUntouched ==
  ASSUME Disciplined, OInv, NEW c \in Clients, NEW d \in Clients, c # d, NEW p \in Opens[d],
         \/ \E q \in Paths : OpenFile(c, q) \/ Create(c, q) \/ Unlink(c, q)
         \/ LoadStat(c) \/ LoadRead(c) \/ LoadInsert(c)
         \/ Write(c) \/ FlushHandle(c) \/ Close(c)
         \/ FlushWrite(c) \/ FlushClean(c) \/ FlushStamp(c)
         \/ CreateInstall(c) \/ UnlinkDisk(c)
  PROVE  Untouched(d, p)
<1>a. StoreOK /\ ClientsOK /\ TypeOK /\ Len(bufs) \in Nat /\ p \in Paths
  BY TypeSplits, PathsOpened DEF OInv, StoreOK
<1>b. ~ (p \in Opens[c])
  BY DEF Disciplined
<1>c. task[c].pc # "idle" => task[c].path \in Opens[c] /\ task[c].path \in Paths /\ task[c].path # p
  BY <1>b, PathsOpened DEF OInv, Private
<1>d. handle[c] # Closed => handle[c].path \in Opens[c] /\ handle[c].names \subseteq {handle[c].path}
                            /\ handle[c].path # p
  BY <1>b DEF OInv, Private
<1>e. ASSUME current[p] # 0, task[c].pc \in {"stat", "truncate", "stamp", "write", "clean"}
      PROVE  task[c].buf # current[p]
  BY <1>a, <1>c, <1>e DEF OInv, BufferOfPath
<1>f. ASSUME current[p] # 0, handle[c] # Closed PROVE handle[c].buf # current[p]
  BY <1>a, <1>d, <1>f DEF OInv, BufferOfPath
<1>g. current[p] # 0 => current[p] \in 1 .. Len(bufs)
  BY <1>a DEF StoreOK
<1>h. ASSUME NEW b, NEW x, bufs' = [bufs EXCEPT ![b] = x], current[p] # 0 => b # current[p]
      PROVE  current[p] # 0 => /\ bufs'[current[p]].content = bufs[current[p]].content
                               /\ bufs'[current[p]].dirty = bufs[current[p]].dirty
  BY <1>a, <1>g, <1>h DEF StoreOK
<1>i. ASSUME handle' = handle, \E r : Become(c, r), disk' = disk, live' = live, current' = current, bufs' = bufs
      PROVE  Untouched(d, p)
  BY <1>a, <1>i DEF Untouched, Become, ClientsOK
<1>1. ASSUME NEW q \in Paths, OpenFile(c, q) PROVE Untouched(d, p)
  BY <1>1, <1>a DEF OpenFile, GetOrLoad, Obtain, OpenHandle, Finish, Become, ClientsOK, Untouched
<1>2. ASSUME NEW q \in Paths, Create(c, q) PROVE Untouched(d, p)
  <2>1. q # p
    BY <1>2, <1>b DEF Create
  <2> QED  BY <1>2, <1>a, <2>1 DEF Create, SetDisk, Become, ClientsOK, StoreOK, Untouched
<1>3. ASSUME NEW q \in Paths, Unlink(c, q) PROVE Untouched(d, p)
  <2>1. q # p
    BY <1>3, <1>b DEF Unlink
  <2> QED  BY <1>3, <1>a, <2>1 DEF Unlink, Become, ClientsOK, StoreOK, Untouched
<1>j. ASSUME NEW q, NEW b, NEW goal, Obtain(c, q, b, goal) PROVE handle'[d] = handle[d] /\ task'[d] = task[d]
  BY <1>a, <1>j DEF Obtain, OpenHandle, Finish, Become, ClientsOK
<1>4. ASSUME LoadStat(c) PROVE Untouched(d, p)
  <2>1. handle'[d] = handle[d] /\ task'[d] = task[d]
    <3>1. \/ Obtain(c, task[c].path, task[c].buf, task[c].goal)
          \/ (\E r : Become(c, r)) /\ handle' = handle
      BY <1>4 DEF LoadStat, Finish
    <3> QED  BY <1>a, <1>j, <3>1 DEF Become, ClientsOK
  <2>2. current'[p] = current[p]
    BY <1>4, <1>a, <1>c DEF LoadStat, Busy, StoreOK
  <2> QED  BY <1>4, <2>1, <2>2 DEF LoadStat, Untouched
<1>5. ASSUME LoadRead(c) PROVE Untouched(d, p)
  <2>1. \E r : Become(c, r)
    BY <1>5 DEF LoadRead, Finish
  <2> QED  BY <1>5, <1>i, <2>1 DEF LoadRead
<1>6. ASSUME NEW data, NEW mtime, NEW q \in Paths, q # p, Cache(q, data, mtime)
      PROVE  /\ current'[p] = current[p]
             /\ current[p] # 0 => /\ bufs'[current[p]].content = bufs[current[p]].content
                                  /\ bufs'[current[p]].dirty = bufs[current[p]].dirty
  <2>1. current'[p] = current[p]
    BY <1>6, <1>a DEF Cache, Disciplined
  <2>2. bufs' = Append(bufs, [content |-> data, dirty |-> FALSE, mtime |-> mtime])
    BY <1>6 DEF Cache
  <2>3. current[p] # 0 => bufs'[current[p]] = bufs[current[p]]
    BY <1>a, <1>g, <2>2 DEF StoreOK
  <2> QED  BY <2>1, <2>3
<1>7. ASSUME LoadInsert(c) PROVE Untouched(d, p)
  BY <1>7, <1>c, <1>j, <1>6 DEF LoadInsert, Busy, Untouched
<1>8. ASSUME CreateInstall(c) PROVE Untouched(d, p)
  BY <1>8, <1>c, <1>j, <1>6 DEF CreateInstall, Busy, Untouched
<1>9. ASSUME Write(c) PROVE Untouched(d, p)
  <2>1. current[p] # 0 => /\ bufs'[current[p]].content = bufs[current[p]].content
                          /\ bufs'[current[p]].dirty = bufs[current[p]].dirty
    BY <1>9, <1>f, <1>h DEF Write, IsOpen
  <2>2. live'[p] = live[p]
    BY <1>9, <1>a, <1>d DEF Write, Acknowledge, IsOpen
  <2> QED  BY <1>9, <2>1, <2>2 DEF Write, Untouched
<1>10. ASSUME FlushHandle(c) PROVE Untouched(d, p)
  <2>1. \E r : Become(c, r)
    BY <1>10 DEF FlushHandle, Flush, Finish
  <2> QED  BY <1>10, <1>i, <2>1 DEF FlushHandle, Flush
<1>11. ASSUME Close(c) PROVE Untouched(d, p)
  <2>1. task'[d] = task[d]
    BY <1>11, <1>a DEF Close, Flush, Finish, Become, ClientsOK
  <2> QED  BY <1>11, <1>a, <2>1 DEF Close, Flush, ClientsOK, Untouched
<1>12. ASSUME FlushWrite(c) PROVE Untouched(d, p)
  BY <1>12, <1>a, <1>c DEF FlushWrite, Busy, SetDisk, Become, ClientsOK, StoreOK, Untouched
<1>13. ASSUME FlushClean(c) PROVE Untouched(d, p)
  <2>1. current[p] # 0 => /\ bufs'[current[p]].content = bufs[current[p]].content
                          /\ bufs'[current[p]].dirty = bufs[current[p]].dirty
    <3>1. bufs' = [bufs EXCEPT ![task[c].buf] = [bufs[task[c].buf] EXCEPT !.dirty = FALSE]]
      BY <1>13 DEF FlushClean
    <3> QED  BY <1>13, <1>e, <1>h, <3>1 DEF FlushClean, Busy
  <2> QED  BY <1>13, <1>a, <2>1 DEF FlushClean, Become, ClientsOK, Untouched
<1>14. ASSUME FlushStamp(c) PROVE Untouched(d, p)
  <2>1. current[p] # 0 => /\ bufs'[current[p]].content = bufs[current[p]].content
                          /\ bufs'[current[p]].dirty = bufs[current[p]].dirty
    <3>1. bufs' = bufs \/ bufs' = [bufs EXCEPT ![task[c].buf] =
                                     [bufs[task[c].buf] EXCEPT !.mtime = disk[task[c].path].mtime]]
      BY <1>14 DEF FlushStamp
    <3> QED  BY <1>14, <1>e, <1>h, <3>1 DEF FlushStamp, Busy
  <2> QED  BY <1>14, <1>a, <2>1 DEF FlushStamp, Finish, Become, ClientsOK, Untouched
<1>15. ASSUME UnlinkDisk(c) PROVE Untouched(d, p)
  <2>1. handle'[d] = handle[d]
    <3>1. CASE handle[d] = Closed
      BY <1>15, <3>1 DEF UnlinkDisk, Unlinked
    <3>2. CASE handle[d] # Closed
      <4>1. handle[d] \in [path : Paths, buf : 1 .. Len(bufs), names : SUBSET Paths]
        BY <1>a, <3>2 DEF ClientsOK, Handles
      <4>2. handle'[d] = [handle[d] EXCEPT !.names = handle[d].names \ {task[c].path}]
        BY <1>15, <3>2 DEF UnlinkDisk, Unlinked
      <4>3. handle[d].names \ {task[c].path} = handle[d].names
        BY <1>15, <1>c, <3>2 DEF UnlinkDisk, Busy, OInv, Private, Disciplined
      <4> QED  BY <4>1, <4>2, <4>3
    <3> QED  BY <3>1, <3>2
  <2>2. disk'[p] = disk[p] /\ live'[p] = live[p]
    BY <1>15, <1>a, <1>c DEF UnlinkDisk, Busy, StoreOK
  <2> QED  BY <1>15, <1>a, <2>1, <2>2 DEF UnlinkDisk, Finish, Become, ClientsOK, Untouched
<1> QED  BY <1>1, <1>2, <1>3, <1>4, <1>5, <1>7, <1>8, <1>9, <1>10, <1>11, <1>12, <1>13, <1>14, <1>15

\* A request on another file of the same application.
Elsewhere(c, p) ==
  /\ disk'[p] = disk[p]
  /\ live'[p] = live[p]
  /\ current'[p] = current[p]
  /\ current[p] # 0 => /\ bufs'[current[p]].content = bufs[current[p]].content
                       /\ bufs'[current[p]].dirty = bufs[current[p]].dirty
  /\ task[c].path # p \/ task[c].pc = "idle"
  /\ task'[c].path # p \/ task'[c].pc \in {"idle", "stamp"}
  /\ HasOpen(c, p) => HasOpen(c, p)' /\ handle'[c].buf = handle[c].buf /\ handle'[c].names = handle[c].names
  /\ HasOpen(c, p)' => HasOpen(c, p)

LEMMA ElsewhereKept ==
  ASSUME NEW c, NEW p, Local(c, p), Elsewhere(c, p)
  PROVE  Local(c, p)'
<1>1. ~ At(c, "unlink", p) /\ ~ At(c, "write", p) /\ ~ At(c, "clean", p)
  BY DEF At, Elsewhere
<1>2. /\ ~ At(c, "stat", p)' /\ ~ At(c, "load", p)' /\ ~ At(c, "insert", p)' /\ ~ At(c, "install", p)'
      /\ ~ At(c, "unlink", p)' /\ ~ At(c, "write", p)' /\ ~ At(c, "clean", p)'
  BY DEF At, Elsewhere
<1>3. SeenIsSo(c, p)'
  BY <1>2 DEF SeenIsSo
<1>4. BufferHasAll(c, p)'
  BY <1>1 DEF Local, BufferHasAll, Elsewhere, OnDisk
<1>5. HandleIsCurrent(c, p)'
  BY <1>1 DEF Local, HandleIsCurrent, Elsewhere
<1> QED  BY <1>3, <1>4, <1>5 DEF Local

\* get_or_load finds the disk to have everything, unless the buffer is dirty.
LEMMA LoadLocal ==
  ASSUME Disciplined, OInv, NEW c \in Clients, NEW p \in Opens[c],
         \/ \E q \in Paths : OpenFile(c, q)
         \/ LoadStat(c) \/ LoadRead(c) \/ LoadInsert(c) \/ CreateInstall(c)
  PROVE  Local(c, p)'
<1>a. StoreOK /\ ClientsOK /\ TypeOK /\ Len(bufs) \in Nat /\ p \in Paths /\ Local(c, p)
  BY TypeSplits, PathsOpened DEF OInv, StoreOK
<1>b. task[c].pc # "idle" => task[c].path \in Opens[c] /\ task[c].path \in Paths
  BY PathsOpened DEF OInv, Private
<1>c. task[c].pc \in {"stat", "load", "insert"} => task[c].goal = "open"
  BY DEF OInv, Private
<1>d. task[c].pc \in {"stat", "load", "insert", "install"} => handle[c] = Closed
  BY <1>c DEF OInv, Opening
<1>e. Idle.pc = "idle"
  BY DEF Idle
<1>g. current[p] # 0 => current[p] \in 1 .. Len(bufs)
  BY <1>a DEF StoreOK
\* A handle on the buffer the manager knows.
<1>1. ASSUME NEW q \in Paths, Obtain(c, q, current'[q], "open"), handle[c] = Closed,
             disk[q].exists, disk' = disk, live' = live,
             task[c].pc # "idle" => task[c].path = q,
             q # p => /\ current'[p] = current[p]
                      /\ current[p] # 0 => /\ bufs'[current[p]].content = bufs[current[p]].content
                                           /\ bufs'[current[p]].dirty = bufs[current[p]].dirty,
             q = p => /\ current'[p] # 0
                      /\ live[p] \subseteq bufs'[current'[p]].content
                      /\ bufs'[current'[p]].dirty \/ OnDisk(p)
      PROVE  Local(c, p)'
  <2>1. /\ handle'[c] = [path |-> q, buf |-> current'[q], names |-> {x \in {q} : disk[x].exists}]
        /\ task'[c] = Idle
    BY <1>1, <1>a DEF Obtain, OpenHandle, Finish, Become, ClientsOK
  <2>2. handle'[c] # Closed /\ handle'[c].path = q /\ handle'[c].buf = current'[q] /\ handle'[c].names = {q}
    BY <1>1, <2>1 DEF Closed
  <2>3. CASE q # p
    <3>1. Elsewhere(c, p)
      BY <1>1, <1>e, <2>1, <2>2, <2>3 DEF Elsewhere, HasOpen
    <3> QED  BY <1>a, <3>1, ElsewhereKept
  <2>4. CASE q = p
    <3>1. SeenIsSo(c, p)'
      BY <1>e, <2>1 DEF SeenIsSo, At
    <3>2. HandleIsCurrent(c, p)'
      BY <2>2, <2>4 DEF HandleIsCurrent, HasOpen
    <3>3. BufferHasAll(c, p)'
      BY <1>1, <2>2, <2>4 DEF BufferHasAll, HasOpen, OnDisk
    <3> QED  BY <3>1, <3>2, <3>3 DEF Local
  <2> QED  BY <2>3, <2>4
\* A request that goes on.
<1>2. ASSUME NEW q \in Paths, q # p, NEW r, Become(c, r), handle' = handle, r.path = q \/ r = Idle,
             task[c].pc # "idle" => task[c].path = q, disk' = disk, live' = live, bufs' = bufs,
             current'[p] = current[p]
      PROVE  Local(c, p)'
  <2>1. task'[c] = r
    BY <1>2, <1>a DEF Become, ClientsOK
  <2>2. Elsewhere(c, p)
    BY <1>2, <1>e, <2>1 DEF Elsewhere, HasOpen
  <2> QED  BY <1>a, <2>2, ElsewhereKept
<1>3. ASSUME NEW q \in Paths, OpenFile(c, q) PROVE Local(c, p)'
  <2>0. Ready(c) /\ handle[c] = Closed /\ disk[q].exists /\ UNCHANGED <<disk, clock, bufs, current, issued, live, misfiled>>
    BY <1>3 DEF OpenFile, GetOrLoad, IsOpen
  <2>a. task[c].pc = "idle"
    BY <1>e, <2>0 DEF Ready
  <2>1. CASE current[q] # 0 /\ bufs[current[q]].dirty
    <3>1. Obtain(c, q, current'[q], "open")
      BY <1>3, <2>0, <2>1 DEF OpenFile, GetOrLoad
    <3>2. q = p => live[p] \subseteq bufs'[current'[p]].content
      BY <1>a, <2>0, <2>1 DEF Local, BufferHasAll
    <3> QED  BY <1>1, <2>0, <2>1, <2>a, <3>1, <3>2
  <2>2. CASE ~ (current[q] # 0 /\ bufs[current[q]].dirty)
    <3> DEFINE r == [pc |-> "stat", path |-> q, buf |-> current[q], goal |-> "open"]
    <3>1. Become(c, r) /\ handle' = handle
      BY <1>3, <2>2 DEF OpenFile, GetOrLoad
    <3>2. CASE q # p
      <4>1. r.path = q
        OBVIOUS
      <4> HIDE DEF r
      <4> QED  BY <1>2, <2>0, <2>a, <3>1, <3>2, <4>1
    <3>3. CASE q = p
      <4>1. task'[c] = r
        BY <1>a, <3>1 DEF Become, ClientsOK
      <4>2. OnDisk(p)
        BY <1>a, <2>2, <2>a, <3>3 DEF Local, BufferHasAll, At
      <4>3. SeenIsSo(c, p)'
        BY <2>0, <3>3, <4>1, <4>2 DEF SeenIsSo, At, OnDisk
      <4>4. HandleIsCurrent(c, p)'
        BY <2>0, <3>1 DEF HandleIsCurrent, HasOpen
      <4>5. BufferHasAll(c, p)'
        BY <1>a, <2>0, <2>2, <3>3, <4>2 DEF BufferHasAll, OnDisk, Local
      <4> QED  BY <4>3, <4>4, <4>5 DEF Local
    <3> QED  BY <3>2, <3>3
  <2> QED  BY <2>1, <2>2
<1>4. ASSUME LoadStat(c) PROVE Local(c, p)'
  <2> DEFINE q == task[c].path
             b == task[c].buf
             stale == disk[q].exists /\ (b # 0 => disk[q].mtime > bufs[b].mtime)
             r == [pc |-> "load", path |-> q, mtime |-> disk[q].mtime, goal |-> task[c].goal]
  <2>0. /\ task[c].pc = "stat" /\ q \in Opens[c] /\ q \in Paths /\ handle[c] = Closed /\ task[c].goal = "open"
        /\ disk' = disk /\ live' = live /\ bufs' = bufs
    BY <1>4, <1>b, <1>c, <1>d DEF LoadStat, Busy
  <2>a. disk[q].exists /\ OnDisk(q) /\ b = current[q] /\ BufferHasAll(c, q)
    BY <2>0 DEF OInv, Local, SeenIsSo, At
  <2>1. CASE stale
    <3>1. /\ Become(c, r) /\ handle' = handle
          /\ current' = IF b = 0 THEN current ELSE [current EXCEPT ![q] = 0]
      BY <1>4, <2>1 DEF LoadStat
    <3>2. CASE q # p
      <4>1. current'[p] = current[p] /\ r.path = q
        BY <1>a, <3>1, <3>2 DEF StoreOK
      <4> HIDE DEF r
      <4> QED  BY <1>2, <2>0, <3>1, <3>2, <4>1
    <3>3. CASE q = p
      <4>1. task'[c] = r /\ current'[p] = 0
        BY <1>a, <2>a, <3>1, <3>3 DEF Become, ClientsOK, StoreOK
      <4>2. SeenIsSo(c, p)'
        BY <2>0, <2>a, <3>3, <4>1 DEF SeenIsSo, At, OnDisk
      <4>3. HandleIsCurrent(c, p)'
        BY <2>0, <3>1 DEF HandleIsCurrent, HasOpen
      <4>4. BufferHasAll(c, p)'
        BY <2>0, <2>a, <3>3, <4>1 DEF BufferHasAll, OnDisk
      <4> QED  BY <4>2, <4>3, <4>4 DEF Local
    <3> QED  BY <3>2, <3>3
  <2>2. CASE ~ stale
    <3>1. b # 0
      BY <2>a, <2>2
    <3>2. Obtain(c, q, current'[q], "open") /\ current' = current
      BY <1>4, <2>0, <2>2, <2>a, <3>1 DEF LoadStat
    <3>3. live[q] \subseteq bufs'[current'[q]].content
      BY <2>0, <2>a, <3>1, <3>2 DEF BufferHasAll
    <3> QED  BY <1>1, <2>0, <2>a, <3>1, <3>2, <3>3
  <2> QED  BY <2>1, <2>2
<1>5. ASSUME LoadRead(c) PROVE Local(c, p)'
  <2> DEFINE q == task[c].path
             r == [pc |-> "insert", path |-> q, data |-> disk[q].content,
                   mtime |-> task[c].mtime, goal |-> task[c].goal]
  <2>0. /\ task[c].pc = "load" /\ q \in Opens[c] /\ q \in Paths /\ handle[c] = Closed
        /\ disk' = disk /\ live' = live /\ bufs' = bufs /\ current' = current /\ handle' = handle
    BY <1>5, <1>b, <1>d DEF LoadRead, Busy
  <2>a. disk[q].exists /\ OnDisk(q) /\ BufferHasAll(c, q)
    BY <2>0 DEF OInv, Local, SeenIsSo, At
  <2>1. Become(c, r)
    BY <1>5, <2>a DEF LoadRead
  <2>2. CASE q # p
    <3>1. r.path = q
      OBVIOUS
    <3> HIDE DEF r
    <3> QED  BY <1>2, <2>0, <2>1, <2>2, <3>1
  <2>3. CASE q = p
    <3>1. task'[c] = r
      BY <1>a, <2>1 DEF Become, ClientsOK
    <3>2. SeenIsSo(c, p)'
      BY <2>0, <2>a, <2>3, <3>1 DEF SeenIsSo, At, OnDisk
    <3>3. HandleIsCurrent(c, p)'
      BY <2>0 DEF HandleIsCurrent, HasOpen
    <3>4. BufferHasAll(c, p)'
      <4>1. ~ At(c, "write", p) /\ ~ At(c, "clean", p) /\ ~ HasOpen(c, p)
        BY <2>0 DEF At, HasOpen
      <4> QED  BY <2>0, <2>a, <2>3, <4>1 DEF BufferHasAll, OnDisk
    <3> QED  BY <3>2, <3>3, <3>4 DEF Local
  <2> QED  BY <2>2, <2>3
\* The new buffer is the one the manager knows.
<1>6. ASSUME NEW q \in Paths, NEW data, NEW mtime, Cache(q, data, mtime), q = p => live[p] \subseteq data
      PROVE  /\ current'[q] = Len(bufs) + 1
             /\ q # p => /\ current'[p] = current[p]
                         /\ current[p] # 0 => /\ bufs'[current[p]].content = bufs[current[p]].content
                                              /\ bufs'[current[p]].dirty = bufs[current[p]].dirty
             /\ q = p => live[p] \subseteq bufs'[current'[p]].content
  <2>1. current'[q] = Len(bufs) + 1 /\ (q # p => current'[p] = current[p])
    BY <1>6, <1>a DEF Cache, Disciplined
  <2>2. bufs' = Append(bufs, [content |-> data, dirty |-> FALSE, mtime |-> mtime])
    BY <1>6 DEF Cache
  <2>3. current[p] # 0 => bufs'[current[p]] = bufs[current[p]]
    BY <1>a, <1>g, <2>2 DEF StoreOK
  <2>4. bufs'[Len(bufs) + 1].content = data
    BY <1>a, <2>2 DEF StoreOK
  <2> QED  BY <1>6, <2>1, <2>3, <2>4
<1>7. ASSUME LoadInsert(c) PROVE Local(c, p)'
  <2> DEFINE q == task[c].path
  <2>0. /\ task[c].pc = "insert" /\ q \in Opens[c] /\ q \in Paths /\ handle[c] = Closed /\ task[c].goal = "open"
        /\ disk' = disk /\ live' = live
    BY <1>7, <1>b, <1>c, <1>d DEF LoadInsert, Busy
  <2>a. disk[q].exists /\ OnDisk(q) /\ live[q] \subseteq task[c].data
    BY <2>0 DEF OInv, Local, SeenIsSo, At
  <2>1. Cache(q, task[c].data, task[c].mtime) /\ Obtain(c, q, Len(bufs) + 1, "open")
    BY <1>7, <2>0 DEF LoadInsert
  <2> QED  BY <1>1, <1>6, <1>a, <2>0, <2>1, <2>a
<1>8. ASSUME CreateInstall(c) PROVE Local(c, p)'
  <2> DEFINE q == task[c].path
  <2>0. /\ task[c].pc = "install" /\ q \in Opens[c] /\ q \in Paths /\ handle[c] = Closed
        /\ disk' = disk /\ live' = live
    BY <1>8, <1>b, <1>d DEF CreateInstall, Busy
  <2>a. disk[q].exists /\ live[q] = {} /\ OnDisk(q)
    BY <2>0 DEF OInv, Local, SeenIsSo, At, OnDisk
  <2>1. Cache(q, {}, clock) /\ Obtain(c, q, Len(bufs) + 1, "open")
    BY <1>8 DEF CreateInstall
  <2> QED  BY <1>1, <1>6, <1>a, <2>0, <2>1, <2>a
<1> QED  BY <1>3, <1>4, <1>5, <1>7, <1>8

\* write, flush and close: the copy has everything, and so has what it becomes.
LEMMA FlushLocal ==
  ASSUME Disciplined, OInv, NEW c \in Clients, NEW p \in Opens[c],
         \/ Write(c) \/ FlushHandle(c) \/ Close(c)
         \/ FlushWrite(c) \/ FlushClean(c) \/ FlushStamp(c)
  PROVE  Local(c, p)'
<1>a. StoreOK /\ ClientsOK /\ TypeOK /\ Len(bufs) \in Nat /\ p \in Paths /\ Local(c, p)
  BY TypeSplits, PathsOpened DEF OInv, StoreOK
<1>b. task[c].pc # "idle" => task[c].path \in Opens[c] /\ task[c].path \in Paths
  BY PathsOpened DEF OInv, Private
<1>c. handle[c] # Closed => handle[c].path \in Opens[c] /\ handle[c].path \in Paths
                            /\ handle[c].names \subseteq {handle[c].path}
  BY PathsOpened DEF OInv, Private
<1>e. Idle.pc = "idle"
  BY DEF Idle
<1>f. Ready(c) => task[c].pc = "idle"
  BY <1>e DEF Ready
<1>g. current[p] # 0 => current[p] \in 1 .. Len(bufs) /\ bufs[current[p]] \in Buffer
  BY <1>a DEF StoreOK
<1>h. ASSUME current[p] # 0, handle[c] # Closed, handle[c].buf = current[p] PROVE handle[c].path = p
  BY <1>a, <1>h DEF OInv, BufferOfPath
<1>i. ASSUME current[p] # 0, task[c].pc \in {"write", "clean", "stamp"}, task[c].buf = current[p]
      PROVE  task[c].path = p
  BY <1>a, <1>i DEF OInv, BufferOfPath
<1>1. ASSUME Write(c) PROVE Local(c, p)'
  <2> DEFINE b == handle[c].buf
             y == [content |-> bufs[b].content \cup {issued + 1}, dirty |-> TRUE, mtime |-> clock]
  <2>0. /\ handle[c] # Closed /\ task[c].pc = "idle" /\ handle' = handle /\ task' = task /\ disk' = disk
        /\ current' = current /\ bufs' = [bufs EXCEPT ![b] = y] /\ Acknowledge(handle[c].names, issued + 1)
    BY <1>1, <1>f DEF Write, IsOpen
  <2>y. y.content = bufs[b].content \cup {issued + 1} /\ y.dirty
    OBVIOUS
  <2> HIDE DEF y
  <2>1. CASE handle[c].path # p
    <3>1. live'[p] = live[p]
      BY <1>a, <1>c, <2>0, <2>1 DEF Acknowledge
    <3>2. current[p] # 0 => bufs'[current[p]] = bufs[current[p]]
      BY <1>a, <1>g, <1>h, <2>0, <2>1 DEF StoreOK
    <3>3. Elsewhere(c, p)
      BY <2>0, <2>1, <3>1, <3>2 DEF Elsewhere, HasOpen
    <3> QED  BY <1>a, <3>3, ElsewhereKept
  <2>2. CASE handle[c].path = p
    <3>1. \/ current[p] = b /\ handle[c].names = {p}
          \/ current[p] = 0 /\ handle[c].names = {}
      BY <1>a, <2>0, <2>2 DEF Local, HandleIsCurrent, HasOpen, At
    <3>2. live'[p] = IF p \in handle[c].names THEN live[p] \cup {issued + 1} ELSE live[p]
      BY <1>a, <2>0 DEF Acknowledge
    <3>3. SeenIsSo(c, p)'
      BY <2>0 DEF SeenIsSo, At
    <3>4. HandleIsCurrent(c, p)'
      BY <2>0, <2>2, <3>1 DEF HandleIsCurrent, HasOpen
    <3>5. BufferHasAll(c, p)'
      <4>1. CASE current[p] = 0
        <5>1. live'[p] = live[p]
          <6>1. b # 0
            BY <1>a, <2>0 DEF ClientsOK, Handles
          <6> QED  BY <3>1, <3>2, <4>1, <6>1
        <5>2. OnDisk(p)
          BY <1>a, <2>0, <4>1 DEF Local, BufferHasAll, At
        <5> QED  BY <2>0, <4>1, <5>1, <5>2 DEF BufferHasAll, OnDisk
      <4>2. CASE current[p] # 0
        <5>1. bufs'[current[p]] = y /\ b = current[p]
          BY <1>a, <1>g, <2>0, <3>1, <4>2 DEF StoreOK
        <5>2. live[p] \subseteq bufs[b].content
          BY <1>a, <3>1, <4>2 DEF Local, BufferHasAll
        <5> QED  BY <2>0, <2>2, <2>y, <3>2, <4>2, <5>1, <5>2 DEF BufferHasAll, HasOpen
      <4> QED  BY <4>1, <4>2
    <3> QED  BY <3>3, <3>4, <3>5 DEF Local
  <2> QED  BY <2>1, <2>2
<1>2. ASSUME FlushHandle(c) \/ Close(c) PROVE Local(c, p)'
  <2> DEFINE q == handle[c].path
             b == current[q]
             r == [pc |-> "write", path |-> q, buf |-> b, data |-> bufs[b].content]
  <2>0. /\ handle[c] # Closed /\ task[c].pc = "idle" /\ disk' = disk /\ bufs' = bufs /\ current' = current
        /\ live' = live /\ Flush(c, q) /\ q \in Opens[c] /\ q \in Paths
    BY <1>2, <1>c, <1>f DEF FlushHandle, Close, Flush, IsOpen
  <2>a. handle'[c] = handle[c] \/ handle'[c] = Closed
    BY <1>2, <1>a DEF FlushHandle, Close, ClientsOK
  <2>b. task'[c] = IF b # 0 /\ bufs[b].dirty THEN r ELSE Idle
    BY <1>a, <2>0 DEF Flush, Finish, Become, ClientsOK
  <2>1. CASE q # p
    <3>1. task'[c].path # p \/ task'[c].pc = "idle"
      BY <1>e, <2>1, <2>b
    <3>2. Elsewhere(c, p)
      BY <2>0, <2>1, <2>a, <3>1 DEF Elsewhere, HasOpen
    <3> QED  BY <1>a, <3>2, ElsewhereKept
  <2>2. CASE q = p
    <3>1. HandleIsCurrent(c, p)'
      BY <1>a, <2>0, <2>a DEF Local, HandleIsCurrent, HasOpen, At
    <3>2. CASE b # 0 /\ bufs[b].dirty
      <4>1. SeenIsSo(c, p)'
        BY <1>a, <2>0, <2>2, <2>b, <3>2 DEF SeenIsSo, At, Local, BufferHasAll
      <4>2. BufferHasAll(c, p)'
        BY <1>a, <2>0, <2>2, <2>b, <3>2 DEF BufferHasAll, Local, At
      <4> QED  BY <3>1, <4>1, <4>2 DEF Local
    <3>3. CASE ~ (b # 0 /\ bufs[b].dirty)
      <4>1. SeenIsSo(c, p)'
        BY <1>e, <2>b, <3>3 DEF SeenIsSo, At
      <4>2. BufferHasAll(c, p)'
        BY <1>a, <2>0, <2>2, <3>3 DEF BufferHasAll, Local, At, OnDisk
      <4> QED  BY <3>1, <4>1, <4>2 DEF Local
    <3> QED  BY <3>2, <3>3
  <2> QED  BY <2>1, <2>2
<1>3. ASSUME FlushWrite(c) PROVE Local(c, p)'
  <2> DEFINE q == task[c].path
             r == [task[c] EXCEPT !.pc = "clean"]
  <2>0. /\ task[c].pc = "write" /\ q \in Opens[c] /\ q \in Paths
        /\ handle' = handle /\ bufs' = bufs /\ current' = current /\ live' = live
        /\ disk' = [disk EXCEPT ![q] = [exists |-> TRUE, content |-> task[c].data, mtime |-> clock + 1]]
        /\ task'[c] = r
    BY <1>3, <1>a, <1>b DEF FlushWrite, SetDisk, Busy, Become, ClientsOK
  <2>a. task[c] = [pc |-> task[c].pc, path |-> q, buf |-> task[c].buf, data |-> task[c].data]
    BY <1>a, <2>0, RequestShape
  <2>b. r.pc = "clean" /\ r.path = q /\ r.buf = task[c].buf
    BY <2>a
  <2> HIDE DEF r
  <2>1. CASE q # p
    <3>1. disk'[p] = disk[p]
      BY <1>a, <2>0, <2>1 DEF StoreOK
    <3>2. Elsewhere(c, p)
      BY <2>0, <2>1, <2>b, <3>1 DEF Elsewhere, HasOpen
    <3> QED  BY <1>a, <3>2, ElsewhereKept
  <2>2. CASE q = p
    <3>1. disk'[p].content = task[c].data
      BY <1>a, <2>0, <2>2 DEF StoreOK
    <3>2. current[p] = task[c].buf /\ live[p] \subseteq task[c].data
      BY <1>a, <2>0, <2>2 DEF Local, SeenIsSo, At
    <3>3. OnDisk(p)'
      BY <2>0, <3>1, <3>2 DEF OnDisk
    <3>4. SeenIsSo(c, p)'
      BY <2>0, <2>b, <3>2, <3>3 DEF SeenIsSo, At
    <3>5. HandleIsCurrent(c, p)'
      BY <1>a, <2>0, <2>b DEF Local, HandleIsCurrent, HasOpen, At
    <3>6. BufferHasAll(c, p)'
      BY <1>a, <2>0, <2>2, <2>b, <3>3 DEF Local, BufferHasAll, At
    <3> QED  BY <3>4, <3>5, <3>6 DEF Local
  <2> QED  BY <2>1, <2>2
<1>4. ASSUME FlushClean(c) PROVE Local(c, p)'
  <2> DEFINE q == task[c].path
             b == task[c].buf
             y == [bufs[b] EXCEPT !.dirty = FALSE]
             r == [pc |-> "stamp", path |-> q, buf |-> b]
  <2>0. /\ task[c].pc = "clean" /\ q \in Opens[c] /\ q \in Paths
        /\ handle' = handle /\ disk' = disk /\ current' = current /\ live' = live
        /\ bufs' = [bufs EXCEPT ![b] = y] /\ task'[c] = r
    BY <1>4, <1>a, <1>b DEF FlushClean, Busy, Become, ClientsOK
  <2>1. CASE q # p
    <3>1. current[p] # 0 => bufs'[current[p]] = bufs[current[p]]
      BY <1>a, <1>g, <1>i, <2>0, <2>1 DEF StoreOK
    <3>2. task[c].path # p /\ task'[c].path # p
      BY <2>0, <2>1
    <3>3. Elsewhere(c, p)
      BY <2>0, <3>1, <3>2 DEF Elsewhere, HasOpen
    <3> QED  BY <1>a, <3>3, ElsewhereKept
  <2>2. CASE q = p
    <3>1. current[p] = b /\ OnDisk(p)
      BY <1>a, <2>0, <2>2 DEF Local, SeenIsSo, At
    <3>2. current[p] # 0 => bufs'[b] = y /\ y.content = bufs[b].content /\ ~ y.dirty
      <4>1. SUFFICES ASSUME current[p] # 0 PROVE bufs'[b] = y /\ y.content = bufs[b].content /\ ~ y.dirty
        OBVIOUS
      <4>2. b \in 1 .. Len(bufs) /\ bufs[b] \in Buffer
        BY <1>g, <3>1, <4>1
      <4> HIDE DEF y
      <4>3. bufs'[b] = y
        BY <1>a, <2>0, <4>2 DEF StoreOK
      <4> QED  BY <4>2, <4>3 DEF Buffer, y
    <3>3. SeenIsSo(c, p)'
      BY <2>0 DEF SeenIsSo, At
    <3>4. HandleIsCurrent(c, p)'
      BY <1>a, <2>0 DEF Local, HandleIsCurrent, HasOpen, At
    <3>5. BufferHasAll(c, p)'
      BY <1>a, <2>0, <3>1, <3>2 DEF Local, BufferHasAll, OnDisk
    <3> QED  BY <3>3, <3>4, <3>5 DEF Local
  <2> QED  BY <2>1, <2>2
<1>5. ASSUME FlushStamp(c) PROVE Local(c, p)'
  <2> DEFINE b == task[c].buf
             y == [bufs[b] EXCEPT !.mtime = disk[task[c].path].mtime]
  <2>0. /\ task[c].pc = "stamp" /\ handle' = handle /\ disk' = disk /\ current' = current /\ live' = live
        /\ bufs' = bufs \/ bufs' = [bufs EXCEPT ![b] = y]
        /\ task'[c] = Idle
    BY <1>5, <1>a DEF FlushStamp, Busy, Finish, Become, ClientsOK
  <2>1. current[p] # 0 => /\ bufs'[current[p]].content = bufs[current[p]].content
                          /\ bufs'[current[p]].dirty = bufs[current[p]].dirty
    <3>1. SUFFICES ASSUME current[p] # 0, bufs' = [bufs EXCEPT ![b] = y]
                   PROVE  /\ bufs'[current[p]].content = bufs[current[p]].content
                          /\ bufs'[current[p]].dirty = bufs[current[p]].dirty
      BY <2>0
    <3>2. bufs'[current[p]] = IF current[p] = b THEN y ELSE bufs[current[p]]
      BY <1>a, <1>g, <3>1 DEF StoreOK
    <3> QED  BY <1>g, <3>1, <3>2 DEF Buffer
  <2>2. SeenIsSo(c, p)'
    BY <1>e, <2>0 DEF SeenIsSo, At
  <2>3. HandleIsCurrent(c, p)'
    BY <1>a, <2>0 DEF Local, HandleIsCurrent, HasOpen, At
  <2>4. BufferHasAll(c, p)'
    BY <1>a, <2>0, <2>1 DEF Local, BufferHasAll, OnDisk, HasOpen, At
  <2> QED  BY <2>2, <2>3, <2>4 DEF Local
<1> QED  BY <1>1, <1>2, <1>3, <1>4, <1>5

\* create and unlink: what counted for the name counts no more.
LEMMA NamesLocal ==
  ASSUME Disciplined, OInv, NEW c \in Clients, NEW p \in Opens[c],
         \/ \E q \in Paths : Create(c, q) \/ Unlink(c, q)
         \/ UnlinkDisk(c)
  PROVE  Local(c, p)'
<1>a. StoreOK /\ ClientsOK /\ TypeOK /\ p \in Paths /\ Local(c, p)
  BY TypeSplits, PathsOpened DEF OInv
<1>b. task[c].pc # "idle" => task[c].path \in Opens[c] /\ task[c].path \in Paths
  BY PathsOpened DEF OInv, Private
<1>e. Idle.pc = "idle"
  BY DEF Idle
<1>f. Ready(c) => task[c].pc = "idle"
  BY <1>e DEF Ready
<1>1. ASSUME NEW q \in Paths, Create(c, q) PROVE Local(c, p)'
  <2>0. /\ task[c].pc = "idle" /\ handle[c] = Closed /\ handle' = handle /\ bufs' = bufs /\ current' = current
        /\ task'[c] = [pc |-> "install", path |-> q]
        /\ disk' = [disk EXCEPT ![q] = [exists |-> TRUE, content |-> {}, mtime |-> clock + 1]]
        /\ live' = [live EXCEPT ![q] = {}]
    BY <1>1, <1>a, <1>f DEF Create, SetDisk, IsOpen, Become, ClientsOK
  <2>1. CASE q # p
    <3>1. disk'[p] = disk[p] /\ live'[p] = live[p]
      BY <1>a, <2>0, <2>1 DEF StoreOK
    <3>2. Elsewhere(c, p)
      BY <2>0, <2>1, <3>1 DEF Elsewhere, HasOpen
    <3> QED  BY <1>a, <3>2, ElsewhereKept
  <2>2. CASE q = p
    <3>1. disk'[p].exists /\ live'[p] = {}
      BY <1>a, <2>0, <2>2 DEF StoreOK
    <3>2. SeenIsSo(c, p)'
      BY <2>0, <3>1 DEF SeenIsSo, At
    <3>3. HandleIsCurrent(c, p)'
      BY <2>0 DEF HandleIsCurrent, HasOpen
    <3>4. BufferHasAll(c, p)'
      BY <1>a, <2>0, <3>1 DEF Local, BufferHasAll, OnDisk, HasOpen, At
    <3> QED  BY <3>2, <3>3, <3>4 DEF Local
  <2> QED  BY <2>1, <2>2
<1>2. ASSUME NEW q \in Paths, Unlink(c, q) PROVE Local(c, p)'
  <2>0. /\ task[c].pc = "idle" /\ handle' = handle /\ bufs' = bufs /\ current' = [current EXCEPT ![q] = 0]
        /\ task'[c] = [pc |-> "unlink", path |-> q] /\ disk' = disk /\ live' = live
    BY <1>2, <1>a, <1>f DEF Unlink, Become, ClientsOK
  <2>1. CASE q # p
    <3>1. current'[p] = current[p]
      BY <1>a, <2>0, <2>1 DEF StoreOK
    <3>2. Elsewhere(c, p)
      BY <2>0, <2>1, <3>1 DEF Elsewhere, HasOpen
    <3> QED  BY <1>a, <3>2, ElsewhereKept
  <2>2. CASE q = p
    <3>1. current'[p] = 0 /\ At(c, "unlink", p)'
      BY <1>a, <2>0, <2>2 DEF StoreOK, At
    <3>2. SeenIsSo(c, p)'
      BY <2>0, <3>1 DEF SeenIsSo, At
    <3>3. HandleIsCurrent(c, p)'
      BY <3>1 DEF HandleIsCurrent
    <3>4. BufferHasAll(c, p)'
      BY <3>1 DEF BufferHasAll
    <3> QED  BY <3>2, <3>3, <3>4 DEF Local
  <2> QED  BY <2>1, <2>2
<1>3. ASSUME UnlinkDisk(c) PROVE Local(c, p)'
  <2> DEFINE q == task[c].path
  <2>0. /\ task[c].pc = "unlink" /\ q \in Opens[c] /\ q \in Paths
        /\ handle' = Unlinked(q) /\ bufs' = bufs /\ current' = current /\ task'[c] = Idle
        /\ disk' = [disk EXCEPT ![q] = Gone(q)] /\ live' = [live EXCEPT ![q] = {}]
    BY <1>3, <1>a, <1>b DEF UnlinkDisk, Busy, Finish, Become, ClientsOK
  <2>a. /\ handle[c] = Closed => handle'[c] = Closed
        /\ handle[c] # Closed => /\ handle'[c] # Closed /\ handle'[c].path = handle[c].path
                                 /\ handle'[c].buf = handle[c].buf /\ handle'[c].names = handle[c].names \ {q}
                                 /\ handle[c].names \subseteq {handle[c].path}
    <3>1. CASE handle[c] = Closed
      BY <2>0, <3>1 DEF Unlinked
    <3>2. CASE handle[c] # Closed
      <4>1. handle[c] \in [path : Paths, buf : 1 .. Len(bufs), names : SUBSET Paths]
        BY <1>a, <3>2 DEF ClientsOK, Handles
      <4>2. handle'[c] = [handle[c] EXCEPT !.names = handle[c].names \ {q}]
        BY <2>0, <3>2 DEF Unlinked
      <4>3. /\ handle'[c].path = handle[c].path /\ handle'[c].buf = handle[c].buf
            /\ handle'[c].names = handle[c].names \ {q} /\ handle'[c].buf \in 1 .. Len(bufs)
        BY <4>1, <4>2
      <4> QED  BY <1>a, <3>2, <4>3 DEF Closed, OInv, Private
    <3> QED  BY <3>1, <3>2
  <2>1. CASE q # p
    <3>1. disk'[p] = disk[p] /\ live'[p] = live[p]
      BY <1>a, <2>0, <2>1 DEF StoreOK
    <3>2. HasOpen(c, p) => handle'[c].names = handle[c].names
      BY <2>1, <2>a DEF HasOpen
    <3>3. Elsewhere(c, p)
      BY <1>e, <2>0, <2>1, <2>a, <3>1, <3>2 DEF Elsewhere, HasOpen
    <3> QED  BY <1>a, <3>3, ElsewhereKept
  <2>2. CASE q = p
    <3>1. current[p] = 0
      BY <1>a, <2>0, <2>2 DEF Local, SeenIsSo, At
    <3>2. live'[p] = {}
      BY <1>a, <2>0, <2>2 DEF StoreOK
    <3>3. SeenIsSo(c, p)'
      BY <1>e, <2>0 DEF SeenIsSo, At
    <3>4. HandleIsCurrent(c, p)'
      BY <2>0, <2>2, <2>a, <3>1 DEF HandleIsCurrent, HasOpen
    <3>5. BufferHasAll(c, p)'
      BY <2>0, <3>1, <3>2 DEF BufferHasAll, OnDisk
    <3> QED  BY <3>3, <3>4, <3>5 DEF Local
  <2> QED  BY <2>1, <2>2
<1> QED  BY <1>1, <1>2, <1>3

\* A backend replaces what the disk has: only what is not there counts on.
LEMMA RefreshLocal ==
  ASSUME OInv, NEW q \in Paths, Refresh(q), NEW c \in Clients, NEW p \in Opens[c]
  PROVE  Local(c, p)'
<1>a. StoreOK /\ p \in Paths /\ Local(c, p)
  BY TypeSplits, PathsOpened DEF OInv
<1>0. /\ handle' = handle /\ task' = task /\ bufs' = bufs /\ current' = current
      /\ disk' = [disk EXCEPT ![q] = [exists |-> TRUE, content |-> {issued + 1}, mtime |-> clock + 1]]
      /\ live' = [live EXCEPT ![q] = live[q] \ disk[q].content]
  BY DEF Refresh, SetDisk
<1>1. /\ live'[p] \subseteq live[p] /\ (disk[p].exists => disk'[p].exists)
      /\ OnDisk(p) => OnDisk(p)'
      /\ live[p] = {} => live'[p] = {}
  BY <1>0, <1>a DEF StoreOK, OnDisk
<1>2. HandleIsCurrent(c, p)'
  BY <1>0, <1>a DEF Local, HandleIsCurrent, HasOpen, At
<1>3. BufferHasAll(c, p)'
  BY <1>0, <1>1, <1>a DEF Local, BufferHasAll, HasOpen, At
<1>4. SeenIsSo(c, p)'
  BY <1>0, <1>1, <1>a DEF Local, SeenIsSo, At
<1> QED  BY <1>2, <1>3, <1>4 DEF Local

LEMMA OKept == Disciplined /\ OInv /\ [Next]_vars => OInv'
<1> SUFFICES ASSUME Disciplined, OInv, [Next]_vars PROVE OInv'
  OBVIOUS
<1>1. TypeOK' /\ OnePath' /\ BufferOfPath' /\ Opening'
  BY TypeInductive, OnePathKept, BufferOfPathKept, OpeningKept DEF OInv
<1>2. Private' /\ Unused'
  BY PrivateKept, UnusedKept
<1>3. ASSUME NEW d \in Clients, NEW p \in Opens[d] PROVE Local(d, p)'
  <2>a. Local(d, p)
    BY DEF OInv
  <2> DEFINE Step(c) == \/ \E q \in Paths : OpenFile(c, q) \/ Create(c, q) \/ Unlink(c, q)
                        \/ LoadStat(c) \/ LoadRead(c) \/ LoadInsert(c)
                        \/ Write(c) \/ FlushHandle(c) \/ Close(c)
                        \/ FlushWrite(c) \/ FlushClean(c) \/ FlushStamp(c)
                        \/ CreateInstall(c) \/ UnlinkDisk(c)
  <2>1. ASSUME NEW c \in Clients, c # d, Step(c) PROVE Local(d, p)'
    <3>1. Untouched(d, p)
      BY <2>1, OthersUntouched
    <3> QED  BY <2>a, <3>1, UntouchedKept
  <2>2. ASSUME Step(d) PROVE Local(d, p)'
    BY <2>2, LoadLocal, FlushLocal, NamesLocal
  <2>3. ASSUME NEW q \in Paths, Refresh(q) PROVE Local(d, p)'
    BY <2>3, RefreshLocal
  <2>4. CASE UNCHANGED vars
    <3>1. Untouched(d, p)
      BY <2>4 DEF vars, Untouched
    <3> QED  BY <2>a, <3>1, UntouchedKept
  <2>5. (\E c \in Clients : Step(c)) \/ (\E q \in Paths : Refresh(q)) \/ UNCHANGED vars
    BY DisciplinedSteps
  <2> HIDE DEF Step
  <2> QED  BY <2>1, <2>2, <2>3, <2>4, <2>5
<1> QED  BY <1>1, <1>2, <1>3 DEF OInv

\* A file nobody uses has no request under way, and its buffer is not dirty.
LEMMA OSaves == OInv => ClosedMeansSaved
<1> SUFFICES ASSUME OInv, NEW p \in Paths, ~ InUse(p) PROVE OnDisk(p)
  BY DEF ClosedMeansSaved, Unsaved, OnDisk
<1>1. CASE \A c \in Clients : ~ (p \in Opens[c])
  BY <1>1 DEF OInv, Unused, OnDisk
<1>2. ASSUME NEW c \in Clients, p \in Opens[c] PROVE OnDisk(p)
  <2>1. task[c].pc = "idle" /\ ~ (handle[c] # Closed /\ p \in handle[c].names)
    BY DEF InUse, Ready, IsOpen, Idle
  <2>2. Local(c, p)
    BY <1>2 DEF OInv
  <2>3. HasOpen(c, p) => current[p] = 0
    BY <2>1, <2>2 DEF Local, HandleIsCurrent, HasOpen
  <2> QED  BY <2>1, <2>2, <2>3 DEF Local, BufferHasAll, At
<1> QED  BY <1>1, <1>2

\* While no two applications use one file, nothing is renamed or truncated, and
\* memory suffices, everything written to a file nobody uses is on the disk,
\* for any number of applications and files and whatever a backend writes.
THEOREM CloseSaves == Disciplined /\ Spec => []ClosedMeansSaved
<1>1. Disciplined /\ Init => OInv
  BY OInitially
<1>2. Disciplined /\ OInv /\ [Next]_vars => OInv'
  BY OKept
<1>3. OInv => ClosedMeansSaved
  BY OSaves
<1>4. CASE Disciplined
  <2>1. Init => OInv
    BY <1>1, <1>4
  <2>2. OInv /\ [Next]_vars => OInv'
    BY <1>2, <1>4
  <2> QED  BY <1>3, <2>1, <2>2, PTL DEF Spec
<1>5. CASE ~ Disciplined
  BY <1>5
<1> QED  BY <1>4, <1>5
================================================================================
