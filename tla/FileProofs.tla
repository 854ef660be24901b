----------------------------- MODULE FileProofs -----------------------------
(***************************************************************************)
(* Theorems about what the programs keep in files: the copies that the     *)
(* SFTP client makes (Sftp), the files and handles of the SFTP server      *)
(* (SftpServer), the state of one-time keys (Xmss) and known_hosts         *)
(* (Hostkeys).                                                             *)
(***************************************************************************)
EXTENDS Sftp, SftpServer, Xmss, Hostkeys, FiniteSetTheorems, TLAPS

(***************************************************************************)
(* Sftp: each reply answers one request of the client, requests and what   *)
(* is copied cover the file up to the offset, and writes of an upload      *)
(* continue the copy.                                                      *)
(***************************************************************************)
Client ==
  [phase : {"idle", "loop", "wait", "end", "fatal"}, result : {"none", "ok", "failed"},
   commands : Nat, interrupted : BOOLEAN, resume : BOOLEAN, msg_id : Nat, offset : Nat, size : Nat,
   buflen : Nat \ {0}, max_req : Nat, highwater : Nat, reordered : BOOLEAN, read_error : BOOLEAN,
   write_error : BOOLEAN, status : {"OK", "FAILURE", "DATA", "EOF"}, id : Nat, startid : Nat,
   ackid : Nat]
Request == [type : {"READ", "WRITE"}, id : Nat, len : Nat \ {0}, offset : Nat]
Answer == [id : Nat, status : {"OK", "FAILURE", "DATA", "EOF"}, data : Seq(Nat)]

SftpType ==
  /\ dir \in {"download", "upload"} /\ c \in Client
  /\ requests \subseteq Request /\ IsFiniteSet(requests)
  /\ toServer \in Seq(Request) /\ toClient \in Seq(Answer)
  /\ handle \in {"unused", "read", "write", "append"} /\ copy \in Seq(Nat)
  /\ fails \in [read : Nat, write : Nat, here : Nat]

Running == c.phase \in {"loop", "wait", "end"}
NextId == IF dir = "download" THEN c.msg_id ELSE c.id + 1

(* What a reply says of the request it answers. *)
Answers(r, q, size, lost) ==
  /\ r.status = "DATA" =>
       /\ Len(r.data) \in 1 .. q.len /\ q.offset + Len(r.data) <= size
       /\ \A k \in 1 .. Len(r.data) : r.data[k] = q.offset + k
  /\ r.status = "EOF" => q.offset >= size
  /\ q.type = "WRITE" => r.status \in {"OK", "FAILURE"} /\ (lost = 0 => r.status = "OK")
  /\ q.type = "READ" => r.status # "OK"

(* Every request is known, and every reply answers one of them, once. *)
MatchedOf(reqs, ts, tc, next, kind, size, lost) ==
  /\ \A q \in reqs : q.id < next /\ q.type = kind
  /\ \A p, q \in reqs : p.id = q.id => p = q
  /\ \A i \in 1 .. Len(ts) : ts[i] \in reqs
  /\ \A i \in 1 .. Len(tc) : \E q \in reqs : q.id = tc[i].id /\ Answers(tc[i], q, size, lost)
  /\ \A i, j \in 1 .. Len(ts) : i # j => ts[i].id # ts[j].id
  /\ \A i, j \in 1 .. Len(tc) : i # j => tc[i].id # tc[j].id
  /\ \A i \in 1 .. Len(ts), j \in 1 .. Len(tc) : ts[i].id # tc[j].id
Kind == IF dir = "download" THEN "READ" ELSE "WRITE"
Matched == MatchedOf(requests, toServer, toClient, NextId, Kind, FileSize, fails.write)

Phases ==
  /\ c.phase # "fatal"
  /\ c.phase \in {"idle", "end"} => requests = {}
  /\ c.phase = "idle" => handle = "unused"
  /\ Running => handle \in (IF dir = "download" THEN {"read"} ELSE {"write", "append"})

(* The values of file are those of the source, or holes. *)
Good(file, size) == Len(file) <= size /\ \A i \in 1 .. Len(file) : file[i] \in {Hole, i}
Contiguous(file, n) == n <= Len(file) /\ \A i \in 1 .. n : file[i] = i
Copied(file, i) == i <= Len(file) /\ file[i] = i
Covered(i, file, reqs) == Copied(file, i) \/ \E q \in reqs : q.offset < i /\ i <= q.offset + q.len

Downloading ==
  /\ \A q \in requests : q.offset + q.len <= c.offset
  /\ Contiguous(copy, c.highwater)
  /\ c.write_error => fails.write > 0
  /\ ~c.read_error /\ ~c.write_error =>
       /\ \A i \in 1 .. FileSize : i <= c.offset => Covered(i, copy, requests)
       /\ c.max_req = 0 /\ ~c.interrupted => c.offset >= FileSize
  /\ c.phase = "end" /\ ~c.interrupted => c.max_req = 0

DownloadInv ==
  dir = "download" /\ fails.write <= 1 =>
    /\ Good(copy, FileSize)
    /\ c.phase = "idle" => Contiguous(copy, Len(copy)) /\ (c.result = "ok" => Len(copy) = FileSize)
    /\ Running => Downloading

(* The write requests under way continue the copy, one another and lead to the offset. *)
Chain ==
  /\ toServer = <<>> => c.offset = Len(copy)
  /\ toServer # <<>> => /\ toServer[1].offset = Len(copy)
                        /\ toServer[Len(toServer)].offset + toServer[Len(toServer)].len = c.offset
  /\ \A i \in 1 .. Len(toServer) :
       /\ toServer[i].offset + toServer[i].len <= FileSize
       /\ i < Len(toServer) => toServer[i].offset + toServer[i].len = toServer[i + 1].offset

UploadInv ==
  dir = "upload" =>
    /\ Running => c.offset <= FileSize
    /\ \A q \in requests : q.offset + q.len <= FileSize
    /\ fails.write = 0 =>
         /\ Len(copy) <= FileSize /\ Contiguous(copy, Len(copy))
         /\ c.phase = "idle" /\ c.result = "ok" /\ ~c.interrupted => Len(copy) = FileSize
         /\ Running => Chain
         /\ c.phase = "end" /\ ~c.interrupted /\ c.status = "OK" => c.offset = FileSize

SftpInv == SftpType /\ Matched /\ Phases /\ DownloadInv /\ UploadInv

----------------------------------------------------------------------------
(* Sequences. *)
LEMMA TailFacts ==
  ASSUME NEW T, NEW s \in Seq(T), s # <<>>
  PROVE  /\ Tail(s) \in Seq(T) /\ Len(Tail(s)) = Len(s) - 1 /\ Len(s) >= 1
         /\ \A j \in 1 .. Len(s) - 1 : Tail(s)[j] = s[j + 1]
         /\ Head(s) = s[1] /\ s[1] \in T
OBVIOUS

LEMMA AppendFacts ==
  ASSUME NEW T, NEW s \in Seq(T), NEW e \in T
  PROVE  /\ Append(s, e) \in Seq(T) /\ Len(Append(s, e)) = Len(s) + 1 /\ Len(s) \in Nat
         /\ \A j \in 1 .. Len(s) : Append(s, e)[j] = s[j]
         /\ Append(s, e)[Len(s) + 1] = e
OBVIOUS

LEMMA ConcatFacts ==
  ASSUME NEW T, NEW s \in Seq(T), NEW t \in Seq(T)
  PROVE  /\ s \o t \in Seq(T) /\ Len(s \o t) = Len(s) + Len(t) /\ Len(s) \in Nat /\ Len(t) \in Nat
         /\ \A j \in 1 .. Len(s) : (s \o t)[j] = s[j]
         /\ \A j \in Len(s) + 1 .. Len(s) + Len(t) : (s \o t)[j] = t[j - Len(s)]
OBVIOUS

RemovedAt(s, i) == SubSeq(s, 1, i - 1) \o SubSeq(s, i + 1, Len(s))
LEMMA RemovedFacts ==
  ASSUME NEW T, NEW s \in Seq(T), NEW i \in 1 .. Len(s)
  PROVE  /\ RemovedAt(s, i) \in Seq(T) /\ Len(RemovedAt(s, i)) = Len(s) - 1
         /\ \A j \in 1 .. i - 1 : RemovedAt(s, i)[j] = s[j]
         /\ \A j \in i .. Len(s) - 1 : RemovedAt(s, i)[j] = s[j + 1]
<1> DEFINE a == SubSeq(s, 1, i - 1)
           b == SubSeq(s, i + 1, Len(s))
<1>1. Len(s) \in Nat /\ i \in Nat /\ i >= 1 /\ i <= Len(s) OBVIOUS
<1>2. a \in Seq(T) /\ Len(a) = i - 1 /\ \A j \in 1 .. i - 1 : a[j] = s[j] BY <1>1
<1>3. b \in Seq(T) /\ Len(b) = Len(s) - i /\ \A j \in 1 .. Len(s) - i : b[j] = s[i + j] BY <1>1
<1>4. RemovedAt(s, i) = a \o b BY DEF RemovedAt
<1> HIDE DEF a, b
<1>5. /\ a \o b \in Seq(T) /\ Len(a \o b) = Len(a) + Len(b)
      /\ \A j \in 1 .. Len(a) : (a \o b)[j] = a[j]
      /\ \A j \in Len(a) + 1 .. Len(a) + Len(b) : (a \o b)[j] = b[j - Len(a)]
  BY <1>2, <1>3, ConcatFacts
<1>6. \A j \in 1 .. i - 1 : (a \o b)[j] = s[j] BY <1>2, <1>5
<1>7. \A j \in i .. Len(s) - 1 : (a \o b)[j] = s[j + 1]
  <2> SUFFICES ASSUME NEW j \in i .. Len(s) - 1 PROVE (a \o b)[j] = s[j + 1] OBVIOUS
  <2>1. (a \o b)[j] = b[j - (i - 1)] BY <1>1, <1>2, <1>3, <1>5
  <2>2. PICK k \in 1 .. Len(s) - i : k = j - (i - 1) BY <1>1
  <2>3. i + k = j + 1 BY <1>1, <2>2
  <2>4. b[k] = s[i + k] BY <1>3
  <2> QED BY <2>1, <2>2, <2>3, <2>4
<1> QED BY <1>1, <1>2, <1>3, <1>4, <1>5, <1>6, <1>7

----------------------------------------------------------------------------
(* Requests and replies. *)
LEMMA AnswersLess ==
  ASSUME NEW r, NEW q, NEW size, NEW lost, NEW lost1, lost1 = 0 => lost = 0, Answers(r, q, size, lost)
  PROVE  Answers(r, q, size, lost1)
BY DEF Answers

LEMMA MatchedLess ==
  ASSUME NEW reqs \in SUBSET Request, NEW ts, NEW tc, NEW next \in Nat, NEW next1 \in Nat, NEW kind, NEW size,
         NEW lost, NEW lost1, next <= next1, lost1 = 0 => lost = 0,
         MatchedOf(reqs, ts, tc, next, kind, size, lost)
  PROVE  MatchedOf(reqs, ts, tc, next1, kind, size, lost1)
<1>1. \A i \in 1 .. Len(tc) : \E q \in reqs : q.id = tc[i].id /\ Answers(tc[i], q, size, lost1)
  BY AnswersLess DEF MatchedOf
<1>2. \A q \in reqs : q.id \in Nat BY DEF Request
<1> QED BY <1>1, <1>2 DEF MatchedOf

LEMMA MatchedDrained ==
  ASSUME NEW ts \in Seq(Request), NEW tc \in Seq(Answer), NEW next, NEW kind, NEW size, NEW lost,
         MatchedOf({}, ts, tc, next, kind, size, lost)
  PROVE  ts = <<>> /\ tc = <<>>
<1>1. ~(1 \in 1 .. Len(ts)) /\ ~(1 \in 1 .. Len(tc)) BY DEF MatchedOf
<1> QED BY <1>1

LEMMA MatchedEmpty ==
  ASSUME NEW next, NEW kind, NEW size, NEW lost
  PROVE  MatchedOf({}, <<>>, <<>>, next, kind, size, lost)
<1>1. 1 .. Len(<<>>) = {} OBVIOUS
<1> QED BY <1>1 DEF MatchedOf

LEMMA MatchedSend1 ==
  ASSUME NEW reqs \in SUBSET Request, NEW ts \in Seq(Request), NEW tc \in Seq(Answer), NEW next \in Nat,
         NEW kind, NEW size, NEW lost, MatchedOf(reqs, ts, tc, next, kind, size, lost),
         NEW q \in Request, q.id = next, q.type = kind
  PROVE  MatchedOf(reqs \cup {q}, Append(ts, q), tc, next + 1, kind, size, lost)
<1> DEFINE us == Append(ts, q)
<1>1. /\ Len(us) = Len(ts) + 1 /\ Len(ts) \in Nat /\ us[Len(ts) + 1] = q
      /\ \A j \in 1 .. Len(ts) : us[j] = ts[j]
  BY AppendFacts
<1> HIDE DEF us
<1>2. \A p \in reqs : p.id \in Nat /\ p.id < next /\ p.id # q.id BY DEF MatchedOf, Request
<1>3. \A j \in 1 .. Len(us) : (j \in 1 .. Len(ts) /\ us[j] = ts[j]) \/ (j = Len(ts) + 1 /\ us[j] = q) BY <1>1
<1>4. \A j \in 1 .. Len(ts) : ts[j] \in reqs BY DEF MatchedOf
<1>5. \A p \in reqs \cup {q} : p.id < next + 1 /\ p.type = kind BY <1>2 DEF MatchedOf
<1>6. \A p, o \in reqs \cup {q} : p.id = o.id => p = o BY <1>2 DEF MatchedOf
<1>7. \A j \in 1 .. Len(us) : us[j] \in reqs \cup {q} BY <1>3, <1>4
<1>8. \A i \in 1 .. Len(tc) : \E p \in reqs \cup {q} : p.id = tc[i].id /\ Answers(tc[i], p, size, lost)
  BY DEF MatchedOf
<1>9. \A i, j \in 1 .. Len(us) : i # j => us[i].id # us[j].id BY <1>2, <1>3, <1>4 DEF MatchedOf
<1>10. \A i \in 1 .. Len(tc) : tc[i].id # q.id BY <1>2 DEF MatchedOf
<1>11. \A i \in 1 .. Len(us), j \in 1 .. Len(tc) : us[i].id # tc[j].id BY <1>3, <1>10 DEF MatchedOf
<1>12. \A i, j \in 1 .. Len(tc) : i # j => tc[i].id # tc[j].id BY DEF MatchedOf
<1>13. MatchedOf(reqs \cup {q}, us, tc, next + 1, kind, size, lost)
  BY <1>5, <1>6, <1>7, <1>8, <1>9, <1>11, <1>12 DEF MatchedOf
<1> QED BY <1>13 DEF us

LEMMA MatchedSend ==
  ASSUME NEW reqs \in SUBSET Request, NEW ts \in Seq(Request), NEW tc \in Seq(Answer), NEW next \in Nat,
         NEW kind, NEW size, NEW lost, MatchedOf(reqs, ts, tc, next, kind, size, lost),
         NEW n \in Nat, NEW new \in Seq(Request), Len(new) = n,
         \A i \in 1 .. n : new[i].id = next + i - 1 /\ new[i].type = kind
  PROVE  MatchedOf(reqs \cup {new[i] : i \in 1 .. n}, ts \o new, tc, next + n, kind, size, lost)
<1> DEFINE us == ts \o new
           all == reqs \cup {new[i] : i \in 1 .. n}
<1>1. /\ Len(us) = Len(ts) + n /\ Len(ts) \in Nat
      /\ \A j \in 1 .. Len(ts) : us[j] = ts[j]
      /\ \A j \in Len(ts) + 1 .. Len(ts) + n : us[j] = new[j - Len(ts)]
  BY ConcatFacts
<1>2. \A p \in reqs : p.id \in Nat /\ p.id < next BY DEF MatchedOf, Request
<1>2a. \A i \in 1 .. n : new[i].id \in Nat /\ new[i].id >= next /\ new[i].id < next + n OBVIOUS
<1>2b. \A i, j \in 1 .. n : i # j => new[i].id # new[j].id OBVIOUS
<1>2c. \A p \in all : p \in reqs \/ \E i \in 1 .. n : p = new[i] OBVIOUS
<1>2d. \A i \in 1 .. n : new[i] \in all OBVIOUS
<1>2e. \A p \in reqs : p \in all OBVIOUS
<1> HIDE DEF us, all
<1>3. \A j \in 1 .. Len(us) : \/ j \in 1 .. Len(ts) /\ us[j] = ts[j]
                              \/ j - Len(ts) \in 1 .. n /\ us[j] = new[j - Len(ts)]
  BY <1>1
<1>4. \A j \in 1 .. Len(ts) : ts[j] \in reqs BY DEF MatchedOf
<1>5. \A p \in all : p.id < next + n /\ p.type = kind BY <1>2, <1>2a, <1>2c DEF MatchedOf
<1>6. \A p, o \in all : p.id = o.id => p = o
  <2> SUFFICES ASSUME NEW p \in all, NEW o \in all, p.id = o.id PROVE p = o OBVIOUS
  <2>1. CASE p \in reqs /\ o \in reqs BY <2>1 DEF MatchedOf
  <2>2. CASE p \in reqs /\ \E i \in 1 .. n : o = new[i] BY <2>2, <1>2, <1>2a
  <2>3. CASE o \in reqs /\ \E i \in 1 .. n : p = new[i] BY <2>3, <1>2, <1>2a
  <2>4. CASE (\E i \in 1 .. n : p = new[i]) /\ (\E i \in 1 .. n : o = new[i]) BY <2>4, <1>2b
  <2> QED BY <1>2c, <2>1, <2>2, <2>3, <2>4
<1>7. \A j \in 1 .. Len(us) : us[j] \in all BY <1>2d, <1>2e, <1>3, <1>4
<1>8. \A i \in 1 .. Len(tc) : \E p \in all : p.id = tc[i].id /\ Answers(tc[i], p, size, lost)
  BY <1>2e DEF MatchedOf
<1>9. \A i, j \in 1 .. Len(us) : i # j => us[i].id # us[j].id
  <2> SUFFICES ASSUME NEW i \in 1 .. Len(us), NEW j \in 1 .. Len(us), i # j PROVE us[i].id # us[j].id
    OBVIOUS
  <2>1. CASE i \in 1 .. Len(ts) /\ j \in 1 .. Len(ts) BY <2>1, <1>1 DEF MatchedOf
  <2>2. CASE i \in 1 .. Len(ts) /\ j \notin 1 .. Len(ts) BY <2>2, <1>1, <1>2, <1>2a, <1>3, <1>4
  <2>3. CASE i \notin 1 .. Len(ts) /\ j \in 1 .. Len(ts) BY <2>3, <1>1, <1>2, <1>2a, <1>3, <1>4
  <2>4. CASE i \notin 1 .. Len(ts) /\ j \notin 1 .. Len(ts)
    <3>1. i - Len(ts) \in 1 .. n /\ j - Len(ts) \in 1 .. n /\ i - Len(ts) # j - Len(ts)
      BY <2>4, <1>1, <1>3
    <3> QED BY <2>4, <1>2b, <1>3, <3>1
  <2> QED BY <2>1, <2>2, <2>3, <2>4
<1>10. \A i \in 1 .. Len(tc) : tc[i].id \in Nat /\ tc[i].id < next BY <1>2 DEF MatchedOf
<1>11. \A i \in 1 .. Len(us), j \in 1 .. Len(tc) : us[i].id # tc[j].id
  <2> SUFFICES ASSUME NEW i \in 1 .. Len(us), NEW j \in 1 .. Len(tc) PROVE us[i].id # tc[j].id
    OBVIOUS
  <2>1. CASE i \in 1 .. Len(ts) /\ us[i] = ts[i] BY <2>1 DEF MatchedOf
  <2>2. CASE i - Len(ts) \in 1 .. n /\ us[i] = new[i - Len(ts)]
    <3>1. us[i].id \in Nat /\ us[i].id >= next BY <2>2, <1>2a
    <3> QED BY <1>10, <3>1
  <2> QED BY <1>3, <2>1, <2>2
<1>12. \A i, j \in 1 .. Len(tc) : i # j => tc[i].id # tc[j].id BY DEF MatchedOf
<1>13. MatchedOf(all, us, tc, next + n, kind, size, lost)
  BY <1>5, <1>6, <1>7, <1>8, <1>9, <1>11, <1>12 DEF MatchedOf
<1> QED BY <1>13 DEF us, all

LEMMA MatchedReply ==
  ASSUME NEW reqs \in SUBSET Request, NEW ts \in Seq(Request), NEW tc \in Seq(Answer), NEW next,
         NEW kind, NEW size, NEW lost, MatchedOf(reqs, ts, tc, next, kind, size, lost),
         tc # <<>>, NEW id, id = Head(tc).id
  PROVE  MatchedOf({p \in reqs : p.id # id}, ts, Tail(tc), next, kind, size, lost)
<1> DEFINE us == Tail(tc)
           rest == {p \in reqs : p.id # id}
<1>1. /\ Len(us) = Len(tc) - 1 /\ Len(tc) >= 1 /\ Len(tc) \in Nat /\ id = tc[1].id
      /\ \A j \in 1 .. Len(tc) - 1 : us[j] = tc[j + 1]
  BY TailFacts
<1>2. \A p \in rest : p \in reqs OBVIOUS
<1>3. \A p \in reqs : p.id # id => p \in rest OBVIOUS
<1> HIDE DEF us, rest
<1>4. \A i \in 1 .. Len(ts) : ts[i].id # id BY <1>1 DEF MatchedOf
<1>5. \A i \in 1 .. Len(us) : i + 1 \in 1 .. Len(tc) /\ us[i] = tc[i + 1] /\ tc[i + 1].id # id
  <2> SUFFICES ASSUME NEW i \in 1 .. Len(us)
               PROVE i + 1 \in 1 .. Len(tc) /\ us[i] = tc[i + 1] /\ tc[i + 1].id # id
    OBVIOUS
  <2>1. i + 1 \in 1 .. Len(tc) /\ us[i] = tc[i + 1] /\ i + 1 # 1 /\ 1 \in 1 .. Len(tc) BY <1>1
  <2> QED BY <1>1, <2>1 DEF MatchedOf
<1>6. \A i \in 1 .. Len(us) : \E q \in rest : q.id = us[i].id /\ Answers(us[i], q, size, lost)
  BY <1>3, <1>5 DEF MatchedOf
<1>7. \A i, j \in 1 .. Len(us) : i # j => us[i].id # us[j].id
  <2> SUFFICES ASSUME NEW i \in 1 .. Len(us), NEW j \in 1 .. Len(us), i # j PROVE us[i].id # us[j].id
    OBVIOUS
  <2>1. i + 1 # j + 1 BY <1>1
  <2> QED BY <1>5, <2>1 DEF MatchedOf
<1>8. \A i \in 1 .. Len(ts), j \in 1 .. Len(us) : ts[i].id # us[j].id BY <1>5 DEF MatchedOf
<1>9. \A i \in 1 .. Len(ts) : ts[i] \in rest BY <1>3, <1>4 DEF MatchedOf
<1>10. /\ \A q \in rest : q.id < next /\ q.type = kind
       /\ \A p, q \in rest : p.id = q.id => p = q
       /\ \A i, j \in 1 .. Len(ts) : i # j => ts[i].id # ts[j].id
  BY <1>2 DEF MatchedOf
<1>11. MatchedOf(rest, ts, us, next, kind, size, lost)
  BY <1>6, <1>7, <1>8, <1>9, <1>10 DEF MatchedOf
<1> QED BY <1>11 DEF us, rest

LEMMA MatchedProcess ==
  ASSUME NEW reqs \in SUBSET Request, NEW ts \in Seq(Request), NEW tc \in Seq(Answer), NEW next,
         NEW kind, NEW size, NEW lost, MatchedOf(reqs, ts, tc, next, kind, size, lost),
         NEW i \in 1 .. Len(ts), NEW r \in Answer, r.id = ts[i].id, Answers(r, ts[i], size, lost)
  PROVE  MatchedOf(reqs, RemovedAt(ts, i), Append(tc, r), next, kind, size, lost)
<1> DEFINE us == RemovedAt(ts, i)
           vs == Append(tc, r)
           at(j) == IF j < i THEN j ELSE j + 1
<1>1. /\ Len(us) = Len(ts) - 1 /\ Len(ts) \in Nat
      /\ \A j \in 1 .. i - 1 : us[j] = ts[j]
      /\ \A j \in i .. Len(ts) - 1 : us[j] = ts[j + 1]
  BY RemovedFacts
<1>2. /\ Len(vs) = Len(tc) + 1 /\ Len(tc) \in Nat /\ vs[Len(tc) + 1] = r
      /\ \A j \in 1 .. Len(tc) : vs[j] = tc[j]
  BY AppendFacts
<1> HIDE DEF us, vs
<1>3. \A j \in 1 .. Len(us) : at(j) \in 1 .. Len(ts) /\ us[j] = ts[at(j)] /\ at(j) # i BY <1>1
<1>4. \A j, k \in 1 .. Len(us) : j # k => at(j) # at(k) BY <1>1
<1> HIDE DEF at
<1>5. \A j \in 1 .. Len(vs) : (j \in 1 .. Len(tc) /\ vs[j] = tc[j]) \/ (j = Len(tc) + 1 /\ vs[j] = r) BY <1>2
<1>6. \A j \in 1 .. Len(us) : us[j] \in reqs /\ us[j].id # r.id BY <1>3 DEF MatchedOf
<1>7. \A j \in 1 .. Len(tc) : tc[j].id # r.id BY DEF MatchedOf
<1>8. \A j \in 1 .. Len(vs) : \E q \in reqs : q.id = vs[j].id /\ Answers(vs[j], q, size, lost)
  <2>1. ts[i] \in reqs BY DEF MatchedOf
  <2> QED BY <1>5, <2>1 DEF MatchedOf
<1>9. \A j, k \in 1 .. Len(us) : j # k => us[j].id # us[k].id BY <1>3, <1>4 DEF MatchedOf
<1>10. \A j, k \in 1 .. Len(vs) : j # k => vs[j].id # vs[k].id BY <1>5, <1>7 DEF MatchedOf
<1>11. \A j \in 1 .. Len(us), k \in 1 .. Len(vs) : us[j].id # vs[k].id BY <1>3, <1>5, <1>6 DEF MatchedOf
<1>12. MatchedOf(reqs, us, vs, next, kind, size, lost)
  BY <1>6, <1>8, <1>9, <1>10, <1>11 DEF MatchedOf
<1> QED BY <1>12 DEF us, vs

----------------------------------------------------------------------------
(* Files. *)
LEMMA WrittenFacts ==
  ASSUME NEW file \in Seq(Nat), NEW off \in Nat, NEW data \in Seq(Nat)
  PROVE  /\ Written(file, off, data) \in Seq(Nat) /\ Len(Written(file, off, data)) \in Nat
         /\ data = <<>> => Written(file, off, data) = file
         /\ data # <<>> =>
              /\ Len(Written(file, off, data)) = MaxOf(Len(file), off + Len(data))
              /\ \A i \in 1 .. MaxOf(Len(file), off + Len(data)) :
                   /\ i \in off + 1 .. off + Len(data) => Written(file, off, data)[i] = data[i - off]
                   /\ i \notin off + 1 .. off + Len(data) =>
                        Written(file, off, data)[i] = (IF i <= Len(file) THEN file[i] ELSE Hole)
<1>1. CASE data = <<>> BY <1>1 DEF Written
<1>2. CASE data # <<>>
  <2> DEFINE n == MaxOf(Len(file), off + Len(data))
             v(i) == IF i \in off + 1 .. off + Len(data) THEN data[i - off]
                     ELSE IF i <= Len(file) THEN file[i] ELSE Hole
             w == [i \in 1 .. n |-> v(i)]
  <2>1. Written(file, off, data) = w BY <1>2 DEF Written
  <2>2. n \in Nat BY DEF MaxOf
  <2>3. \A i \in 1 .. n : v(i) \in Nat
    <3> SUFFICES ASSUME NEW i \in 1 .. n PROVE v(i) \in Nat OBVIOUS
    <3>1. CASE i \in off + 1 .. off + Len(data)
      <4>1. i - off \in 1 .. Len(data) BY <2>2, <3>1
      <4>2. data[i - off] \in Nat BY <4>1
      <4> QED BY <3>1, <4>2
    <3>2. CASE i \notin off + 1 .. off + Len(data) BY <3>2, <2>2 DEF Hole
    <3> QED BY <3>1, <3>2
  <2> HIDE DEF v
  <2>4. w \in Seq(Nat) /\ Len(w) = n /\ \A i \in 1 .. n : w[i] = v(i)
    <3> HIDE DEF n
    <3> QED BY <2>2, <2>3
  <2> QED BY <1>2, <2>1, <2>2, <2>4 DEF v
<1> QED BY <1>1, <1>2

(* A block of the source is written. *)
LEMMA WrittenGood ==
  ASSUME NEW file \in Seq(Nat), NEW off \in Nat, NEW data \in Seq(Nat), NEW size \in Nat,
         Good(file, size), off + Len(data) <= size, \A k \in 1 .. Len(data) : data[k] = off + k
  PROVE  /\ Good(Written(file, off, data), size)
         /\ \A i \in Nat : i > 0 /\ Copied(file, i) => Copied(Written(file, off, data), i)
         /\ \A i \in off + 1 .. off + Len(data) : Copied(Written(file, off, data), i)
<1>1. CASE data = <<>>
  <2>1. Written(file, off, data) = file BY <1>1, WrittenFacts
  <2>2. off + 1 .. off + Len(data) = {} BY <1>1
  <2> QED BY <2>1, <2>2
<1>2. CASE data # <<>>
  <2> DEFINE w == Written(file, off, data)
             n == MaxOf(Len(file), off + Len(data))
  <2>1. /\ Len(w) = n
        /\ \A i \in 1 .. n : /\ i \in off + 1 .. off + Len(data) => w[i] = data[i - off]
                             /\ i \notin off + 1 .. off + Len(data) =>
                                  w[i] = (IF i <= Len(file) THEN file[i] ELSE Hole)
    BY <1>2, WrittenFacts
  <2>2. /\ n \in Nat /\ Len(file) \in Nat /\ Len(data) \in Nat
        /\ Len(file) <= n /\ off + Len(data) <= n /\ n <= size
    BY DEF MaxOf, Good
  <2> HIDE DEF w, n
  <2>3. \A i \in off + 1 .. off + Len(data) : w[i] = i
    <3> SUFFICES ASSUME NEW i \in off + 1 .. off + Len(data) PROVE w[i] = i OBVIOUS
    <3>1. i \in 1 .. n BY <2>2
    <3>2. PICK k \in 1 .. Len(data) : k = i - off BY <2>2
    <3>3. data[k] = off + k BY <3>2
    <3> QED BY <2>1, <3>1, <3>2, <3>3
  <2>4. \A i \in 1 .. n : i \notin off + 1 .. off + Len(data) =>
          w[i] = (IF i <= Len(file) THEN file[i] ELSE Hole)
    BY <2>1
  <2>5. \A i \in 1 .. n : w[i] \in {Hole, i}
    <3> SUFFICES ASSUME NEW i \in 1 .. n PROVE w[i] \in {Hole, i} OBVIOUS
    <3>1. CASE i \in off + 1 .. off + Len(data) BY <3>1, <2>3
    <3>2. CASE i \notin off + 1 .. off + Len(data)
      <4>1. i \in Nat /\ (i <= Len(file) => file[i] \in {Hole, i}) BY <2>2 DEF Good
      <4> QED BY <2>4, <3>2, <4>1
    <3> QED BY <3>1, <3>2
  <2>6. Good(w, size) BY <2>1, <2>2, <2>5 DEF Good
  <2>7. \A i \in Nat : i > 0 /\ Copied(file, i) => Copied(w, i)
    BY <2>1, <2>2, <2>3, <2>4 DEF Copied
  <2>8. \A i \in off + 1 .. off + Len(data) : Copied(w, i)
    BY <2>1, <2>2, <2>3 DEF Copied
  <2> QED BY <2>6, <2>7, <2>8 DEF w
<1> QED BY <1>1, <1>2

LEMMA ContiguousCopied ==
  ASSUME NEW file \in Seq(Nat), NEW n \in Nat
  PROVE  Contiguous(file, n) <=> \A i \in 1 .. n : Copied(file, i)
<1>1. ASSUME Contiguous(file, n) PROVE \A i \in 1 .. n : Copied(file, i)
  BY <1>1 DEF Contiguous, Copied
<1>2. ASSUME \A i \in 1 .. n : Copied(file, i) PROVE Contiguous(file, n)
  <2>1. n <= Len(file)
    <3>1. CASE n = 0 BY <3>1
    <3>2. CASE n > 0 BY <3>2, <1>2 DEF Copied
    <3> QED BY <3>1, <3>2
  <2> QED BY <1>2, <2>1 DEF Contiguous, Copied
<1> QED BY <1>1, <1>2

LEMMA TruncatedFacts ==
  ASSUME NEW file \in Seq(Nat), NEW n \in Nat
  PROVE  /\ ftruncate(file, n) \in Seq(Nat) /\ Len(ftruncate(file, n)) = n
         /\ \A i \in 1 .. n : i <= Len(file) => ftruncate(file, n)[i] = file[i]
<1> DEFINE v(i) == IF i <= Len(file) THEN file[i] ELSE Hole
           w == [i \in 1 .. n |-> v(i)]
<1>1. \A i \in 1 .. n : v(i) \in Nat BY DEF Hole
<1>2. ftruncate(file, n) = w BY DEF ftruncate
<1>3. \A i \in 1 .. n : i <= Len(file) => v(i) = file[i] OBVIOUS
<1> HIDE DEF v
<1>4. w \in Seq(Nat) /\ Len(w) = n /\ \A i \in 1 .. n : w[i] = v(i) BY <1>1
<1> QED BY <1>2, <1>3, <1>4

(* A contiguous file of the right length is the source. *)
LEMMA SourceFacts ==
  ASSUME FileSize \in Nat
  PROVE  /\ Source \in Seq(Nat) /\ Len(Source) = FileSize
         /\ \A i \in 1 .. FileSize : Source[i] = i
<1>1. \A i \in 1 .. FileSize : i \in Nat OBVIOUS
<1> HIDE DEF FileSize
<1> QED BY <1>1 DEF Source

LEMMA ContiguousSource ==
  ASSUME FileSize \in Nat, NEW file \in Seq(Nat), Len(file) <= FileSize, Contiguous(file, Len(file))
  PROVE  IsPrefixOf(file, Source) /\ (Len(file) = FileSize => file = Source)
<1>1. Source \in Seq(Nat) /\ Len(Source) = FileSize /\ \A i \in 1 .. FileSize : Source[i] = i
  BY SourceFacts
<1>2. \A i \in 1 .. Len(file) : file[i] = i BY DEF Contiguous
<1> DEFINE t == SubSeq(Source, 1, Len(file))
<1>3. t \in Seq(Nat) /\ Len(t) = Len(file) /\ \A i \in 1 .. Len(file) : t[i] = Source[i]
  BY <1>1
<1> HIDE DEF t
<1>4. \A i \in 1 .. Len(file) : t[i] = file[i] BY <1>1, <1>2, <1>3
<1>5. file = t BY <1>3, <1>4
<1>6. Len(file) = FileSize => file = Source
  <2> SUFFICES ASSUME Len(file) = FileSize PROVE file = Source OBVIOUS
  <2>1. \A i \in 1 .. Len(file) : file[i] = Source[i] BY <1>1, <1>2
  <2> QED BY <1>1, <2>1
<1> QED BY <1>1, <1>5, <1>6 DEF IsPrefixOf, t

(* Blocks of length b cover what is in front of n of them. *)
LEMMA Multiples ==
  ASSUME NEW b \in Nat \ {0}, NEW n \in Nat, NEW k \in 1 .. n
  PROVE  /\ n * b \in Nat /\ (k - 1) * b \in Nat /\ k * b \in Nat
         /\ (k - 1) * b + b = k * b /\ k * b <= n * b
OBVIOUS

LEMMA BlockOf ==
  ASSUME NEW b \in Nat \ {0}, NEW n \in Nat, NEW d \in Nat, d < n * b
  PROVE  \E k \in 1 .. n : (k - 1) * b <= d /\ d < (k - 1) * b + b
<1> DEFINE m == d \div b
<1>1. m \in Nat /\ m * b <= d /\ d < m * b + b OBVIOUS
<1>2. m < n
  <2> SUFFICES ASSUME m >= n PROVE FALSE BY <1>1
  <2> QED BY <1>1
<1> HIDE DEF m
<1>3. m + 1 \in 1 .. n /\ (m + 1) - 1 = m BY <1>1, <1>2
<1> QED BY <1>1, <1>3

----------------------------------------------------------------------------
(* One lemma for each action. *)
LEMMA SizeType == FileSize \in Nat
BY SftpAssumption DEF FileSize

LEMMA ClientFields ==
  ASSUME NEW x \in Client
  PROVE  /\ x.phase \in {"idle", "loop", "wait", "end", "fatal"} /\ x.result \in {"none", "ok", "failed"}
         /\ x.commands \in Nat /\ x.interrupted \in BOOLEAN /\ x.resume \in BOOLEAN /\ x.msg_id \in Nat
         /\ x.offset \in Nat /\ x.size \in Nat /\ x.buflen \in Nat \ {0} /\ x.max_req \in Nat
         /\ x.highwater \in Nat /\ x.reordered \in BOOLEAN /\ x.read_error \in BOOLEAN
         /\ x.write_error \in BOOLEAN /\ x.status \in {"OK", "FAILURE", "DATA", "EOF"}
         /\ x.id \in Nat /\ x.startid \in Nat /\ x.ackid \in Nat
BY DEF Client

LEMMA IdsNat == ASSUME SftpType PROVE NextId \in Nat
BY ClientFields DEF SftpType, NextId

(* Steps that neither send nor receive. *)
LEMMA MatchedKept ==
  ASSUME SftpType, Matched, UNCHANGED <<dir, requests, toServer, toClient>>, fails'.write = fails.write,
         NextId' \in Nat, NextId' >= NextId
  PROVE  Matched'
<1>1. NextId \in Nat BY IdsNat
<1>2. MatchedOf(requests, toServer, toClient, NextId', Kind, FileSize, fails.write)
  BY <1>1, MatchedLess DEF Matched, SftpType
<1>3. Kind' = Kind /\ FileSize' = FileSize BY DEF Kind, FileSize
<1> QED BY <1>2, <1>3 DEF Matched

LEMMA MatchedIdle ==
  ASSUME SftpType, Matched, requests = {}
  PROVE  toServer = <<>> /\ toClient = <<>>
BY MatchedDrained DEF SftpType, Matched

LEMMA MatchedNone ==
  ASSUME requests' = {}, toServer' = <<>>, toClient' = <<>> PROVE Matched'
BY MatchedEmpty DEF Matched

LEMMA InterruptInv ==
  ASSUME SftpInv, cmd_interrupt PROVE SftpInv'
<1>0. /\ SftpType /\ Matched /\ Phases /\ DownloadInv /\ UploadInv BY DEF SftpInv
<1>1. /\ c' = [c EXCEPT !.interrupted = TRUE] /\ c.phase \in {"loop", "wait", "end"}
      /\ UNCHANGED <<dir, requests, toServer, toClient, handle, copy, fails>>
  BY DEF cmd_interrupt
<1>2. /\ c' \in Client /\ c'.phase = c.phase /\ c'.interrupted = TRUE /\ c'.offset = c.offset
      /\ c'.highwater = c.highwater /\ c'.write_error = c.write_error /\ c'.read_error = c.read_error
      /\ c'.msg_id = c.msg_id /\ c'.id = c.id /\ c'.result = c.result
  BY <1>0, <1>1 DEF SftpType, Client
<1>3. SftpType' BY <1>0, <1>1, <1>2 DEF SftpType
<1>4. NextId' = NextId /\ NextId \in Nat BY <1>0, <1>1, <1>2, IdsNat DEF NextId
<1>5. Matched' BY <1>0, <1>1, <1>4, MatchedKept
<1>6. Phases' BY <1>0, <1>1, <1>2 DEF Phases, Running
<1>7. FileSize' = FileSize BY <1>1 DEF FileSize
<1>8. DownloadInv'
  BY <1>0, <1>1, <1>2, <1>7 DEF DownloadInv, Running, Downloading
<1>9. UploadInv'
  BY <1>0, <1>1, <1>2, <1>7 DEF UploadInv, Running, Chain
<1> QED BY <1>3, <1>5, <1>6, <1>8, <1>9 DEF SftpInv

LEMMA CommandFacts ==
  ASSUME SftpType, NEW resume \in BOOLEAN
  PROVE  /\ Command(resume) \in Client /\ Command(resume).phase = "loop"
         /\ Command(resume).interrupted = FALSE /\ Command(resume).status = "OK"
         /\ Command(resume).msg_id = c.msg_id
<1>0. c \in Client BY DEF SftpType
<1> DEFINE n == c.commands + 1
<1>1. n \in Nat BY <1>0, ClientFields
<1> DEFINE x == [c EXCEPT !.commands = n, !.interrupted = FALSE, !.resume = resume, !.phase = "loop",
                         !.result = "none", !.status = "OK"]
<1>2. Command(resume) = x BY DEF Command
<1> HIDE DEF n
<1>3. x \in Client BY <1>0, <1>1 DEF Client
<1>4. x.phase = "loop" /\ x.interrupted = FALSE /\ x.status = "OK" BY <1>0 DEF Client
<1>5. x.msg_id = c.msg_id BY <1>0 DEF Client
<1> QED BY <1>2, <1>3, <1>4, <1>5

LEMMA ReturnedFacts ==
  ASSUME NEW x \in Client, NEW result \in {"ok", "failed"}, NEW calls \in Nat
  PROVE  /\ Returned(x, result, calls) \in Client /\ Returned(x, result, calls).phase = "idle"
         /\ Returned(x, result, calls).result = result
         /\ Returned(x, result, calls).interrupted = x.interrupted
<1> DEFINE n == x.msg_id + calls
<1>1. n \in Nat BY ClientFields
<1> DEFINE y == [x EXCEPT !.phase = "idle", !.result = result, !.msg_id = n]
<1>2. Returned(x, result, calls) = y BY DEF Returned
<1> HIDE DEF n
<1>3. y \in Client BY <1>1 DEF Client
<1>4. y.phase = "idle" /\ y.result = result /\ y.interrupted = x.interrupted BY DEF Client
<1> QED BY <1>2, <1>3, <1>4

LEMMA EmptyCopy ==
  /\ <<>> \in Seq(Nat) /\ Len(<<>>) = 0 /\ Contiguous(<<>>, 0)
  /\ \A size \in Nat : Good(<<>>, size)
<1>1. <<>> \in Seq(Nat) /\ Len(<<>>) = 0 OBVIOUS
<1> QED BY <1>1 DEF Contiguous, Good

LEMMA GetInv ==
  ASSUME SftpInv, get PROVE SftpInv'
<1>0. /\ SftpType /\ Matched /\ Phases /\ DownloadInv /\ UploadInv BY DEF SftpInv
<1>1. PICK resume \in BOOLEAN, size \in {0, FileSize}, opened \in {"both", "remote", "none"} :
        do_download(resume, size, opened)
  BY DEF get
<1>2. /\ dir = "download" /\ c.phase = "idle" /\ fails' = [fails EXCEPT !.here = 0]
      /\ UNCHANGED <<dir, requests, toServer, toClient>>
  BY DEF get, MayCommand
<1>3. requests = {} /\ toServer = <<>> /\ toClient = <<>> BY <1>0, <1>2, MatchedIdle DEF Phases
<1>4. Matched' BY <1>2, <1>3, MatchedNone
<1>5. fails' \in [read : Nat, write : Nat, here : Nat] /\ fails'.write = fails.write
  BY <1>0, <1>2 DEF SftpType
<1>6. FileSize' = FileSize /\ FileSize \in Nat BY <1>2, SizeType DEF FileSize
<1>7. size \in Nat BY <1>6
<1> DEFINE start == ResumeAt(resume)
           usable == opened = "both" /\ start <= size
<1>8. copy \in Seq(Nat) /\ Len(copy) \in Nat BY <1>0 DEF SftpType
<1>9. start \in Nat /\ (resume => start = Len(copy)) /\ (~resume => start = 0) BY <1>8 DEF ResumeAt
<1>10. copy' = (IF opened = "both" /\ ~resume THEN <<>> ELSE copy) BY <1>1 DEF do_download
<1>11. copy' \in Seq(Nat) BY <1>8, <1>10, EmptyCopy
<1>12. fails.write <= 1 => Good(copy, FileSize) /\ Contiguous(copy, Len(copy))
  BY <1>0, <1>2 DEF DownloadInv
<1>13. fails.write <= 1 => Good(copy', FileSize) /\ Contiguous(copy', Len(copy'))
  BY <1>6, <1>10, <1>12, EmptyCopy
<1>14. Command(resume) \in Client /\ c.msg_id \in Nat BY <1>0, CommandFacts, ClientFields DEF SftpType
<1> HIDE DEF start
<1>15. CASE usable
  <2>1. /\ c' = [Command(resume) EXCEPT
                     !.msg_id = @ + 2, !.size = size, !.offset = start, !.highwater = start,
                     !.buflen = transfer_buflen, !.max_req = 1,
                     !.read_error = FALSE, !.write_error = FALSE, !.reordered = FALSE]
        /\ handle' = "read"
    BY <1>1, <1>15 DEF do_download, HandleFor, start
  <2>2. /\ c' \in Client /\ c'.phase = "loop" /\ c'.offset = start /\ c'.highwater = start
        /\ c'.max_req = 1 /\ c'.read_error = FALSE /\ c'.write_error = FALSE
    <3>1. transfer_buflen \in Nat \ {0} BY SftpAssumption
    <3>2. Command(resume).phase = "loop" BY <1>0, CommandFacts
    <3>3. PICK x \in Client : x = Command(resume) BY <1>14
    <3> DEFINE n == x.msg_id + 2
    <3>4. n \in Nat BY ClientFields
    <3>5. c' = [x EXCEPT !.msg_id = n, !.size = size, !.offset = start, !.highwater = start,
                     !.buflen = transfer_buflen, !.max_req = 1,
                     !.read_error = FALSE, !.write_error = FALSE, !.reordered = FALSE]
      BY <2>1, <3>3
    <3> HIDE DEF n
    <3>6. c' \in Client BY <1>7, <1>9, <3>1, <3>4, <3>5 DEF Client
    <3>7. c'.phase = x.phase /\ c'.offset = start /\ c'.highwater = start BY <3>5 DEF Client
    <3>8. c'.max_req = 1 /\ c'.read_error = FALSE /\ c'.write_error = FALSE BY <3>5 DEF Client
    <3> QED BY <3>2, <3>3, <3>6, <3>7, <3>8
  <2>3. SftpType' BY <1>0, <1>2, <1>5, <1>11, <2>1, <2>2 DEF SftpType
  <2>4. Phases' BY <1>2, <1>3, <2>1, <2>2 DEF Phases, Running
  <2>5. start = Len(copy') BY <1>9, <1>10, <1>15, EmptyCopy
  <2>6. ASSUME fails.write <= 1 PROVE Downloading'
    <3>1. Contiguous(copy', start) BY <1>13, <2>5, <2>6
    <3>2. \A i \in 1 .. start : Copied(copy', i) BY <1>9, <1>11, <3>1, ContiguousCopied
    <3>3. \A i \in 1 .. FileSize : i <= start => Covered(i, copy', requests')
      BY <1>6, <1>9, <3>2 DEF Covered
    <3> QED BY <1>2, <1>3, <1>6, <2>2, <3>1, <3>3 DEF Downloading
  <2>7. DownloadInv' BY <1>2, <1>5, <1>6, <1>13, <2>2, <2>6 DEF DownloadInv, Running
  <2>8. UploadInv' BY <1>2 DEF UploadInv
  <2> QED BY <1>4, <2>3, <2>4, <2>7, <2>8 DEF SftpInv
<1>16. CASE ~usable
  <2>1. /\ c' = Returned(Command(resume), "failed", IF opened = "none" THEN 2 ELSE 3)
        /\ handle' = "unused"
    BY <1>1, <1>16 DEF do_download, HandleFor, start
  <2>2. c' \in Client /\ c'.phase = "idle" /\ c'.result = "failed"
    <3>1. (IF opened = "none" THEN 2 ELSE 3) \in Nat OBVIOUS
    <3> QED BY <1>14, <2>1, <3>1, ReturnedFacts
  <2>3. SftpType' BY <1>0, <1>2, <1>5, <1>11, <2>1, <2>2 DEF SftpType
  <2>4. Phases' BY <1>2, <1>3, <2>1, <2>2 DEF Phases, Running
  <2>5. DownloadInv' BY <1>2, <1>5, <1>6, <1>13, <2>2 DEF DownloadInv, Running
  <2>6. UploadInv' BY <1>2 DEF UploadInv
  <2> QED BY <1>4, <2>3, <2>4, <2>5, <2>6 DEF SftpInv
<1> QED BY <1>15, <1>16

LEMMA PutInv ==
  ASSUME SftpInv, put PROVE SftpInv'
<1>0. /\ SftpType /\ Matched /\ Phases /\ DownloadInv /\ UploadInv BY DEF SftpInv
<1>1. PICK resume \in BOOLEAN, opened \in BOOLEAN : do_upload(resume, opened) BY DEF put
<1>2. /\ dir = "upload" /\ c.phase = "idle" /\ fails' = [fails EXCEPT !.here = 0]
      /\ UNCHANGED <<dir, requests, toServer, toClient>>
  BY DEF put, MayCommand
<1>3. requests = {} /\ toServer = <<>> /\ toClient = <<>> BY <1>0, <1>2, MatchedIdle DEF Phases
<1>4. Matched' BY <1>2, <1>3, MatchedNone
<1>5. fails' \in [read : Nat, write : Nat, here : Nat] /\ fails'.write = fails.write
  BY <1>0, <1>2 DEF SftpType
<1>6. FileSize' = FileSize /\ FileSize \in Nat BY <1>2, SizeType DEF FileSize
<1> DEFINE size == ResumeAt(resume)
           usable == opened /\ (resume => size < FileSize)
           id == c.msg_id + (IF resume THEN 1 ELSE 0)
<1>8. copy \in Seq(Nat) /\ Len(copy) \in Nat BY <1>0 DEF SftpType
<1>9. size \in Nat /\ (resume => size = Len(copy)) /\ (~resume => size = 0) BY <1>8 DEF ResumeAt
<1>10. copy' = (IF usable /\ ~resume THEN <<>> ELSE copy) BY <1>1 DEF do_upload
<1>11. copy' \in Seq(Nat) BY <1>8, <1>10, EmptyCopy
<1>12. fails.write = 0 => Len(copy) <= FileSize /\ Contiguous(copy, Len(copy))
  BY <1>0, <1>2 DEF UploadInv
<1>13. fails.write = 0 => Len(copy') <= FileSize /\ Contiguous(copy', Len(copy'))
  BY <1>6, <1>10, <1>12, EmptyCopy
<1>14. Command(resume) \in Client /\ c.msg_id \in Nat BY <1>0, CommandFacts, ClientFields DEF SftpType
<1>14a. id \in Nat BY <1>14
<1> HIDE DEF size, id
<1>15. CASE usable
  <2>1. /\ c' = [Command(resume) EXCEPT !.msg_id = id + 1, !.id = id, !.startid = id + 1,
                                        !.ackid = id + 1, !.offset = size]
        /\ handle' = IF resume THEN "append" ELSE "write"
    BY <1>1, <1>15 DEF do_upload, size, id
  <2>2. c' \in Client /\ c'.phase = "loop" /\ c'.offset = size
    <3>2. Command(resume).phase = "loop" BY <1>0, CommandFacts
    <3>3. PICK x \in Client : x = Command(resume) BY <1>14
    <3>4. id + 1 \in Nat BY <1>14a
    <3>5. c' \in Client BY <1>9, <1>14a, <2>1, <3>3, <3>4 DEF Client
    <3>6. c'.phase = x.phase /\ c'.offset = size BY <2>1, <3>3 DEF Client
    <3> QED BY <3>2, <3>3, <3>5, <3>6
  <2>3. SftpType' BY <1>0, <1>2, <1>5, <1>11, <2>1, <2>2 DEF SftpType
  <2>4. Phases' BY <1>2, <1>3, <2>1, <2>2 DEF Phases, Running
  <2>5. size = Len(copy') /\ size <= FileSize BY <1>6, <1>9, <1>10, <1>15, EmptyCopy
  <2>6. Chain'
    <3>1. toServer' = <<>> /\ 1 .. Len(toServer') = {} BY <1>2, <1>3
    <3> QED BY <2>2, <2>5, <3>1 DEF Chain
  <2>7. UploadInv' BY <1>2, <1>3, <1>5, <1>6, <1>13, <2>2, <2>5, <2>6 DEF UploadInv, Running
  <2>8. DownloadInv' BY <1>2 DEF DownloadInv
  <2> QED BY <1>4, <2>3, <2>4, <2>7, <2>8 DEF SftpInv
<1>16. CASE ~usable
  <2>1. /\ c' = Returned(Command(resume), "failed", IF resume /\ ~opened THEN 2 ELSE 1)
        /\ handle' = "unused"
    BY <1>1, <1>16 DEF do_upload, size
  <2>2. c' \in Client /\ c'.phase = "idle" /\ c'.result = "failed"
    <3>1. (IF resume /\ ~opened THEN 2 ELSE 1) \in Nat OBVIOUS
    <3> QED BY <1>14, <2>1, <3>1, ReturnedFacts
  <2>3. SftpType' BY <1>0, <1>2, <1>5, <1>11, <2>1, <2>2 DEF SftpType
  <2>4. Phases' BY <1>2, <1>3, <2>1, <2>2 DEF Phases, Running
  <2>5. UploadInv' BY <1>2, <1>3, <1>5, <1>6, <1>13, <2>2 DEF UploadInv, Running
  <2>6. DownloadInv' BY <1>2 DEF DownloadInv
  <2> QED BY <1>4, <2>3, <2>4, <2>5, <2>6 DEF SftpInv
<1> QED BY <1>15, <1>16

LEMMA DownloadEndInv ==
  ASSUME SftpInv, download_end PROVE SftpInv'
<1>0. /\ SftpType /\ Matched /\ Phases /\ DownloadInv /\ UploadInv BY DEF SftpInv
<1>1. /\ dir = "download" /\ c.phase = "end" /\ handle' = "unused"
      /\ UNCHANGED <<dir, requests, toServer, toClient, fails>>
  BY DEF download_end
<1>2. requests = {} /\ toServer = <<>> /\ toClient = <<>> BY <1>0, <1>1, MatchedIdle DEF Phases
<1> DEFINE ok(late, closed) == ~c.read_error /\ ~c.write_error /\ ~late /\ closed
<1>3. PICK late \in {TRUE, c.interrupted}, closed \in BOOLEAN :
        c' = Returned([c EXCEPT !.interrupted = late], IF ok(late, closed) THEN "ok" ELSE "failed", 1)
  BY <1>2 DEF download_end, Quiet
<1>4. c \in Client /\ late \in BOOLEAN BY <1>0, ClientFields DEF SftpType
<1> DEFINE x == [c EXCEPT !.interrupted = late]
           res == IF ok(late, closed) THEN "ok" ELSE "failed"
<1>5. x \in Client BY <1>4 DEF Client
<1>5a. res \in {"ok", "failed"} OBVIOUS
<1>5b. res = "ok" => ~c.read_error /\ ~c.write_error /\ ~c.interrupted OBVIOUS
<1> HIDE DEF x, res
<1>6. c' = Returned(x, res, 1) BY <1>3 DEF x, res
<1>7. c' \in Client /\ c'.phase = "idle" /\ c'.result = res BY <1>5, <1>5a, <1>6, ReturnedFacts
<1>8. copy \in Seq(Nat) /\ c.highwater \in Nat /\ c.offset \in Nat BY <1>0, <1>4, ClientFields DEF SftpType
<1>9. copy' = (IF c.read_error \/ c.write_error \/ c.interrupted THEN ftruncate(copy, c.highwater) ELSE copy)
  BY DEF download_end
<1>10. copy' \in Seq(Nat) BY <1>8, <1>9, TruncatedFacts
<1>11. SftpType' BY <1>0, <1>1, <1>7, <1>10 DEF SftpType
<1>12. Matched' BY <1>1, <1>2, MatchedNone
<1>13. Phases' BY <1>1, <1>2, <1>7 DEF Phases, Running
<1>14. UploadInv' BY <1>1 DEF UploadInv
<1>15. FileSize' = FileSize /\ FileSize \in Nat BY <1>1, SizeType DEF FileSize
<1>16. ASSUME fails.write <= 1
       PROVE  Good(copy', FileSize) /\ Contiguous(copy', Len(copy')) /\ (res = "ok" => Len(copy') = FileSize)
  <2>1. Downloading /\ Good(copy, FileSize) BY <1>0, <1>1, <1>16 DEF DownloadInv, Running
  <2>2. CASE c.read_error \/ c.write_error \/ c.interrupted
    <3> DEFINE w == ftruncate(copy, c.highwater)
    <3>1. /\ copy' = w /\ Len(w) = c.highwater
          /\ \A i \in 1 .. c.highwater : i <= Len(copy) => w[i] = copy[i]
      BY <1>8, <1>9, <2>2, TruncatedFacts
    <3>2. /\ c.highwater <= Len(copy) /\ Len(copy) <= FileSize /\ Len(copy) \in Nat
          /\ \A i \in 1 .. c.highwater : copy[i] = i
      BY <1>8, <2>1 DEF Downloading, Contiguous, Good
    <3> HIDE DEF w
    <3>3. \A i \in 1 .. c.highwater : w[i] = i BY <1>8, <3>1, <3>2
    <3>4. Contiguous(w, Len(w)) BY <1>8, <3>1, <3>3 DEF Contiguous
    <3>5. Good(w, FileSize) BY <1>8, <1>15, <3>1, <3>2, <3>3 DEF Good
    <3>6. res # "ok" BY <1>5b, <2>2
    <3> QED BY <3>1, <3>4, <3>5, <3>6
  <2>3. CASE ~(c.read_error \/ c.write_error \/ c.interrupted)
    <3>1. copy' = copy BY <1>9, <2>3
    <3>2. c.offset >= FileSize BY <1>1, <2>1, <2>3 DEF Downloading
    <3>3. \A i \in 1 .. FileSize : i <= c.offset => Covered(i, copy, requests) BY <2>1, <2>3 DEF Downloading
    <3>4. \A i \in 1 .. FileSize : Copied(copy, i) BY <1>2, <1>8, <1>15, <3>2, <3>3 DEF Covered
    <3>5. Contiguous(copy, FileSize) BY <1>8, <1>15, <3>4, ContiguousCopied
    <3>6. Len(copy) = FileSize BY <1>8, <1>15, <2>1, <3>5 DEF Contiguous, Good
    <3> QED BY <2>1, <3>1, <3>5, <3>6
  <2> QED BY <2>2, <2>3
<1>17. DownloadInv' BY <1>1, <1>7, <1>15, <1>16 DEF DownloadInv, Running
<1> QED BY <1>11, <1>12, <1>13, <1>14, <1>17 DEF SftpInv

LEMMA UploadEndInv ==
  ASSUME SftpInv, upload_end PROVE SftpInv'
<1>0. /\ SftpType /\ Matched /\ Phases /\ DownloadInv /\ UploadInv BY DEF SftpInv
<1>1. /\ dir = "upload" /\ c.phase = "end" /\ handle' = "unused"
      /\ UNCHANGED <<dir, requests, toServer, toClient, copy, fails>>
  BY DEF upload_end
<1>2. requests = {} /\ toServer = <<>> /\ toClient = <<>> BY <1>0, <1>1, MatchedIdle DEF Phases
<1>3. PICK closed \in BOOLEAN :
        c' = Returned(c, IF c.status = "OK" /\ closed THEN "ok" ELSE "failed", 1)
  BY <1>2 DEF upload_end, Quiet
<1>4. c \in Client BY <1>0 DEF SftpType
<1> DEFINE res == IF c.status = "OK" /\ closed THEN "ok" ELSE "failed"
<1>5. res \in {"ok", "failed"} /\ (res = "ok" => c.status = "OK") OBVIOUS
<1> HIDE DEF res
<1>6. c' = Returned(c, res, 1) BY <1>3 DEF res
<1>7. c' \in Client /\ c'.phase = "idle" /\ c'.result = res /\ c'.interrupted = c.interrupted
  BY <1>4, <1>5, <1>6, ReturnedFacts
<1>8. SftpType' BY <1>0, <1>1, <1>7 DEF SftpType
<1>9. Matched' BY <1>1, <1>2, MatchedNone
<1>10. Phases' BY <1>1, <1>2, <1>7 DEF Phases, Running
<1>11. DownloadInv' BY <1>1 DEF DownloadInv
<1>12. FileSize' = FileSize BY <1>1 DEF FileSize
<1>13. fails.write = 0 => c.offset = Len(copy) BY <1>0, <1>1, <1>2 DEF UploadInv, Running, Chain
<1>14. UploadInv' BY <1>0, <1>1, <1>2, <1>5, <1>7, <1>12, <1>13 DEF UploadInv, Running
<1> QED BY <1>8, <1>9, <1>10, <1>11, <1>14 DEF SftpInv

(* The reply that arrives is expected. *)
LEMMA ReplyFound ==
  ASSUME SftpType, Matched, toClient # <<>>
  PROVE  /\ Head(toClient) \in Answer
         /\ \E q \in requests : q.id = Head(toClient).id /\ Answers(Head(toClient), q, FileSize, fails.write)
         /\ \A p, q \in requests : p.id = q.id => p = q
<1>1. toClient \in Seq(Answer) BY DEF SftpType
<1>2. Head(toClient) = toClient[1] /\ toClient[1] \in Answer /\ 1 \in 1 .. Len(toClient)
  BY <1>1, TailFacts
<1> QED BY <1>2 DEF Matched, MatchedOf

LEMMA WithoutFacts ==
  ASSUME SftpType, NEW id
  PROVE  Without(id) \subseteq Request /\ IsFiniteSet(Without(id)) /\ Without(id) \subseteq requests
<1>1. Without(id) \subseteq requests BY DEF Without
<1>2. IsFiniteSet(Without(id)) BY <1>1, FS_Subset DEF SftpType
<1> QED BY <1>1, <1>2 DEF SftpType

LEMMA UploadReplyInv ==
  ASSUME SftpInv, upload_reply PROVE SftpInv'
<1>0. /\ SftpType /\ Matched /\ Phases /\ DownloadInv /\ UploadInv BY DEF SftpInv
<1> DEFINE r == Head(toClient)
<1>1. /\ dir = "upload" /\ c.phase = "wait" /\ toClient # <<>> /\ toClient' = Tail(toClient)
      /\ UNCHANGED <<dir, toServer, handle, copy, fails>>
  BY DEF upload_reply
<1>2. r \in Answer /\ \E q \in requests : q.id = r.id BY <1>0, <1>1, ReplyFound
<1>3. /\ c' = [c EXCEPT !.phase = "loop", !.status = r.status, !.ackid = @ + 1]
      /\ requests' = Without(r.id)
  BY <1>2 DEF upload_reply
<1>4. r.status \in {"OK", "FAILURE", "DATA", "EOF"} BY <1>2 DEF Answer
<1> HIDE DEF r
<1>5. c' \in Client /\ c'.phase = "loop" /\ c'.id = c.id /\ c'.offset = c.offset
  <2>1. c \in Client BY <1>0 DEF SftpType
  <2>2. c.ackid + 1 \in Nat BY <2>1, ClientFields
  <2>3. c' = [c EXCEPT !.phase = "loop", !.status = r.status, !.ackid = c.ackid + 1] BY <1>3
  <2>4. c' \in Client BY <1>4, <2>1, <2>2, <2>3 DEF Client
  <2> QED BY <2>1, <2>3, <2>4 DEF Client
<1>6. requests' \subseteq Request /\ IsFiniteSet(requests') BY <1>0, <1>3, WithoutFacts
<1>7. toClient' \in Seq(Answer) BY <1>0, <1>1, TailFacts DEF SftpType
<1>8. SftpType' BY <1>0, <1>1, <1>5, <1>6, <1>7 DEF SftpType
<1>9. Matched'
  <2>1. NextId' = NextId /\ Kind' = Kind /\ FileSize' = FileSize BY <1>1, <1>5 DEF NextId, Kind, FileSize
  <2>2. MatchedOf({p \in requests : p.id # r.id}, toServer, Tail(toClient), NextId, Kind, FileSize, fails.write)
    <3>1. requests \in SUBSET Request /\ toServer \in Seq(Request) /\ toClient \in Seq(Answer)
      BY <1>0 DEF SftpType
    <3>2. MatchedOf(requests, toServer, toClient, NextId, Kind, FileSize, fails.write) BY <1>0 DEF Matched
    <3> HIDE DEF NextId, Kind, FileSize
    <3> QED BY <1>1, <3>1, <3>2, MatchedReply DEF r
  <2> QED BY <1>1, <1>3, <2>1, <2>2 DEF Matched, Without
<1>10. Phases' BY <1>0, <1>1, <1>5 DEF Phases, Running
<1>11. DownloadInv' BY <1>1 DEF DownloadInv
<1>12. FileSize' = FileSize BY <1>1 DEF FileSize
<1>13. Chain' <=> Chain BY <1>1, <1>5, <1>12 DEF Chain
<1>14. requests' \subseteq requests BY <1>0, <1>3, WithoutFacts
<1>15. UploadInv' BY <1>0, <1>1, <1>5, <1>12, <1>13, <1>14 DEF UploadInv, Running
<1> QED BY <1>8, <1>9, <1>10, <1>11, <1>15 DEF SftpInv

LEMMA UploadSendInv ==
  ASSUME SftpInv, upload_send PROVE SftpInv'
<1>0. /\ SftpType /\ Matched /\ Phases /\ DownloadInv /\ UploadInv BY DEF SftpInv
<1> DEFINE len == IF c.interrupted \/ c.status # "OK" THEN 0
                  ELSE MinOf(transfer_buflen, FileSize - c.offset)
           id == IF len # 0 THEN c.id + 1 ELSE c.id
           ack == [type |-> "WRITE", id |-> id, len |-> len, offset |-> c.offset]
<1>1. /\ dir = "upload" /\ c.phase = "loop" /\ UNCHANGED <<dir, toClient, handle, copy, fails>>
  BY DEF upload_send
<1>2. c \in Client /\ c.offset \in Nat /\ c.id \in Nat BY <1>0, ClientFields DEF SftpType
<1>3. FileSize \in Nat /\ c.offset <= FileSize BY <1>0, <1>1, SizeType DEF UploadInv, Running
<1>4. /\ len \in Nat /\ c.offset + len <= FileSize
      /\ len = 0 /\ ~c.interrupted /\ c.status = "OK" => c.offset = FileSize
  BY <1>2, <1>3, SftpAssumption DEF MinOf
<1>5. IF upload_over(len)
      THEN c' = [c EXCEPT !.phase = "end"] /\ UNCHANGED <<requests, toServer>>
      ELSE /\ c' = [c EXCEPT !.phase = IF MustWait(id, len) THEN "wait" ELSE "loop",
                             !.id = id, !.offset = @ + len]
           /\ requests' = IF len # 0 THEN requests \cup {ack} ELSE requests
           /\ toServer' = IF len # 0 THEN Append(toServer, ack) ELSE toServer
  BY DEF upload_send
<1>6. id \in Nat /\ (len # 0 => id = c.id + 1) /\ (len = 0 => id = c.id) BY <1>2
<1>7. len # 0 => ack \in Request BY <1>2, <1>4, <1>6 DEF Request
<1>7a. ack.id = id /\ ack.len = len /\ ack.offset = c.offset /\ ack.type = "WRITE" OBVIOUS
<1> HIDE DEF len, id, ack
<1>8. FileSize' = FileSize /\ Kind' = Kind /\ Kind = "WRITE" BY <1>1 DEF FileSize, Kind
<1>9. DownloadInv' BY <1>1 DEF DownloadInv
<1>10. CASE upload_over(len)
  <2>1. len = 0 /\ requests = {} BY <1>10 DEF upload_over
  <2>2. c' = [c EXCEPT !.phase = "end"] /\ UNCHANGED <<requests, toServer>> BY <1>5, <1>10
  <2>3. /\ c' \in Client /\ c'.phase = "end" /\ c'.id = c.id /\ c'.offset = c.offset
        /\ c'.interrupted = c.interrupted /\ c'.status = c.status
    BY <1>2, <2>2 DEF Client
  <2>4. SftpType' BY <1>0, <1>1, <2>2, <2>3 DEF SftpType
  <2>5. Matched'
    <3>1. NextId' = NextId /\ NextId \in Nat BY <1>0, <1>1, <2>3, IdsNat DEF NextId
    <3> QED BY <1>0, <1>1, <2>2, <3>1, MatchedKept
  <2>6. Phases' BY <1>0, <1>1, <2>1, <2>2, <2>3 DEF Phases, Running
  <2>7. Chain' <=> Chain BY <1>1, <1>8, <2>2, <2>3 DEF Chain
  <2>8. UploadInv' BY <1>0, <1>1, <1>4, <1>8, <2>1, <2>2, <2>3, <2>7 DEF UploadInv, Running
  <2> QED BY <1>9, <2>4, <2>5, <2>6, <2>8 DEF SftpInv
<1>11. CASE ~upload_over(len)
  <2> DEFINE ph == IF MustWait(id, len) THEN "wait" ELSE "loop"
  <2>1. ph \in {"wait", "loop"} OBVIOUS
  <2> HIDE DEF ph
  <2>2. /\ c' = [c EXCEPT !.phase = ph, !.id = id, !.offset = c.offset + len]
        /\ requests' = IF len # 0 THEN requests \cup {ack} ELSE requests
        /\ toServer' = IF len # 0 THEN Append(toServer, ack) ELSE toServer
    BY <1>5, <1>11 DEF ph
  <2>3. c.offset + len \in Nat BY <1>2, <1>4
  <2>4. c' \in Client BY <1>2, <1>6, <2>1, <2>2, <2>3 DEF Client
  <2>5. c'.phase = ph /\ c'.id = id /\ c'.offset = c.offset + len BY <1>2, <2>2 DEF Client
  <2>6. requests' \subseteq Request /\ IsFiniteSet(requests')
    <3>1. requests \subseteq Request /\ IsFiniteSet(requests) BY <1>0 DEF SftpType
    <3>2. IsFiniteSet(requests \cup {ack}) BY <3>1, FS_AddElement
    <3> QED BY <1>7, <2>2, <3>1, <3>2
  <2>7. toServer \in Seq(Request) /\ toServer' \in Seq(Request)
    BY <1>0, <1>7, <2>2, AppendFacts DEF SftpType
  <2>8. SftpType' BY <1>0, <1>1, <2>4, <2>6, <2>7 DEF SftpType
  <2>9. Phases' BY <1>0, <1>1, <2>1, <2>5 DEF Phases, Running
  <2>10. CASE len = 0
    <3>1. NextId' = NextId /\ NextId \in Nat BY <1>0, <1>1, <1>6, <2>5, <2>10, IdsNat DEF NextId
    <3>2. Matched' BY <1>0, <1>1, <2>2, <2>10, <3>1, MatchedKept
    <3>3. c'.offset = c.offset /\ toServer' = toServer BY <1>2, <2>2, <2>5, <2>10
    <3>4. Chain' <=> Chain BY <1>1, <1>8, <3>3 DEF Chain
    <3>5. UploadInv' BY <1>0, <1>1, <1>8, <2>1, <2>2, <2>5, <2>10, <3>3, <3>4 DEF UploadInv, Running
    <3> QED BY <1>9, <2>8, <2>9, <3>2, <3>5 DEF SftpInv
  <2>11. CASE len # 0
    <3>1. NextId = c.id + 1 /\ NextId' = c.id + 1 + 1 /\ NextId \in Nat
      BY <1>1, <1>2, <1>6, <2>5, <2>11 DEF NextId
    <3>2. MatchedOf(requests \cup {ack}, Append(toServer, ack), toClient, NextId + 1, Kind, FileSize, fails.write)
      <4>1. ack \in Request /\ ack.id = NextId /\ ack.type = Kind BY <1>6, <1>7, <1>7a, <1>8, <2>11, <3>1
      <4> QED BY <1>0, <3>1, <4>1, MatchedSend1 DEF SftpType, Matched
    <3>3. Matched' BY <1>1, <1>8, <2>2, <2>11, <3>1, <3>2 DEF Matched
    <3>4. ASSUME Chain PROVE Chain'
      <4> DEFINE ts == toServer
                 us == Append(toServer, ack)
      <4>1. /\ toServer' = us /\ Len(us) = Len(ts) + 1 /\ Len(ts) \in Nat /\ us[Len(ts) + 1] = ack
            /\ \A j \in 1 .. Len(ts) : us[j] = ts[j]
        BY <1>7, <2>2, <2>7, <2>11, AppendFacts
      <4>2. \A j \in 1 .. Len(ts) : ts[j].offset \in Nat /\ ts[j].len \in Nat
        <5>1. \A j \in 1 .. Len(ts) : ts[j] \in Request BY <2>7
        <5> QED BY <5>1 DEF Request
      <4>3. ts # <<>> => Len(ts) >= 1 BY <2>7
      <4> HIDE DEF us
      <4>4. us # <<>> BY <4>1
      <4>5. us[1].offset = Len(copy)
        <5>1. CASE ts = <<>> BY <1>7a, <3>4, <4>1, <5>1 DEF Chain
        <5>2. CASE ts # <<>> BY <3>4, <4>1, <4>3, <5>2 DEF Chain
        <5> QED BY <5>1, <5>2
      <4>6. us[Len(us)].offset + us[Len(us)].len = c'.offset BY <1>7a, <2>5, <4>1
      <4>7. ASSUME NEW i \in 1 .. Len(us)
            PROVE  /\ us[i].offset + us[i].len <= FileSize
                   /\ i < Len(us) => us[i].offset + us[i].len = us[i + 1].offset
        <5>1. CASE i = Len(ts) + 1 BY <1>4, <1>7a, <4>1, <5>1
        <5>2. CASE i = Len(ts) /\ i # 0
          <6>1. ts # <<>> /\ i \in 1 .. Len(ts) BY <4>1, <5>2
          <6> QED BY <1>7a, <3>4, <4>1, <5>2, <6>1 DEF Chain
        <5>3. CASE i < Len(ts)
          <6>1. i \in 1 .. Len(ts) /\ i + 1 \in 1 .. Len(ts) BY <4>1, <5>3
          <6> QED BY <3>4, <4>1, <5>3, <6>1 DEF Chain
        <5> QED BY <4>1, <5>1, <5>2, <5>3
      <4> QED BY <1>1, <1>8, <4>1, <4>4, <4>5, <4>6, <4>7 DEF Chain
    <3>5. \A q \in requests' : q.offset + q.len <= FileSize
      BY <1>0, <1>1, <1>4, <1>7a, <2>2, <2>11 DEF UploadInv
    <3>6. UploadInv' BY <1>0, <1>1, <1>4, <1>8, <2>1, <2>5, <3>4, <3>5 DEF UploadInv, Running
    <3> QED BY <1>9, <2>8, <2>9, <3>3, <3>6 DEF SftpInv
  <2> QED BY <2>10, <2>11
<1> QED BY <1>10, <1>11

LEMMA SourceBlock ==
  ASSUME NEW off \in Nat, NEW n \in Nat, off + n <= FileSize
  PROVE  /\ SubSeq(Source, off + 1, off + n) \in Seq(Nat) /\ Len(SubSeq(Source, off + 1, off + n)) = n
         /\ \A k \in 1 .. n : SubSeq(Source, off + 1, off + n)[k] = off + k
<1>1. Source \in Seq(Nat) /\ Len(Source) = FileSize /\ \A i \in 1 .. FileSize : Source[i] = i
  BY SizeType, SourceFacts
<1>2. FileSize \in Nat BY SizeType
<1> HIDE DEF FileSize, Source
<1>3. /\ SubSeq(Source, off + 1, off + n) \in Seq(Nat) /\ Len(SubSeq(Source, off + 1, off + n)) = n
      /\ \A k \in 1 .. n : SubSeq(Source, off + 1, off + n)[k] = Source[off + k]
  BY <1>1, <1>2
<1>4. \A k \in 1 .. n : off + k \in 1 .. FileSize BY <1>2
<1> QED BY <1>1, <1>3, <1>4

(* The requests under way belong to a transfer that runs. *)
LEMMA ServerRuns ==
  ASSUME SftpType, Matched, Phases, NEW i \in 1 .. Len(toServer)
  PROVE  /\ Running /\ toServer[i] \in requests /\ toServer[i] \in Request
         /\ toServer[i].type = Kind /\ toServer[i].id \in Nat /\ toServer[i].len \in Nat \ {0}
         /\ toServer[i].offset \in Nat
<1>1. toServer[i] \in requests /\ toServer[i].type = Kind BY DEF Matched, MatchedOf
<1>2. toServer[i] \in Request BY <1>1 DEF SftpType
<1>3. c.phase \in {"idle", "loop", "wait", "end", "fatal"} BY ClientFields DEF SftpType
<1>4. Running BY <1>1, <1>3 DEF Phases, Running
<1> QED BY <1>1, <1>2, <1>4 DEF Request

LEMMA ProcessReadInv ==
  ASSUME SftpInv, NEW i \in 1 .. Len(toServer), toServer[i].type = "READ", process_read(toServer[i]),
         toServer' = RemovedAt(toServer, i), UNCHANGED <<dir, c, requests, handle>>
  PROVE  SftpInv'
<1>0. /\ SftpType /\ Matched /\ Phases /\ DownloadInv /\ UploadInv BY DEF SftpInv
<1> DEFINE q == toServer[i]
<1>1. /\ Running /\ q \in requests /\ q \in Request /\ q.type = Kind /\ q.id \in Nat
      /\ q.len \in Nat \ {0} /\ q.offset \in Nat
  BY <1>0, ServerRuns
<1> HIDE DEF q
<1>2. dir = "download" /\ handle = "read" /\ q.type = "READ"
  BY <1>0, <1>1 DEF Kind, Phases, SftpType, q
<1>3. FileSize \in Nat BY SizeType
<1>4. copy' = copy /\ fails' \in [read : Nat, write : Nat, here : Nat] /\ fails'.write = fails.write
  BY <1>0, <1>2 DEF process_read, SftpType, q
<1>5. \E r \in Answer : toClient' = Append(toClient, r) /\ r.id = q.id /\ Answers(r, q, FileSize, fails.write)
  <2>1. \/ q.offset < FileSize /\ \E n \in 1 .. MinOf(q.len, FileSize - q.offset) :
             Reply(q.id, "DATA", SubSeq(Source, q.offset + 1, q.offset + n))
        \/ q.offset >= FileSize /\ Reply(q.id, "EOF", <<>>)
        \/ Reply(q.id, "FAILURE", <<>>)
    BY <1>2 DEF process_read, q
  <2>2. ASSUME NEW n \in 1 .. MinOf(q.len, FileSize - q.offset), q.offset < FileSize,
               Reply(q.id, "DATA", SubSeq(Source, q.offset + 1, q.offset + n))
        PROVE  \E r \in Answer : toClient' = Append(toClient, r) /\ r.id = q.id
                                 /\ Answers(r, q, FileSize, fails.write)
    <3> DEFINE d == SubSeq(Source, q.offset + 1, q.offset + n)
               r == [id |-> q.id, status |-> "DATA", data |-> d]
    <3>1. n \in Nat /\ n >= 1 /\ n <= q.len /\ q.offset + n <= FileSize BY <1>1, <1>3, <2>2 DEF MinOf
    <3>2. d \in Seq(Nat) /\ Len(d) = n /\ \A k \in 1 .. n : d[k] = q.offset + k
      BY <1>1, <3>1, SourceBlock
    <3>3. toClient' = Append(toClient, r) BY <2>2 DEF Reply
    <3> HIDE DEF d
    <3>4. r \in Answer BY <1>1, <3>2 DEF Answer
    <3>5. Answers(r, q, FileSize, fails.write) BY <1>1, <1>2, <3>1, <3>2 DEF Answers
    <3> QED BY <3>3, <3>4, <3>5
  <2>3. ASSUME NEW st \in {"EOF", "FAILURE"}, st = "EOF" => q.offset >= FileSize, Reply(q.id, st, <<>>)
        PROVE  \E r \in Answer : toClient' = Append(toClient, r) /\ r.id = q.id
                                 /\ Answers(r, q, FileSize, fails.write)
    <3> DEFINE r == [id |-> q.id, status |-> st, data |-> <<>>]
    <3>1. toClient' = Append(toClient, r) BY <2>3 DEF Reply
    <3>2. r \in Answer BY <1>1, EmptyCopy DEF Answer
    <3>3. Answers(r, q, FileSize, fails.write) BY <1>2, <2>3 DEF Answers
    <3> QED BY <3>1, <3>2, <3>3
  <2> QED BY <2>1, <2>2, <2>3
<1>6. PICK r \in Answer : toClient' = Append(toClient, r) /\ r.id = q.id /\ Answers(r, q, FileSize, fails.write)
  BY <1>5
<1>7. toClient' \in Seq(Answer) /\ toServer' \in Seq(Request)
  BY <1>0, <1>6, AppendFacts, RemovedFacts DEF SftpType
<1>8. SftpType' BY <1>0, <1>4, <1>7 DEF SftpType
<1>9. Matched'
  <2>1. NextId' = NextId /\ Kind' = Kind /\ FileSize' = FileSize BY DEF NextId, Kind, FileSize
  <2>2. requests \in SUBSET Request /\ toServer \in Seq(Request) /\ toClient \in Seq(Answer)
    BY <1>0 DEF SftpType
  <2>3. MatchedOf(requests, toServer, toClient, NextId, Kind, FileSize, fails.write) BY <1>0 DEF Matched
  <2>4. MatchedOf(requests, RemovedAt(toServer, i), Append(toClient, r), NextId, Kind, FileSize, fails.write)
    <3> HIDE DEF NextId, Kind, FileSize
    <3> QED BY <1>6, <2>2, <2>3, MatchedProcess DEF q
  <2> QED BY <1>4, <1>6, <2>1, <2>4 DEF Matched
<1>10. Phases' BY <1>0 DEF Phases, Running
<1>11. DownloadInv' BY <1>0, <1>4 DEF DownloadInv, Running, Downloading, FileSize
<1>12. UploadInv' BY <1>2 DEF UploadInv
<1> QED BY <1>8, <1>9, <1>10, <1>11, <1>12 DEF SftpInv

LEMMA ProcessWriteInv ==
  ASSUME SftpInv, Len(toServer) >= 1, toServer[1].type = "WRITE", process_write(toServer[1]),
         toServer' = RemovedAt(toServer, 1), UNCHANGED <<dir, c, requests, handle>>
  PROVE  SftpInv'
<1>0. /\ SftpType /\ Matched /\ Phases /\ DownloadInv /\ UploadInv BY DEF SftpInv
<1> DEFINE q == toServer[1]
<1>a. toServer \in Seq(Request) /\ Len(toServer) \in Nat /\ 1 \in 1 .. Len(toServer) BY <1>0 DEF SftpType
<1>1. /\ Running /\ q \in requests /\ q \in Request /\ q.type = Kind /\ q.id \in Nat
      /\ q.len \in Nat \ {0} /\ q.offset \in Nat
  BY <1>0, <1>a, ServerRuns
<1> HIDE DEF q
<1>2. dir = "upload" /\ handle \in {"write", "append"} /\ q.type = "WRITE"
  BY <1>0, <1>1 DEF Kind, Phases, SftpType, q
<1>3. FileSize \in Nat /\ FileSize' = FileSize BY SizeType DEF FileSize
<1>4. PICK n \in 0 .. q.len :
        /\ Reply(q.id, IF n = q.len THEN "OK" ELSE "FAILURE", <<>>)
        /\ fails' = IF n < q.len THEN [fails EXCEPT !.write = @ + 1, !.here = @ + 1] ELSE fails
        /\ copy' = Written(copy, IF handle = "append" THEN Len(copy) ELSE q.offset,
                           SubSeq(Source, q.offset + 1, q.offset + n))
  BY <1>2 DEF process_write, q
<1>5. /\ fails' \in [read : Nat, write : Nat, here : Nat]
      /\ (fails'.write = 0 => fails.write = 0 /\ n = q.len)
  <2>1. fails \in [read : Nat, write : Nat, here : Nat] BY <1>0 DEF SftpType
  <2>2. CASE n < q.len
    <3>1. fails' = [fails EXCEPT !.write = fails.write + 1, !.here = fails.here + 1] BY <1>4, <2>2
    <3>2. fails.write + 1 \in Nat /\ fails.here + 1 \in Nat /\ fails.write + 1 # 0 BY <2>1
    <3> QED BY <2>1, <3>1, <3>2
  <2>3. CASE ~(n < q.len) BY <1>1, <1>4, <2>1, <2>3
  <2> QED BY <2>2, <2>3
<1> DEFINE st == IF n = q.len THEN "OK" ELSE "FAILURE"
           r == [id |-> q.id, status |-> st, data |-> <<>>]
<1>6. st \in {"OK", "FAILURE"} /\ (fails'.write = 0 => st = "OK") BY <1>5
<1>7. toClient' = Append(toClient, r) BY <1>4 DEF Reply
<1> HIDE DEF st
<1>8. r \in Answer /\ r.id = q.id BY <1>1, <1>6, EmptyCopy DEF Answer
<1>9. Answers(r, q, FileSize, fails'.write) BY <1>2, <1>6 DEF Answers
<1> HIDE DEF r
<1>10. toClient' \in Seq(Answer) /\ toServer' \in Seq(Request)
  BY <1>0, <1>a, <1>7, <1>8, AppendFacts, RemovedFacts DEF SftpType
<1> DEFINE at == IF handle = "append" THEN Len(copy) ELSE q.offset
           d == SubSeq(Source, q.offset + 1, q.offset + n)
<1>11. copy \in Seq(Nat) /\ Len(copy) \in Nat /\ at \in Nat BY <1>0, <1>1 DEF SftpType
<1>11a. d \in Seq(Nat)
  <2>1. q.offset + q.len <= FileSize BY <1>0, <1>1, <1>2 DEF UploadInv
  <2>2. n \in Nat /\ q.offset + n <= FileSize BY <1>1, <1>3, <2>1
  <2> QED BY <1>1, <2>2, SourceBlock
<1>12. copy' \in Seq(Nat) BY <1>4, <1>11, <1>11a, WrittenFacts
<1>13. SftpType' BY <1>0, <1>5, <1>10, <1>12 DEF SftpType
<1>14. Matched'
  <2>1. NextId' = NextId /\ Kind' = Kind /\ NextId \in Nat BY <1>0, IdsNat DEF NextId, Kind
  <2>2. requests \in SUBSET Request /\ toServer \in Seq(Request) /\ toClient \in Seq(Answer)
    BY <1>0 DEF SftpType
  <2>3. MatchedOf(requests, toServer, toClient, NextId, Kind, FileSize, fails.write) BY <1>0 DEF Matched
  <2> HIDE DEF NextId, Kind, FileSize
  <2>4. MatchedOf(requests, toServer, toClient, NextId, Kind, FileSize, fails'.write)
    BY <1>5, <2>1, <2>2, <2>3, MatchedLess
  <2>5. MatchedOf(requests, RemovedAt(toServer, 1), Append(toClient, r), NextId, Kind, FileSize, fails'.write)
    BY <1>a, <1>8, <1>9, <2>2, <2>4, MatchedProcess DEF q
  <2> QED BY <1>3, <1>7, <2>1, <2>5 DEF Matched
<1>15. Phases' BY <1>0 DEF Phases, Running
<1>16. DownloadInv' BY <1>2 DEF DownloadInv
<1>17. ASSUME fails'.write = 0
       PROVE  Len(copy') <= FileSize /\ Contiguous(copy', Len(copy')) /\ Chain'
  <2>1. fails.write = 0 /\ n = q.len BY <1>5, <1>17
  <2>2. Len(copy) <= FileSize /\ Contiguous(copy, Len(copy)) /\ Chain
    BY <1>0, <1>1, <1>2, <2>1 DEF UploadInv
  <2>3. q.offset = Len(copy) /\ q.offset + q.len <= FileSize
    <3>1. toServer # <<>> BY <1>a
    <3> QED BY <1>a, <2>2, <3>1 DEF Chain, q
  <2>4. at = q.offset BY <2>3
  <2>5. d \in Seq(Nat) /\ Len(d) = q.len /\ \A k \in 1 .. q.len : d[k] = q.offset + k
    BY <1>1, <2>1, <2>3, SourceBlock
  <2>6. copy' = Written(copy, q.offset, d) BY <1>4, <2>4
  <2> HIDE DEF d, at
  <2>7. Good(copy, FileSize) BY <2>2 DEF Good, Contiguous
  <2>8. /\ \A j \in Nat : j > 0 /\ Copied(copy, j) => Copied(copy', j)
        /\ \A j \in q.offset + 1 .. q.offset + q.len : Copied(copy', j)
    BY <1>1, <1>3, <1>11, <2>3, <2>5, <2>6, <2>7, WrittenGood
  <2>9. Len(copy') = q.offset + q.len
    <3>1. d # <<>> BY <1>1, <2>5
    <3>2. Len(copy') = MaxOf(Len(copy), q.offset + q.len) BY <1>1, <1>11, <2>5, <2>6, <3>1, WrittenFacts
    <3> QED BY <1>1, <1>11, <2>3, <3>2 DEF MaxOf
  <2>10. \A j \in 1 .. Len(copy) : Copied(copy, j) BY <1>11, <2>2, ContiguousCopied
  <2>11. \A j \in 1 .. Len(copy') : Copied(copy', j)
    <3> SUFFICES ASSUME NEW j \in 1 .. Len(copy') PROVE Copied(copy', j) OBVIOUS
    <3>1. CASE j <= Len(copy) BY <1>11, <2>8, <2>10, <3>1
    <3>2. CASE j > Len(copy)
      <4>1. j \in q.offset + 1 .. q.offset + q.len BY <1>1, <1>11, <2>3, <2>9, <3>2
      <4> QED BY <2>8, <4>1
    <3> QED BY <1>11, <3>1, <3>2
  <2>12. Contiguous(copy', Len(copy')) BY <1>1, <1>12, <2>9, <2>11, ContiguousCopied
  <2>13. Chain'
    <3> DEFINE ts == toServer
               us == RemovedAt(toServer, 1)
    <3>1. /\ toServer' = us /\ us \in Seq(Request) /\ Len(us) = Len(ts) - 1
          /\ \A j \in 1 .. Len(ts) - 1 : us[j] = ts[j + 1]
      BY <1>a, RemovedFacts
    <3>2. c' = c OBVIOUS
    <3>3. /\ ts # <<>> /\ ts[Len(ts)].offset + ts[Len(ts)].len = c.offset
          /\ \A j \in 1 .. Len(ts) : /\ ts[j].offset + ts[j].len <= FileSize
                                     /\ j < Len(ts) => ts[j].offset + ts[j].len = ts[j + 1].offset
      BY <1>a, <2>2 DEF Chain
    <3> HIDE DEF us
    <3>4. us = <<>> => c'.offset = Len(copy')
      <4> SUFFICES ASSUME us = <<>> PROVE c'.offset = Len(copy') OBVIOUS
      <4>1. Len(ts) = 1 BY <1>a, <3>1
      <4> QED BY <2>9, <3>2, <3>3, <4>1 DEF q
    <3>5. us # <<>> => us[1].offset = Len(copy')
      <4> SUFFICES ASSUME us # <<>> PROVE us[1].offset = Len(copy') OBVIOUS
      <4>1. Len(ts) >= 2 BY <1>a, <3>1
      <4>2. us[1] = ts[2] /\ ts[1].offset + ts[1].len = ts[2].offset BY <1>a, <3>1, <3>3, <4>1
      <4> QED BY <2>9, <4>2 DEF q
    <3>6. us # <<>> => us[Len(us)].offset + us[Len(us)].len = c'.offset
      <4> SUFFICES ASSUME us # <<>> PROVE us[Len(us)].offset + us[Len(us)].len = c'.offset OBVIOUS
      <4>1. Len(ts) >= 2 BY <1>a, <3>1
      <4>2. us[Len(us)] = ts[Len(ts)] BY <1>a, <3>1, <4>1
      <4> QED BY <3>2, <3>3, <4>2
    <3>7. ASSUME NEW j \in 1 .. Len(us)
          PROVE  /\ us[j].offset + us[j].len <= FileSize
                 /\ j < Len(us) => us[j].offset + us[j].len = us[j + 1].offset
      <4>1. j \in Nat /\ j + 1 \in 1 .. Len(ts) /\ us[j] = ts[j + 1] BY <1>a, <3>1
      <4>2. j < Len(us) => us[j + 1] = ts[(j + 1) + 1] /\ j + 1 < Len(ts)
        <5> SUFFICES ASSUME j < Len(us) PROVE us[j + 1] = ts[(j + 1) + 1] /\ j + 1 < Len(ts) OBVIOUS
        <5>1. j + 1 \in 1 .. Len(ts) - 1 BY <1>a, <3>1, <4>1
        <5> QED BY <1>a, <3>1, <4>1, <5>1
      <4> QED BY <3>3, <4>1, <4>2
    <3> QED BY <1>3, <3>1, <3>4, <3>5, <3>6, <3>7 DEF Chain
  <2> QED BY <2>3, <2>9, <2>12, <2>13
<1>18. UploadInv'
  <2>1. c.phase \in {"loop", "wait", "end"} BY <1>1 DEF Running
  <2>2. fails'.write = 0 => fails.write = 0 BY <1>5
  <2> QED BY <1>0, <1>2, <1>3, <1>17, <2>1, <2>2 DEF UploadInv, Running
<1> QED BY <1>13, <1>14, <1>15, <1>16, <1>18 DEF SftpInv

LEMMA ProcessInv ==
  ASSUME SftpInv, process, "upload" \notin Reordering PROVE SftpInv'
<1>0. /\ SftpType /\ Matched /\ Phases BY DEF SftpInv
<1>1. toServer \in Seq(Request) BY <1>0 DEF SftpType
<1>2. PICK i \in DOMAIN toServer :
        /\ i = 1 \/ dir \in Reordering
        /\ toServer' = SubSeq(toServer, 1, i - 1) \o SubSeq(toServer, i + 1, Len(toServer))
        /\ \/ toServer[i].type = "READ" /\ process_read(toServer[i])
           \/ toServer[i].type = "WRITE" /\ process_write(toServer[i])
  BY DEF process
<1>3. i \in 1 .. Len(toServer) /\ Len(toServer) \in Nat BY <1>1
<1>4. toServer' = RemovedAt(toServer, i) /\ UNCHANGED <<dir, c, requests, handle>>
  BY <1>2 DEF process, RemovedAt
<1>5. CASE toServer[i].type = "READ" /\ process_read(toServer[i])
  BY <1>3, <1>4, <1>5, ProcessReadInv
<1>6. CASE toServer[i].type = "WRITE" /\ process_write(toServer[i])
  <2>1. toServer[i].type = Kind BY <1>0, <1>3, ServerRuns
  <2>2. dir = "upload" BY <1>0, <1>6, <2>1 DEF Kind, SftpType
  <2>3. i = 1 /\ Len(toServer) >= 1 BY <1>2, <1>3, <2>2
  <2> QED BY <1>4, <1>6, <2>3, ProcessWriteInv
<1> QED BY <1>2, <1>5, <1>6

LEMMA DownloadSendInv ==
  ASSUME SftpInv, download_send PROVE SftpInv'
<1>0. /\ SftpType /\ Matched /\ Phases /\ DownloadInv /\ UploadInv BY DEF SftpInv
<1> DEFINE max_req == IF c.interrupted THEN 0 ELSE c.max_req
           num_req == Cardinality(requests)
           n == MaxOf(0, max_req - num_req)
           new == ReadRequests(n)
<1>1. dir = "download" /\ c.phase = "loop" /\ UNCHANGED <<dir, toClient, handle, copy, fails>>
  BY DEF download_send
<1>2. /\ c \in Client /\ c.offset \in Nat /\ c.msg_id \in Nat /\ c.buflen \in Nat \ {0} /\ c.max_req \in Nat
      /\ c.interrupted \in BOOLEAN
  BY <1>0, ClientFields DEF SftpType
<1>3. num_req \in Nat /\ (num_req = 0 => requests = {})
  BY <1>0, FS_CardinalityType, FS_EmptySet DEF SftpType
<1>4. IF num_req = 0 /\ (c.max_req = 0 \/ c.interrupted)
      THEN c' = [c EXCEPT !.phase = "end"] /\ UNCHANGED <<requests, toServer>>
      ELSE /\ c' = [c EXCEPT !.phase = "wait", !.max_req = max_req, !.msg_id = @ + n,
                             !.offset = @ + n * c.buflen]
           /\ requests' = requests \cup {new[i] : i \in 1 .. n}
           /\ toServer' = toServer \o new
  BY DEF download_send
<1>5. max_req \in Nat /\ (~c.interrupted => max_req = c.max_req) BY <1>2
<1> HIDE DEF max_req, num_req
<1>6. n \in Nat BY <1>3, <1>5 DEF MaxOf
<1> HIDE DEF n, new
<1>7. FileSize' = FileSize /\ FileSize \in Nat /\ Kind' = Kind /\ Kind = "READ"
  BY <1>1, SizeType DEF FileSize, Kind
<1>8. UploadInv' BY <1>1 DEF UploadInv
<1>9. CASE num_req = 0 /\ (c.max_req = 0 \/ c.interrupted)
  <2>1. requests = {} BY <1>3, <1>9
  <2>2. c' = [c EXCEPT !.phase = "end"] /\ UNCHANGED <<requests, toServer>> BY <1>4, <1>9
  <2>3. /\ c' \in Client /\ c'.phase = "end" /\ c'.msg_id = c.msg_id /\ c'.offset = c.offset
        /\ c'.interrupted = c.interrupted
    BY <1>2, <2>2 DEF Client
  <2>3a. /\ c'.highwater = c.highwater /\ c'.write_error = c.write_error /\ c'.read_error = c.read_error
         /\ c'.max_req = c.max_req
    BY <1>2, <2>2 DEF Client
  <2>4. SftpType' BY <1>0, <1>1, <2>2, <2>3 DEF SftpType
  <2>5. Matched'
    <3>1. NextId' = NextId /\ NextId \in Nat BY <1>0, <1>1, <2>3, IdsNat DEF NextId
    <3> QED BY <1>0, <1>1, <2>2, <3>1, MatchedKept
  <2>6. Phases' BY <1>0, <1>1, <2>1, <2>2, <2>3 DEF Phases, Running
  <2>7. Downloading => Downloading' BY <1>1, <1>7, <1>9, <2>2, <2>3, <2>3a DEF Downloading
  <2>8. DownloadInv' BY <1>0, <1>1, <1>7, <2>3, <2>7 DEF DownloadInv, Running
  <2> QED BY <1>8, <2>4, <2>5, <2>6, <2>8 DEF SftpInv
<1>10. CASE ~(num_req = 0 /\ (c.max_req = 0 \/ c.interrupted))
  <2> DEFINE b == c.buflen
             m == c.msg_id + n
             o == c.offset + n * b
             at(i) == c.offset + (i - 1) * b
  <2>1. /\ c' = [c EXCEPT !.phase = "wait", !.max_req = max_req, !.msg_id = m, !.offset = o]
        /\ requests' = requests \cup {new[i] : i \in 1 .. n}
        /\ toServer' = toServer \o new
    BY <1>4, <1>10
  <2>2. b \in Nat \ {0} /\ m \in Nat BY <1>2, <1>6
  <2>2a. n * b \in Nat BY <1>6, <2>2
  <2>2b. o \in Nat /\ o >= c.offset BY <1>2, <2>2a
  <2>3. \A i \in 1 .. n : at(i) \in Nat /\ at(i) + b <= o
    <3> SUFFICES ASSUME NEW i \in 1 .. n PROVE at(i) \in Nat /\ at(i) + b <= o OBVIOUS
    <3>1. (i - 1) * b \in Nat /\ (i - 1) * b + b = i * b /\ i * b <= n * b /\ i * b \in Nat
      BY <1>6, <2>2, Multiples
    <3> HIDE DEF b
    <3> QED BY <1>2, <2>2, <2>2a, <3>1
  <2>3a. \A i \in Nat : c.offset < i /\ i <= o => \E k \in 1 .. n : at(k) < i /\ i <= at(k) + b
    <3> SUFFICES ASSUME NEW i \in Nat, c.offset < i, i <= o
                 PROVE  \E k \in 1 .. n : at(k) < i /\ i <= at(k) + b
      OBVIOUS
    <3>1. PICK d \in Nat : i = c.offset + d + 1 /\ d < n * b
      <4>1. i - c.offset - 1 \in Nat /\ i - c.offset - 1 < n * b BY <1>2, <2>2a
      <4>2. i = c.offset + (i - c.offset - 1) + 1 BY <1>2
      <4> QED BY <4>1, <4>2
    <3>2. PICK k \in 1 .. n : (k - 1) * b <= d /\ d < (k - 1) * b + b BY <1>6, <2>2, <3>1, BlockOf
    <3>3. (k - 1) * b \in Nat BY <1>6, <2>2, Multiples
    <3> HIDE DEF b
    <3>4. at(k) < i /\ i <= at(k) + b BY <1>2, <2>2, <3>1, <3>2, <3>3
    <3> QED BY <3>4
  <2> HIDE DEF o, at, b
  <2>4. c' \in Client BY <1>2, <1>5, <2>1, <2>2, <2>2b DEF Client
  <2>5. c'.phase = "wait" /\ c'.msg_id = m /\ c'.offset = o /\ c'.max_req = max_req
    BY <1>2, <2>1 DEF Client
  <2>5a. /\ c'.highwater = c.highwater /\ c'.write_error = c.write_error /\ c'.read_error = c.read_error
         /\ c'.interrupted = c.interrupted
    BY <1>2, <2>1 DEF Client
  <2>6. /\ new \in Seq(Request) /\ Len(new) = n
        /\ \A i \in 1 .. n : /\ new[i].id = c.msg_id + i - 1 /\ new[i].type = "READ"
                             /\ new[i].offset = at(i) /\ new[i].len = b
    <3> DEFINE req(i) == [type |-> "READ", id |-> c.msg_id + i - 1, len |-> b, offset |-> at(i)]
    <3>1. new = [i \in 1 .. n |-> req(i)] BY DEF new, ReadRequests, at, b
    <3>2. \A i \in 1 .. n : req(i) \in Request
      <4> SUFFICES ASSUME NEW i \in 1 .. n PROVE req(i) \in Request OBVIOUS
      <4>1. c.msg_id + i - 1 \in Nat BY <1>2, <1>6
      <4> QED BY <2>2, <2>3, <4>1 DEF Request
    <3>3. \A i \in 1 .. n : /\ req(i).id = c.msg_id + i - 1 /\ req(i).type = "READ"
                            /\ req(i).offset = at(i) /\ req(i).len = b
      OBVIOUS
    <3> HIDE DEF req
    <3>4. new \in Seq(Request) /\ Len(new) = n /\ \A i \in 1 .. n : new[i] = req(i)
      BY <1>6, <3>1, <3>2
    <3> QED BY <3>3, <3>4
  <2>7. requests' \subseteq Request /\ IsFiniteSet(requests')
    <3>1. requests \subseteq Request /\ IsFiniteSet(requests) BY <1>0 DEF SftpType
    <3>2. IsFiniteSet({new[i] : i \in 1 .. n})
      <4>1. IsFiniteSet(1 .. n) BY <1>6, FS_Interval
      <4> DEFINE T == {new[i] : i \in 1 .. n}
                 f == [i \in 1 .. n |-> new[i]]
      <4>2. f \in [1 .. n -> T] /\ \A t \in T : \E i \in 1 .. n : f[i] = t OBVIOUS
      <4>3. f \in Surjection(1 .. n, T) BY <4>2 DEF Surjection
      <4> HIDE DEF T, f
      <4>4. IsFiniteSet(T) BY <4>1, <4>3, FS_Surjection
      <4> QED BY <4>4 DEF T
    <3>3. IsFiniteSet(requests \cup {new[i] : i \in 1 .. n}) BY <3>1, <3>2, FS_Union
    <3>4. \A i \in 1 .. n : new[i] \in Request BY <2>6
    <3> QED BY <2>1, <3>1, <3>3, <3>4
  <2>8. toServer \in Seq(Request) /\ toServer' \in Seq(Request)
    BY <1>0, <2>1, <2>6, ConcatFacts DEF SftpType
  <2>9. SftpType' BY <1>0, <1>1, <2>4, <2>7, <2>8 DEF SftpType
  <2>10. Phases' BY <1>0, <1>1, <2>5 DEF Phases, Running
  <2>11. Matched'
    <3>1. NextId = c.msg_id /\ NextId' = NextId + n /\ NextId \in Nat BY <1>1, <1>2, <2>5 DEF NextId
    <3>2. requests \in SUBSET Request /\ toClient \in Seq(Answer) BY <1>0 DEF SftpType
    <3>3. MatchedOf(requests, toServer, toClient, NextId, Kind, FileSize, fails.write) BY <1>0 DEF Matched
    <3>4. \A i \in 1 .. n : new[i].id = NextId + i - 1 /\ new[i].type = Kind BY <1>7, <2>6, <3>1
    <3>5. MatchedOf(requests \cup {new[i] : i \in 1 .. n}, toServer \o new, toClient, NextId + n, Kind,
                    FileSize, fails.write)
      <4> HIDE DEF NextId, Kind, FileSize
      <4> QED BY <1>6, <2>6, <2>8, <3>1, <3>2, <3>3, <3>4, MatchedSend
    <3> QED BY <1>1, <1>7, <2>1, <3>1, <3>5 DEF Matched
  <2>12. ASSUME Downloading PROVE Downloading'
    <3>1. \A q \in requests' : q.offset + q.len <= c'.offset
      <4>1. \A q \in requests : q.offset \in Nat /\ q.len \in Nat /\ q.offset + q.len <= c.offset
        BY <1>0, <2>12 DEF Downloading, SftpType, Request
      <4>2. \A q \in requests : q.offset + q.len <= o BY <1>2, <2>2b, <4>1
      <4>3. \A i \in 1 .. n : new[i].offset + new[i].len <= o BY <2>3, <2>6
      <4> QED BY <2>1, <2>5, <4>2, <4>3
    <3>2. \A p \in requests : p \in requests' BY <2>1
    <3>3. \A i \in 1 .. n : new[i] \in requests' BY <2>1
    <3>4. ASSUME ~c.read_error, ~c.write_error, NEW i \in 1 .. FileSize, i <= o
          PROVE  Covered(i, copy, requests')
      <4>1. CASE i <= c.offset
        <5>1. Covered(i, copy, requests) BY <2>12, <3>4, <4>1 DEF Downloading
        <5> QED BY <3>2, <5>1 DEF Covered
      <4>2. CASE i > c.offset
        <5>1. i \in Nat BY <1>7
        <5>2. PICK k \in 1 .. n : at(k) < i /\ i <= at(k) + b BY <2>3a, <3>4, <4>2, <5>1
        <5>3. new[k].offset < i /\ i <= new[k].offset + new[k].len BY <2>6, <5>2
        <5> QED BY <3>3, <5>3 DEF Covered
      <4> QED BY <1>2, <1>7, <4>1, <4>2
    <3>5. ~c.read_error /\ ~c.write_error /\ max_req = 0 /\ ~c.interrupted => o >= FileSize
      BY <1>2, <1>5, <1>7, <2>2b, <2>12 DEF Downloading
    <3>6. Contiguous(copy, c.highwater) /\ (c.write_error => fails.write > 0) BY <2>12 DEF Downloading
    <3> QED BY <1>1, <1>7, <2>5, <2>5a, <3>1, <3>4, <3>5, <3>6 DEF Downloading
  <2>13. DownloadInv' BY <1>0, <1>1, <1>7, <2>5, <2>12 DEF DownloadInv, Running
  <2> QED BY <1>8, <2>9, <2>10, <2>11, <2>13 DEF SftpInv
<1> QED BY <1>9, <1>10

LEMMA WindowFacts ==
  ASSUME SftpType, NEW m \in Nat, NEW off \in Nat
  PROVE  Window(m, off) \in Nat /\ (Window(m, off) = 0 => m = 0)
BY DEF Window

LEMMA DownloadStatusInv ==
  ASSUME SftpInv, dir = "download", c.phase = "wait", toClient # <<>>, toClient' = Tail(toClient),
         UNCHANGED <<dir, handle>>, NEW q \in requests, q.id = Head(toClient).id,
         Head(toClient).status # "DATA", download_status(q, Head(toClient).status)
  PROVE  SftpInv'
<1>0. /\ SftpType /\ Matched /\ Phases /\ DownloadInv /\ UploadInv BY DEF SftpInv
<1> DEFINE r == Head(toClient)
           e == c.read_error \/ r.status # "EOF"
<1>1. /\ c' = [c EXCEPT !.phase = "loop", !.max_req = 0, !.read_error = e]
      /\ requests' = Without(r.id) /\ UNCHANGED <<toServer, copy, fails>>
  BY DEF download_status
<1>2. c \in Client /\ c.offset \in Nat /\ e \in BOOLEAN BY <1>0, ClientFields DEF SftpType
<1>3. r \in Answer /\ Answers(r, q, FileSize, fails.write) /\ \A p \in requests : p.id = q.id => p = q
  BY <1>0, ReplyFound
<1>3a. ~e => ~c.read_error /\ r.status = "EOF" OBVIOUS
<1> HIDE DEF r, e
<1>4. c' \in Client BY <1>1, <1>2 DEF Client
<1>5. /\ c'.phase = "loop" /\ c'.msg_id = c.msg_id /\ c'.offset = c.offset /\ c'.max_req = 0
      /\ c'.read_error = e
  BY <1>1, <1>2 DEF Client
<1>6. c'.highwater = c.highwater /\ c'.write_error = c.write_error /\ c'.interrupted = c.interrupted
  BY <1>1, <1>2 DEF Client
<1>7. /\ requests' \subseteq Request /\ IsFiniteSet(requests') /\ requests' \subseteq requests
      /\ toClient' \in Seq(Answer)
  BY <1>0, <1>1, WithoutFacts, TailFacts DEF SftpType
<1>8. SftpType' BY <1>0, <1>1, <1>4, <1>7 DEF SftpType
<1>9. FileSize' = FileSize /\ FileSize \in Nat /\ Kind' = Kind BY SizeType DEF FileSize, Kind
<1>10. Matched'
  <2>1. NextId' = NextId BY <1>5 DEF NextId
  <2>2. requests \in SUBSET Request /\ toServer \in Seq(Request) /\ toClient \in Seq(Answer)
    BY <1>0 DEF SftpType
  <2>3. MatchedOf(requests, toServer, toClient, NextId, Kind, FileSize, fails.write) BY <1>0 DEF Matched
  <2>4. MatchedOf({p \in requests : p.id # r.id}, toServer, Tail(toClient), NextId, Kind, FileSize, fails.write)
    <3> HIDE DEF NextId, Kind, FileSize
    <3> QED BY <2>2, <2>3, MatchedReply DEF r
  <2> QED BY <1>1, <1>9, <2>1, <2>4 DEF Matched, Without
<1>11. Phases' BY <1>0, <1>5 DEF Phases, Running
<1>12. UploadInv' BY DEF UploadInv
<1>13. ASSUME Downloading PROVE Downloading'
  <2>1. q.offset \in Nat /\ q.len \in Nat \ {0} /\ q.offset + q.len <= c.offset
    BY <1>0, <1>13 DEF Downloading, SftpType, Request
  <2>2. ~e => q.offset >= FileSize BY <1>3, <1>3a DEF Answers
  <2>3. ~e => c.offset >= FileSize BY <1>2, <1>9, <2>1, <2>2
  <2>4. ASSUME ~e, ~c.write_error, NEW i \in 1 .. FileSize, i <= c.offset
        PROVE  Covered(i, copy, requests')
    <3>1. Covered(i, copy, requests) BY <1>3a, <1>13, <2>4 DEF Downloading
    <3>2. ~(q.offset < i) BY <1>9, <2>1, <2>2, <2>4
    <3>3. \A p \in requests : p # q => p \in requests' BY <1>1, <1>3 DEF Without, r
    <3> QED BY <3>1, <3>2, <3>3 DEF Covered
  <2>5. \A p \in requests' : p.offset + p.len <= c'.offset BY <1>5, <1>7, <1>13 DEF Downloading
  <2>6. Contiguous(copy, c.highwater) /\ (c.write_error => fails.write > 0) BY <1>13 DEF Downloading
  <2> QED BY <1>1, <1>5, <1>6, <1>9, <2>3, <2>4, <2>5, <2>6 DEF Downloading
<1>14. DownloadInv' BY <1>0, <1>1, <1>5, <1>9, <1>13 DEF DownloadInv, Running
<1> QED BY <1>8, <1>10, <1>11, <1>12, <1>14 DEF SftpInv

LEMMA DownloadDataInv ==
  ASSUME SftpInv, dir = "download", c.phase = "wait", toClient # <<>>, toClient' = Tail(toClient),
         UNCHANGED <<dir, handle>>, NEW q \in requests, q.id = Head(toClient).id,
         Head(toClient).status = "DATA", NEW n \in 0 .. Len(Head(toClient).data),
         download_data(q, Head(toClient).data, n)
  PROVE  SftpInv'
<1>0. /\ SftpType /\ Matched /\ Phases /\ DownloadInv /\ UploadInv BY DEF SftpInv
<1> DEFINE r == Head(toClient)
           data == r.data
           len == Len(data)
           short == len < q.len
           c1 == BlockWritten(c, q.offset, len, n)
           bl == IF short /\ len < c1.buflen THEN MaxOf(MIN_READ_SIZE, len) ELSE c1.buflen
           mi == IF short THEN c1.msg_id + 1 ELSE c1.msg_id
           c2 == [c1 EXCEPT !.phase = "loop", !.msg_id = mi, !.buflen = bl]
           rest == [q EXCEPT !.id = c.msg_id, !.len = @ - len, !.offset = @ + len]
<1>1. /\ copy' = Written(copy, q.offset, SubSeq(data, 1, n))
      /\ c' = [c2 EXCEPT !.max_req = Window(c2.max_req, c.offset)]
      /\ fails' = IF n < len THEN [fails EXCEPT !.write = @ + 1, !.here = @ + 1] ELSE fails
      /\ IF short THEN ShortBlock(q, len) ELSE requests' = Without(q.id) /\ UNCHANGED toServer
  BY DEF download_data
<1>2. /\ c \in Client /\ c.offset \in Nat /\ c.msg_id \in Nat /\ c.write_error \in BOOLEAN
      /\ c.highwater \in Nat
  BY <1>0, ClientFields DEF SftpType
<1>3. r \in Answer /\ Answers(r, q, FileSize, fails.write) /\ \A p \in requests : p.id = q.id => p = q
  BY <1>0, ReplyFound
<1>4. /\ q \in Request /\ q.offset \in Nat /\ q.len \in Nat \ {0} /\ q.id \in Nat /\ q.type = "READ"
  <2>1. q \in Request BY <1>0 DEF SftpType
  <2>2. q.type = Kind BY <1>0 DEF Matched, MatchedOf
  <2> QED BY <2>1, <2>2 DEF Request, Kind
<1>5. FileSize' = FileSize /\ FileSize \in Nat /\ Kind' = Kind /\ Kind = "READ" BY SizeType DEF FileSize, Kind
<1>6. /\ data \in Seq(Nat) /\ len \in Nat /\ len >= 1 /\ len <= q.len /\ q.offset + len <= FileSize
      /\ \A k \in 1 .. len : data[k] = q.offset + k
  BY <1>3, <1>4, <1>5 DEF Answers, Answer
<1>7. n \in Nat /\ n <= len BY <1>6
<1>8. q.id = r.id OBVIOUS
<1> HIDE DEF r, data, len
<1>9. /\ c1 \in Client /\ c1.offset = c.offset /\ c1.msg_id = c.msg_id /\ c1.interrupted = c.interrupted
      /\ c1.read_error = c.read_error /\ (c1.write_error <=> c.write_error \/ n # len)
      /\ c1.max_req = 0 => c.max_req = 0 \/ c1.write_error
      /\ \/ c1.highwater = c.highwater
         \/ c1.highwater = q.offset + len /\ q.offset <= c.highwater /\ (n = len \/ c.write_error)
  <2>0. c.write_error \in BOOLEAN /\ q.offset + len \in Nat BY <1>2, <1>4, <1>6
  <2>1. CASE n # len /\ ~c.write_error
    <3>1. c1 = [c EXCEPT !.write_error = TRUE, !.max_req = 0] BY <2>1 DEF BlockWritten
    <3> HIDE DEF c1
    <3>2. c1 \in Client
      <4> DEFINE z == [c EXCEPT !.write_error = TRUE]
      <4>1. z \in Client BY <1>2 DEF Client
      <4>2. c1 = [z EXCEPT !.max_req = 0] BY <3>1
      <4> HIDE DEF z
      <4>3. 0 \in Nat OBVIOUS
      <4> QED BY <4>1, <4>2, <4>3 DEF Client
    <3>3. c1.offset = c.offset /\ c1.msg_id = c.msg_id /\ c1.interrupted = c.interrupted BY <1>2, <3>1 DEF Client
    <3>4. c1.read_error = c.read_error /\ c1.write_error = TRUE /\ c1.highwater = c.highwater BY <1>2, <3>1 DEF Client
    <3> QED BY <2>1, <3>2, <3>3, <3>4 DEF c1
  <2>2. CASE ~(n # len /\ ~c.write_error) /\ ~c.reordered /\ q.offset <= c.highwater
    <3>1. c1 = [c EXCEPT !.highwater = q.offset + len] BY <2>2 DEF BlockWritten
    <3> HIDE DEF c1
    <3>2. c1 \in Client BY <1>2, <2>0, <3>1 DEF Client
    <3>3. c1.offset = c.offset /\ c1.msg_id = c.msg_id /\ c1.interrupted = c.interrupted BY <1>2, <3>1 DEF Client
    <3>4. /\ c1.read_error = c.read_error /\ c1.write_error = c.write_error /\ c1.highwater = q.offset + len
          /\ c1.max_req = c.max_req
      BY <1>2, <3>1 DEF Client
    <3>5. n # len => c.write_error BY <2>0, <2>2
    <3> QED BY <2>2, <3>2, <3>3, <3>4, <3>5 DEF c1
  <2>3. CASE ~(n # len /\ ~c.write_error) /\ ~c.reordered /\ ~(q.offset <= c.highwater)
    <3>1. c1 = [c EXCEPT !.reordered = TRUE] BY <2>3 DEF BlockWritten
    <3> HIDE DEF c1
    <3>2. c1 \in Client BY <1>2, <3>1 DEF Client
    <3>3. c1.offset = c.offset /\ c1.msg_id = c.msg_id /\ c1.interrupted = c.interrupted BY <1>2, <3>1 DEF Client
    <3>4. /\ c1.read_error = c.read_error /\ c1.write_error = c.write_error /\ c1.highwater = c.highwater
          /\ c1.max_req = c.max_req
      BY <1>2, <3>1 DEF Client
    <3>5. n # len => c.write_error BY <2>0, <2>3
    <3> QED BY <3>2, <3>3, <3>4, <3>5 DEF c1
  <2>4. CASE ~(n # len /\ ~c.write_error) /\ c.reordered
    <3>1. c1 = c BY <2>4 DEF BlockWritten
    <3> HIDE DEF c1
    <3>5. n # len => c.write_error BY <2>0, <2>4
    <3> QED BY <1>2, <3>1, <3>5
  <2> QED BY <2>1, <2>2, <2>3, <2>4
<1> HIDE DEF c1
<1>10. bl \in Nat \ {0} /\ mi \in Nat
  <2>1. c1.buflen \in Nat \ {0} /\ c1.msg_id \in Nat BY <1>9, ClientFields
  <2>2. MIN_READ_SIZE \in Nat \ {0} BY SftpAssumption
  <2> QED BY <1>6, <2>1, <2>2 DEF MaxOf
<1>10a. mi = (IF short THEN c.msg_id + 1 ELSE c.msg_id) BY <1>9
<1> HIDE DEF bl, mi
<1>11. c2 \in Client BY <1>9, <1>10 DEF Client
<1>12. /\ c2.phase = "loop" /\ c2.msg_id = mi /\ c2.offset = c1.offset /\ c2.interrupted = c1.interrupted
       /\ c2.max_req = c1.max_req
  BY <1>9 DEF Client
<1>13. c2.read_error = c1.read_error /\ c2.write_error = c1.write_error /\ c2.highwater = c1.highwater
  BY <1>9 DEF Client
<1> HIDE DEF c2
<1>14. Window(c2.max_req, c.offset) \in Nat /\ (Window(c2.max_req, c.offset) = 0 => c2.max_req = 0)
  BY <1>0, <1>2, <1>11, ClientFields, WindowFacts
<1>15. c' \in Client BY <1>1, <1>11, <1>14 DEF Client
<1>16. /\ c'.phase = "loop" /\ c'.msg_id = mi /\ c'.offset = c.offset /\ c'.interrupted = c.interrupted
       /\ c'.max_req = Window(c2.max_req, c.offset)
  BY <1>1, <1>9, <1>11, <1>12 DEF Client
<1>17. /\ c'.read_error = c.read_error /\ (c'.write_error <=> c.write_error \/ n # len)
       /\ c'.highwater = c1.highwater
  BY <1>1, <1>9, <1>11, <1>13 DEF Client
<1>18. c'.max_req = 0 => c.max_req = 0 \/ c'.write_error
  BY <1>9, <1>12, <1>14, <1>16, <1>17
<1>19. /\ fails' \in [read : Nat, write : Nat, here : Nat] /\ fails'.write >= fails.write
       /\ fails.write \in Nat /\ (n # len => fails'.write = fails.write + 1)
  <2>1. fails \in [read : Nat, write : Nat, here : Nat] /\ fails.write \in Nat BY <1>0 DEF SftpType
  <2>2. CASE n < len
    <3>1. fails' = [fails EXCEPT !.write = fails.write + 1, !.here = fails.here + 1] BY <1>1, <2>2 DEF len
    <3>2. fails.write + 1 \in Nat /\ fails.here + 1 \in Nat BY <2>1
    <3>3. fails' \in [read : Nat, write : Nat, here : Nat] BY <2>1, <3>1, <3>2
    <3>4. fails'.write = fails.write + 1 BY <2>1, <3>1
    <3> QED BY <2>1, <3>3, <3>4
  <2>3. CASE ~(n < len) BY <1>1, <1>6, <1>7, <2>1, <2>3 DEF len
  <2> QED BY <2>2, <2>3
<1> DEFINE d == SubSeq(data, 1, n)
<1>20. d \in Seq(Nat) /\ Len(d) = n /\ \A k \in 1 .. n : d[k] = q.offset + k
  <2>1. Len(data) = len BY DEF len
  <2>2. d \in Seq(Nat) /\ Len(d) = n /\ \A k \in 1 .. n : d[k] = data[k] BY <1>6, <1>7, <2>1
  <2> QED BY <1>6, <1>7, <2>2
<1>20a. copy' = Written(copy, q.offset, d) BY <1>1
<1> HIDE DEF d
<1>21. copy \in Seq(Nat) /\ copy' \in Seq(Nat) BY <1>0, <1>4, <1>20, <1>20a, WrittenFacts DEF SftpType
<1>22. short => rest \in Request /\ rest.id = c.msg_id /\ rest.type = "READ"
                /\ rest.offset = q.offset + len /\ rest.len = q.len - len
  <2> SUFFICES ASSUME short PROVE /\ rest \in Request /\ rest.id = c.msg_id /\ rest.type = "READ"
                                  /\ rest.offset = q.offset + len /\ rest.len = q.len - len
    OBVIOUS
  <2>1. q.len - len \in Nat \ {0} /\ q.offset + len \in Nat BY <1>4, <1>6
  <2> QED BY <1>2, <1>4, <2>1 DEF Request
<1>23. /\ short => requests' = Without(q.id) \cup {rest} /\ toServer' = Append(toServer, rest)
       /\ ~short => requests' = Without(q.id) /\ toServer' = toServer
  BY <1>1 DEF ShortBlock, len
<1> HIDE DEF rest, short
<1>24. Without(q.id) \subseteq Request /\ IsFiniteSet(Without(q.id)) /\ Without(q.id) \subseteq requests
  BY <1>0, WithoutFacts
<1>25. requests' \subseteq Request /\ IsFiniteSet(requests')
  <2>1. IsFiniteSet(Without(q.id) \cup {rest}) BY <1>24, FS_AddElement
  <2>2. CASE short BY <1>22, <1>23, <1>24, <2>1, <2>2
  <2>3. CASE ~short BY <1>23, <1>24, <2>3
  <2> QED BY <2>2, <2>3
<1>26. toServer \in Seq(Request) /\ toClient \in Seq(Answer) /\ toServer' \in Seq(Request) /\ toClient' \in Seq(Answer)
  <2>1. toServer \in Seq(Request) /\ toClient \in Seq(Answer) BY <1>0 DEF SftpType
  <2>2. toClient' \in Seq(Answer) BY <2>1, TailFacts
  <2>3. CASE short BY <1>22, <1>23, <2>1, <2>2, <2>3, AppendFacts
  <2>4. CASE ~short BY <1>23, <2>1, <2>2, <2>4
  <2> QED BY <2>3, <2>4
<1>27. SftpType' BY <1>0, <1>15, <1>19, <1>21, <1>25, <1>26 DEF SftpType
<1>28. Phases' BY <1>0, <1>16 DEF Phases, Running
<1>29. UploadInv' BY DEF UploadInv
<1>30. Matched'
  <2>1. NextId = c.msg_id /\ NextId' = mi /\ NextId \in Nat BY <1>2, <1>16 DEF NextId
  <2>2. requests \in SUBSET Request BY <1>0 DEF SftpType
  <2>3. MatchedOf(requests, toServer, toClient, NextId, Kind, FileSize, fails.write) BY <1>0 DEF Matched
  <2>4. fails'.write = 0 => fails.write = 0 BY <1>19
  <2> HIDE DEF NextId, Kind, FileSize
  <2>5. MatchedOf({p \in requests : p.id # q.id}, toServer, Tail(toClient), NextId, Kind, FileSize, fails.write)
    BY <1>8, <1>26, <2>2, <2>3, MatchedReply DEF r
  <2>6. MatchedOf(Without(q.id), toServer, toClient', NextId, Kind, FileSize, fails'.write)
    BY <1>24, <2>1, <2>4, <2>5, MatchedLess DEF Without
  <2>7. CASE short
    <3>1. MatchedOf(Without(q.id) \cup {rest}, Append(toServer, rest), toClient', NextId + 1, Kind, FileSize,
                    fails'.write)
      BY <1>5, <1>22, <1>24, <1>26, <2>1, <2>6, <2>7, MatchedSend1
    <3>2. NextId' = NextId + 1 BY <1>10a, <2>1, <2>7
    <3> QED BY <1>5, <1>23, <2>7, <3>1, <3>2 DEF Matched
  <2>8. CASE ~short
    <3>1. NextId' = NextId BY <1>10a, <2>1, <2>8
    <3> QED BY <1>5, <1>23, <2>6, <2>8, <3>1 DEF Matched
  <2> QED BY <2>7, <2>8
<1>31. ASSUME fails'.write <= 1 PROVE Good(copy', FileSize) /\ Downloading'
  <2>1. fails.write <= 1 BY <1>19, <1>31
  <2>2. Good(copy, FileSize) /\ Downloading BY <1>0, <2>1 DEF DownloadInv, Running
  <2>3. n # len => ~c.write_error BY <1>19, <1>31, <2>2 DEF Downloading
  <2>4. /\ Good(copy', FileSize)
        /\ \A i \in Nat : i > 0 /\ Copied(copy, i) => Copied(copy', i)
        /\ \A i \in q.offset + 1 .. q.offset + n : Copied(copy', i)
    <3>1. q.offset + n <= FileSize BY <1>4, <1>5, <1>6, <1>7
    <3> QED BY <1>4, <1>5, <1>20, <1>20a, <1>21, <2>2, <3>1, WrittenGood
  <2>5. q.offset + q.len <= c.offset /\ \A p \in requests : p.offset + p.len <= c.offset
    BY <2>2 DEF Downloading
  <2>6. \A p \in requests' : p.offset + p.len <= c'.offset
    <3>1. short => rest.offset + rest.len = q.offset + q.len BY <1>4, <1>6, <1>22
    <3> QED BY <1>16, <1>23, <1>24, <2>5, <3>1
  <2>7. Contiguous(copy', c'.highwater)
    <3>1. \A i \in 1 .. c.highwater : Copied(copy, i)
      BY <1>2, <1>21, <2>2, ContiguousCopied DEF Downloading
    <3>2. \A i \in 1 .. c.highwater : Copied(copy', i) BY <1>2, <2>4, <3>1
    <3>3. CASE c1.highwater = c.highwater BY <1>2, <1>17, <1>21, <3>2, <3>3, ContiguousCopied
    <3>4. CASE c1.highwater = q.offset + len /\ q.offset <= c.highwater /\ (n = len \/ c.write_error)
      <4>1. n = len BY <2>3, <3>4
      <4>2. \A i \in 1 .. q.offset + len : Copied(copy', i)
        <5> SUFFICES ASSUME NEW i \in 1 .. q.offset + len PROVE Copied(copy', i) OBVIOUS
        <5>1. CASE i <= q.offset BY <1>2, <1>4, <1>6, <3>2, <3>4, <5>1
        <5>2. CASE i > q.offset
          <6>1. i \in q.offset + 1 .. q.offset + n BY <1>4, <1>6, <4>1, <5>2
          <6> QED BY <2>4, <6>1
        <5> QED BY <1>4, <1>6, <5>1, <5>2
      <4>3. q.offset + len \in Nat BY <1>4, <1>6
      <4> QED BY <1>17, <1>21, <3>4, <4>2, <4>3, ContiguousCopied
    <3> QED BY <1>9, <3>3, <3>4
  <2>8. c'.write_error => fails'.write > 0
    <3>1. c.write_error => fails.write > 0 BY <2>2 DEF Downloading
    <3>2. CASE n = len BY <1>2, <1>17, <1>19, <3>1, <3>2
    <3>3. CASE n # len BY <1>19, <3>3
    <3> QED BY <3>2, <3>3
  <2>9. ASSUME ~c'.read_error, ~c'.write_error, NEW i \in 1 .. FileSize, i <= c'.offset
        PROVE  Covered(i, copy', requests')
    <3>1. n = len /\ ~c.read_error /\ ~c.write_error BY <1>17, <2>9
    <3>2. Covered(i, copy, requests) BY <1>16, <2>2, <2>9, <3>1 DEF Downloading
    <3>3. i \in Nat /\ i > 0 BY <1>5
    <3>4. CASE Copied(copy, i) BY <2>4, <3>3, <3>4 DEF Covered
    <3>5. ASSUME NEW p \in requests, p # q, p.offset < i, i <= p.offset + p.len
          PROVE  Covered(i, copy', requests')
      <4>1. p \in Without(q.id) BY <1>3, <3>5 DEF Without
      <4>2. p \in requests' BY <1>23, <4>1
      <4> QED BY <3>5, <4>2 DEF Covered
    <3>6. CASE q.offset < i /\ i <= q.offset + q.len
      <4>1. CASE i <= q.offset + len
        <5>1. i \in q.offset + 1 .. q.offset + n BY <1>4, <1>6, <3>1, <3>3, <3>6, <4>1
        <5> QED BY <2>4, <5>1 DEF Covered
      <4>2. CASE i > q.offset + len
        <5>1. short BY <1>4, <1>6, <3>3, <3>6, <4>2 DEF short
        <5>2. rest.offset < i /\ i <= rest.offset + rest.len BY <1>4, <1>6, <1>22, <3>3, <3>6, <4>2, <5>1
        <5>3. rest \in requests' BY <1>23, <5>1
        <5> QED BY <5>2, <5>3 DEF Covered
      <4> QED BY <1>4, <1>6, <3>3, <4>1, <4>2
    <3> QED BY <3>2, <3>4, <3>5, <3>6 DEF Covered
  <2>10. ~c'.read_error /\ ~c'.write_error /\ c'.max_req = 0 /\ ~c'.interrupted => c'.offset >= FileSize
    BY <1>16, <1>17, <1>18, <2>2 DEF Downloading
  <2> QED BY <1>5, <1>16, <2>4, <2>6, <2>7, <2>8, <2>9, <2>10 DEF Downloading
<1>32. DownloadInv' BY <1>5, <1>16, <1>31 DEF DownloadInv, Running
<1> QED BY <1>27, <1>28, <1>29, <1>30, <1>32 DEF SftpInv

LEMMA DownloadReplyInv ==
  ASSUME SftpInv, download_reply PROVE SftpInv'
<1>0. SftpType /\ Matched BY DEF SftpInv
<1>1. /\ dir = "download" /\ c.phase = "wait" /\ toClient # <<>> /\ toClient' = Tail(toClient)
      /\ UNCHANGED <<dir, handle>>
  BY DEF download_reply
<1>2. \E q \in requests : q.id = Head(toClient).id BY <1>0, <1>1, ReplyFound
<1>3. PICK q \in requests :
        /\ q.id = Head(toClient).id
        /\ \/ Head(toClient).status # "DATA" /\ download_status(q, Head(toClient).status)
           \/ /\ Head(toClient).status = "DATA"
              /\ \E n \in 0 .. Len(Head(toClient).data) : download_data(q, Head(toClient).data, n)
  BY <1>2 DEF download_reply
<1>4. CASE Head(toClient).status # "DATA" BY <1>1, <1>3, <1>4, DownloadStatusInv
<1>5. CASE Head(toClient).status = "DATA" BY <1>1, <1>3, <1>5, DownloadDataInv
<1> QED BY <1>4, <1>5

----------------------------------------------------------------------------
LEMMA SftpInit == Init => SftpInv
<1> SUFFICES ASSUME Init PROVE SftpInv OBVIOUS
<1>1. /\ dir \in Directions /\ requests = {} /\ toServer = <<>> /\ toClient = <<>>
      /\ handle = "unused" /\ copy = <<>> /\ fails = [read |-> 0, write |-> 0, here |-> 0]
  BY DEF Init
<1>2. c \in Client /\ c.phase = "idle" /\ c.result = "none"
  BY SftpAssumption DEF Init, Client
<1>3. SftpType
  <2>1. IsFiniteSet({}) BY FS_EmptySet
  <2>2. dir \in {"download", "upload"} BY <1>1, SftpAssumption
  <2>3. <<>> \in Seq(Request) /\ <<>> \in Seq(Answer) /\ <<>> \in Seq(Nat) OBVIOUS
  <2> QED BY <1>1, <1>2, <2>1, <2>2, <2>3 DEF SftpType
<1>4. Matched BY <1>1, MatchedEmpty DEF Matched
<1>5. Phases BY <1>1, <1>2 DEF Phases, Running
<1>6. FileSize \in Nat BY SizeType
<1>7. DownloadInv BY <1>1, <1>2, <1>6, EmptyCopy DEF DownloadInv, Running
<1>8. UploadInv BY <1>1, <1>2, <1>6, EmptyCopy DEF UploadInv, Running
<1> QED BY <1>3, <1>4, <1>5, <1>7, <1>8 DEF SftpInv

LEMMA SftpStep ==
  ASSUME "upload" \notin Reordering PROVE SftpInv /\ [Next]_vars => SftpInv'
<1> SUFFICES ASSUME SftpInv, [Next]_vars PROVE SftpInv' OBVIOUS
<1>1. CASE UNCHANGED vars
  BY <1>1 DEF vars, SftpInv, SftpType, Matched, NextId, Kind, FileSize, Phases, Running, DownloadInv,
     Downloading, UploadInv, Chain
<1>2. CASE get BY <1>2, GetInv
<1>3. CASE download_send BY <1>3, DownloadSendInv
<1>4. CASE download_reply BY <1>4, DownloadReplyInv
<1>5. CASE download_end BY <1>5, DownloadEndInv
<1>6. CASE put BY <1>6, PutInv
<1>7. CASE upload_send BY <1>7, UploadSendInv
<1>8. CASE upload_reply BY <1>8, UploadReplyInv
<1>9. CASE upload_end BY <1>9, UploadEndInv
<1>10. CASE process BY <1>10, ProcessInv
<1>11. CASE cmd_interrupt BY <1>11, InterruptInv
<1> QED BY <1>1, <1>2, <1>3, <1>4, <1>5, <1>6, <1>7, <1>8, <1>9, <1>10, <1>11 DEF Next

LEMMA SftpInvImplies == SftpInv => TransfersSound
<1> SUFFICES ASSUME SftpInv PROVE TransfersSound OBVIOUS
<1>0. SftpType /\ Phases /\ DownloadInv /\ UploadInv BY DEF SftpInv
<1>1. FileSize \in Nat /\ copy \in Seq(Nat) /\ Len(copy) \in Nat /\ fails.write \in Nat
  BY <1>0, SizeType DEF SftpType
<1>2. RepliesExpected /\ HandleClosed BY <1>0 DEF RepliesExpected, HandleClosed, Phases
<1>3. Contiguous(copy, Len(copy)) /\ Len(copy) <= FileSize =>
        IsPrefixOf(copy, Source) /\ (Len(copy) = FileSize => copy = Source)
  BY <1>1, ContiguousSource
<1> HIDE DEF FileSize, Source
<1>4. dir = "download" /\ fails.write <= 1 /\ c.phase = "idle" =>
        Contiguous(copy, Len(copy)) /\ Len(copy) <= FileSize /\ (c.result = "ok" => Len(copy) = FileSize)
  BY <1>0 DEF DownloadInv, Good
<1>5. DownloadFaithful BY <1>3, <1>4 DEF DownloadFaithful
<1>6. NoHolesButForSecondFailure BY <1>3, <1>4 DEF NoHolesButForSecondFailure, NoHoles
<1>7. dir = "upload" /\ fails.write = 0 /\ c.phase = "idle" =>
        /\ Contiguous(copy, Len(copy)) /\ Len(copy) <= FileSize
        /\ c.result = "ok" /\ ~c.interrupted => Len(copy) = FileSize
  BY <1>0 DEF UploadInv
<1>8. UploadFaithful BY <1>3, <1>7 DEF UploadFaithful
<1> QED BY <1>2, <1>5, <1>6, <1>8 DEF TransfersSound

(***************************************************************************)
(* For any sizes of files, blocks and windows, any number of transfers and *)
(* any order of the blocks of a download: each reply answers a request     *)
(* under way, handles are closed, a download reported as complete has the  *)
(* whole file (do_download() in sftp-client.c), an interrupted one a       *)
(* prefix as long as one write failed at most, and uploads likewise        *)
(* without failed writes (do_upload()).  The server must answer writes in  *)
(* the order in which they were sent, as sftp-server does.                 *)
(***************************************************************************)
THEOREM CopiesFaithful ==
  ASSUME "upload" \notin Reordering PROVE Spec => []TransfersSound
<1>1. Init => SftpInv BY SftpInit
<1>2. SftpInv /\ [Next]_vars => SftpInv' BY SftpStep
<1>3. SftpInv => TransfersSound BY SftpInvImplies
<1> QED BY <1>1, <1>2, <1>3, PTL DEF Spec

-----------------------------------------------------------------------------
(***************************************************************************)
(* Xmss: what keeps two users of one key apart is where the files lead,    *)
(* which is above every index that is used or handed out.                  *)
(***************************************************************************)
StateFile == {Absent, Damaged} \cup Nat
Pc == {"idle", "locked", "got", "update", "backup", "link", "rename", "done", "failed", "return"}
Signer == [pc : Pc, op : {"none", "sign", "add"}, sk : Nat, first : Nat, have_state : BOOLEAN]

XmssType ==
  /\ statefile \in StateFile /\ ostatefile \in StateFile /\ nstatefile \in StateFile
  /\ lockholder \in Signers \cup {0}
  /\ signer \in [Signers -> Signer]
  /\ agent_keys \subseteq [sk : Nat, maxidx : Nat]
  /\ issued \subseteq Nat /\ reused \in BOOLEAN
  /\ damage \in [n : Nat, gap : BOOLEAN]

(* The lock is held from loading the key to the end of the update. *)
LockKept ==
  \A p \in Signers : lockholder = p <=> signer[p].pc \notin {"idle", "return"}

(* The indices that p has taken, first .. sk - 1, and not yet given out. *)
Taking(p) == signer[p].pc \in {"done", "return"}

(* All indices that are used or taken are below n. *)
BelowOf(n, used, keys, sg) ==
  /\ \A i \in used : i < n
  /\ \A k \in keys : k.maxidx <= n
  /\ \A p \in Signers : sg[p].pc \in {"done", "return"} => sg[p].sk <= n
Below(n) == BelowOf(n, issued, agent_keys, signer)

(* Wherever a process is killed, and whichever file is damaged, what can   *)
(* be read leads to an index above.                                        *)
FilesLead ==
  /\ statefile >= 0 => Below(statefile)
  /\ statefile = Damaged /\ ostatefile >= 0 => Below(ostatefile + 1)
  /\ statefile = Absent => ostatefile = Absent /\ Below(0)

(* How far a process has come. *)
SignerAt(p) ==
  LET s == signer[p] IN
  /\ s.pc # "idle" => s.op \in {"sign", "add"}
  /\ s.pc \notin {"idle", "locked"} /\ s.have_state => statefile # Absent
  /\ s.pc \in {"backup", "link"} => s.have_state
  /\ s.pc = "got" => Below(s.sk)
  /\ s.pc \in {"update", "backup", "link", "rename"} => Below(s.first)
  /\ s.pc \in {"update", "backup", "link", "rename", "done", "return"} =>
       s.first < s.sk /\ s.sk = s.first + forward(p)
  /\ s.pc \in {"backup", "link", "rename"} => nstatefile = s.sk

Outside(i, lo, hi) == i < lo \/ hi <= i
Disjoint(lo1, hi1, lo2, hi2) == hi1 <= lo2 \/ hi2 <= lo1

(* What is used, what the agent may use and what processes have taken. *)
Apart ==
  /\ ~reused
  /\ \A k, l \in agent_keys : k # l => Disjoint(k.sk, k.maxidx, l.sk, l.maxidx)
  /\ \A k \in agent_keys : k.sk <= k.maxidx
  /\ \A i \in issued : \A k \in agent_keys : Outside(i, k.sk, k.maxidx)
  /\ \A p \in Signers : Taking(p) =>
       /\ \A i \in issued : Outside(i, signer[p].first, signer[p].sk)
       /\ \A k \in agent_keys : Disjoint(k.sk, k.maxidx, signer[p].first, signer[p].sk)
       /\ \A q \in Signers : q # p /\ Taking(q) =>
            Disjoint(signer[q].first, signer[q].sk, signer[p].first, signer[p].sk)

XmssSafe == FilesLead /\ Apart /\ \A p \in Signers : SignerAt(p)
XmssInv == XmssType /\ LockKept /\ (~damage.gap => XmssSafe)

LEMMA SignerFields ==
  ASSUME XmssType, NEW p \in Signers
  PROVE  /\ signer[p] \in Signer /\ signer[p].pc \in Pc /\ signer[p].op \in {"none", "sign", "add"}
         /\ signer[p].sk \in Nat /\ signer[p].first \in Nat /\ signer[p].have_state \in BOOLEAN
BY DEF XmssType, Signer

(* An index below n is below any m that is not less. *)
LEMMA BelowMore ==
  ASSUME XmssType, NEW n \in Int, NEW m \in Int, n <= m, Below(n)
  PROVE  Below(m)
<1>1. \A i \in issued : i \in Int BY DEF XmssType
<1>2. \A k \in agent_keys : k.maxidx \in Int BY DEF XmssType
<1>3. \A p \in Signers : signer[p].sk \in Int BY SignerFields
<1> QED BY <1>1, <1>2, <1>3 DEF Below, BelowOf

(* A step of p that gives out nothing and ends with nothing taken. *)
TakesNothing(p, s) ==
  /\ signer' = [signer EXCEPT ![p] = s] /\ s \in Signer /\ s.pc \notin {"done", "return"}
  /\ UNCHANGED <<issued, reused, agent_keys>>

LEMMA QuietSigner ==
  ASSUME XmssType, NEW p \in Signers, NEW s, TakesNothing(p, s)
  PROVE  /\ signer' \in [Signers -> Signer] /\ signer'[p] = s
         /\ \A q \in Signers : q # p => signer'[q] = signer[q]
BY DEF XmssType, TakesNothing

LEMMA QuietBelow ==
  ASSUME XmssType, NEW p \in Signers, NEW s, TakesNothing(p, s)
  PROVE  \A n \in Int : Below(n) => BelowOf(n, issued', agent_keys', signer')
<1> SUFFICES ASSUME NEW n \in Int, Below(n) PROVE BelowOf(n, issued', agent_keys', signer')
  OBVIOUS
<1>1. issued' = issued /\ agent_keys' = agent_keys /\ s.pc \notin {"done", "return"}
  BY DEF TakesNothing
<1>2. signer'[p] = s /\ \A q \in Signers : q # p => signer'[q] = signer[q] BY QuietSigner
<1>3. \A q \in Signers : signer'[q].pc \in {"done", "return"} => signer'[q].sk <= n
  BY <1>1, <1>2 DEF Below, BelowOf
<1> QED BY <1>1, <1>3 DEF Below, BelowOf

LEMMA QuietApart ==
  ASSUME XmssType, NEW p \in Signers, NEW s, TakesNothing(p, s), Apart PROVE Apart'
<1>1. /\ issued' = issued /\ agent_keys' = agent_keys /\ reused' = reused
      /\ s.pc \notin {"done", "return"}
  BY DEF TakesNothing
<1>2. signer'[p] = s /\ \A q \in Signers : q # p => signer'[q] = signer[q] BY QuietSigner
<1>3. \A q \in Signers : Taking(q)' => Taking(q) /\ signer'[q] = signer[q]
  BY <1>1, <1>2 DEF Taking
<1> QED BY <1>1, <1>3 DEF Apart

(* Where the others are. *)
LEMMA OthersAt ==
  ASSUME XmssType, LockKept, NEW q \in Signers, SignerAt(q),
         signer'[q] = signer[q], statefile # Absent => statefile' # Absent,
         nstatefile' = nstatefile \/ lockholder # q,
         \A n \in Int : Below(n) => BelowOf(n, issued', agent_keys', signer')
  PROVE  SignerAt(q)'
<1>1. signer[q].pc \in {"backup", "link", "rename"} => nstatefile' = nstatefile BY DEF LockKept
<1>2. forward(q)' = forward(q) BY DEF forward
<1>3. \A n : Below(n)' = BelowOf(n, issued', agent_keys', signer') BY DEF Below
<1>4. /\ signer[q].pc = "got" => BelowOf(signer[q].sk, issued', agent_keys', signer')
      /\ signer[q].pc \in {"update", "backup", "link", "rename"} =>
           BelowOf(signer[q].first, issued', agent_keys', signer')
  <2>1. signer[q].sk \in Int /\ signer[q].first \in Int BY SignerFields
  <2> QED BY <2>1 DEF SignerAt
<1> QED BY <1>1, <1>2, <1>4 DEF SignerAt, Below

LEMMA FilesQuiet ==
  ASSUME XmssType, FilesLead, UNCHANGED statefile, ostatefile' \in StateFile,
         ostatefile' = ostatefile \/ (statefile # Absent /\ (statefile = Damaged => ostatefile' < 0)),
         \A n \in Int : Below(n) => BelowOf(n, issued', agent_keys', signer')
  PROVE  FilesLead'
<1>1. \A n : BelowOf(n, issued', agent_keys', signer') <=> Below(n)' BY DEF Below
<1>2. \A n \in Int : Below(n) => BelowOf(n, issued', agent_keys', signer') OBVIOUS
<1>3. statefile' = statefile /\ statefile \in Int /\ ostatefile \in Int
  BY DEF XmssType, StateFile, Absent, Damaged
<1>4. statefile' >= 0 => BelowOf(statefile', issued', agent_keys', signer')
  BY <1>2, <1>3 DEF FilesLead
<1>5. statefile' = Damaged /\ ostatefile' >= 0 => ostatefile' = ostatefile
  <2> SUFFICES ASSUME statefile' = Damaged, ostatefile' >= 0, ostatefile' < 0 PROVE FALSE
    BY <1>3
  <2> QED BY DEF StateFile, Absent, Damaged
<1>6. statefile' = Damaged /\ ostatefile' >= 0 =>
        BelowOf(ostatefile' + 1, issued', agent_keys', signer')
  BY <1>2, <1>3, <1>5 DEF FilesLead
<1>7. statefile' = Absent => ostatefile' = Absent /\ BelowOf(0, issued', agent_keys', signer')
  BY <1>2, <1>3 DEF FilesLead
<1> QED BY <1>4, <1>6, <1>7 DEF FilesLead, Below, Absent, Damaged

(* The steps that take nothing and change neither .state nor the damage. *)
LEMMA QuietStep ==
  ASSUME XmssInv, NEW p \in Signers, NEW s, TakesNothing(p, s),
         UNCHANGED <<statefile, damage>>, nstatefile' \in StateFile, ostatefile' \in StateFile,
         nstatefile' = nstatefile \/ lockholder = p,
         ~damage.gap /\ XmssSafe =>
           ostatefile' = ostatefile \/ (statefile # Absent /\ (statefile = Damaged => ostatefile' < 0)),
         \/ lockholder' = p /\ lockholder \in {0, p} /\ s.pc # "idle"
         \/ lockholder' = 0 /\ lockholder = p /\ s.pc = "idle"
         \/ lockholder' = lockholder /\ lockholder # p /\ s.pc = "idle",
         ~damage.gap /\ XmssSafe => SignerAt(p)'
  PROVE  XmssInv'
<1>0. XmssType /\ LockKept BY DEF XmssInv
<1>1. /\ signer' \in [Signers -> Signer] /\ signer'[p] = s
      /\ \A q \in Signers : q # p => signer'[q] = signer[q]
  BY <1>0, QuietSigner
<1>2. XmssType' BY <1>0, <1>1 DEF XmssType, TakesNothing
<1>3. LockKept'
  <2>1. 0 \notin Signers BY XmssAssumption
  <2>2. s.pc \notin {"done", "return"} BY DEF TakesNothing
  <2> QED BY <1>0, <1>1, <2>1, <2>2 DEF LockKept
<1>4. ASSUME ~damage.gap, XmssSafe PROVE XmssSafe'
  <2>1. \A n \in Int : Below(n) => BelowOf(n, issued', agent_keys', signer') BY <1>0, QuietBelow
  <2>2. FilesLead' BY <1>0, <1>4, <2>1, FilesQuiet DEF XmssSafe
  <2>3. Apart' BY <1>0, <1>4, QuietApart DEF XmssSafe
  <2>4. \A q \in Signers : q # p => SignerAt(q)'
    BY <1>0, <1>1, <1>4, <2>1, OthersAt DEF XmssSafe
  <2>5. SignerAt(p)' BY <1>4
  <2> QED BY <2>2, <2>3, <2>4, <2>5 DEF XmssSafe
<1> QED BY <1>2, <1>3, <1>4 DEF XmssInv

(***************************************************************************)
(* The steps that take nothing.                                            *)
(***************************************************************************)
LEMMA LockInv ==
  ASSUME XmssInv, NEW p \in Signers, NEW op \in {"sign", "add"}, Lock(p, op) PROVE XmssInv'
<1> DEFINE s == [Idle_signer EXCEPT !.pc = "locked", !.op = op]
<1>0. Idle_signer \in Signer BY DEF Idle_signer, Signer, Pc
<1>1. s.pc = "locked" /\ s.op = op BY <1>0 DEF Signer
<1>2. s \in Signer BY <1>0 DEF Signer, Pc
<1>3. TakesNothing(p, s) BY <1>1, <1>2 DEF Lock, TakesNothing, KeepIssued
<1>4. signer'[p] = s BY <1>3, QuietSigner DEF XmssInv
<1>5. SignerAt(p)' BY <1>1, <1>4 DEF SignerAt
<1>6. nstatefile' \in StateFile /\ ostatefile' \in StateFile BY DEF Lock, XmssInv, XmssType
<1>7. s.pc # "idle" BY <1>1
<1> HIDE DEF s
<1> QED BY <1>3, <1>5, <1>6, <1>7, QuietStep DEF Lock

(* Giving up, and being killed. *)
LEMMA IdleSigner == Idle_signer \in Signer /\ Idle_signer.pc = "idle"
BY DEF Idle_signer, Signer, Pc

LEMMA GiveUp ==
  ASSUME XmssInv, NEW p \in Signers, signer' = [signer EXCEPT ![p] = Idle_signer],
         lockholder' = (IF lockholder = p THEN 0 ELSE lockholder),
         UNCHANGED <<statefile, ostatefile, agent_keys, damage, issued, reused>>,
         nstatefile' = nstatefile \/ (lockholder = p /\ nstatefile' \in StateFile)
  PROVE  XmssInv'
<1>1. Idle_signer.pc \notin {"done", "return"} BY IdleSigner
<1>2. TakesNothing(p, Idle_signer) BY IdleSigner, <1>1 DEF TakesNothing
<1>3. signer'[p] = Idle_signer BY <1>2, QuietSigner DEF XmssInv
<1>4. SignerAt(p)' BY <1>3, IdleSigner DEF SignerAt
<1>5. nstatefile' \in StateFile /\ ostatefile' \in StateFile BY DEF XmssInv, XmssType
<1>6. \/ lockholder' = 0 /\ lockholder = p /\ Idle_signer.pc = "idle"
      \/ lockholder' = lockholder /\ lockholder # p /\ Idle_signer.pc = "idle"
  BY IdleSigner
<1>7. nstatefile' = nstatefile \/ lockholder = p OBVIOUS
<1> QED BY <1>2, <1>4, <1>5, <1>6, <1>7, QuietStep

LEMMA KilledInv ==
  ASSUME XmssInv, NEW p \in Signers, Killed(p) PROVE XmssInv'
BY GiveUp DEF Killed, KeepIssued

(* The files lead above what is used. *)
LEMMA FoundBelow ==
  ASSUME XmssType, FilesLead, StateFound >= 0
  PROVE  StateFound \in Nat /\ Below(StateFound)
<1>1. CASE statefile >= 0
  <2>2. statefile \in Nat BY <1>1 DEF XmssType, StateFile, Absent, Damaged
  <2>1. StateFound = statefile BY <1>1, <2>2 DEF StateFound, Absent
  <2> QED BY <1>1, <2>1, <2>2 DEF FilesLead
<1>2. CASE statefile < 0 /\ ostatefile >= 0
  <2>0. statefile \in StateFile /\ ostatefile \in StateFile BY DEF XmssType
  <2>1. ~(statefile >= 0) BY <1>2, <2>0 DEF StateFile, Absent, Damaged
  <2>2. StateFound = ostatefile + 1 BY <1>2, <2>1 DEF StateFound, forward_after_ostate
  <2>3. ostatefile \in Nat BY <1>2, <2>0 DEF StateFile, Absent, Damaged
  <2>4. statefile = Damaged
    BY <2>0, <2>1, <2>3 DEF FilesLead, StateFile, Absent, Damaged
  <2> QED BY <1>2, <2>2, <2>3, <2>4 DEF FilesLead
<1>3. CASE ~(statefile >= 0) /\ ~(ostatefile >= 0)
  <2>0. statefile \in StateFile /\ ostatefile \in StateFile BY DEF XmssType
  <2>1. statefile = Absent /\ ostatefile = Absent
    BY <1>3, <2>0 DEF StateFound, StateFile, Absent, Damaged
  <2>2. StateFound = 0 BY <1>3, <2>1 DEF StateFound, Absent
  <2> QED BY <2>1, <2>2 DEF FilesLead
<1> QED BY <1>1, <1>2, <1>3 DEF XmssType, StateFile, Absent, Damaged

LEMMA FoundType ==
  ASSUME XmssType, StateFound >= 0 PROVE StateFound \in Nat
<1>0. statefile \in StateFile /\ ostatefile \in StateFile BY DEF XmssType
<1> QED BY <1>0 DEF StateFound, forward_after_ostate, StateFile, Absent, Damaged

LEMMA GetStateInv ==
  ASSUME XmssInv, NEW p \in Signers, sshkey_xmss_get_state(p) PROVE XmssInv'
<1>0. XmssType /\ LockKept BY DEF XmssInv
<1>a. signer[p].pc = "locked" /\ UNCHANGED <<statefile, ostatefile, nstatefile, agent_keys, damage, issued, reused>>
  BY DEF sshkey_xmss_get_state, KeepIssued
<1>b. lockholder = p BY <1>0, <1>a DEF LockKept
<1>1. CASE ~(StateFound >= 0)
  <2>1. lockholder' = 0 /\ signer' = [signer EXCEPT ![p] = Idle_signer]
    BY <1>1 DEF sshkey_xmss_get_state, Unlocked
  <2> QED BY <1>a, <1>b, <2>1, GiveUp
<1>2. CASE StateFound >= 0
  <2> DEFINE h == (statefile # Absent)
             s == [signer[p] EXCEPT !.pc = "got", !.sk = StateFound, !.have_state = h]
  <2>1. StateFound \in Nat /\ h \in BOOLEAN BY <1>0, <1>2, FoundType
  <2>2. signer' = [signer EXCEPT ![p] = s] /\ lockholder' = lockholder
    BY <1>2 DEF sshkey_xmss_get_state
  <2>3. signer[p] \in Signer BY <1>0, SignerFields
  <2>4. /\ s \in Signer /\ s.pc = "got" /\ s.sk = StateFound /\ s.have_state = h
        /\ s.op = signer[p].op
    <3> HIDE DEF h
    <3> QED BY <2>1, <2>3 DEF Signer, Pc
  <2> HIDE DEF s
  <2>5. TakesNothing(p, s) BY <1>a, <2>2, <2>4 DEF TakesNothing
  <2>6. signer'[p] = s BY <1>0, <2>5, QuietSigner
  <2>7. ASSUME XmssSafe PROVE SignerAt(p)'
    <3>1. Below(StateFound) BY <1>0, <1>2, <2>7, FoundBelow DEF XmssSafe
    <3>2. BelowOf(StateFound, issued', agent_keys', signer')
      BY <1>0, <2>1, <2>5, <3>1, QuietBelow
    <3>3. SignerAt(p) BY <2>7 DEF XmssSafe
    <3>4. s.op \in {"sign", "add"} BY <1>a, <2>4, <3>3 DEF SignerAt
    <3> QED BY <1>a, <2>4, <2>6, <3>2, <3>4 DEF SignerAt, Below
  <2>8. nstatefile' \in StateFile /\ ostatefile' \in StateFile BY <1>0, <1>a DEF XmssType
  <2>9. s.pc # "idle" BY <2>4
  <2> QED BY <1>a, <1>b, <2>2, <2>5, <2>7, <2>8, <2>9, QuietStep
<1> QED BY <1>1, <1>2

LEMMA UseIndexInv ==
  ASSUME XmssInv, NEW p \in Signers, UseIndex(p) PROVE XmssInv'
<1>0. XmssType /\ LockKept BY DEF XmssInv
<1>a. /\ signer[p].pc = "got" /\ lockholder' = lockholder
      /\ UNCHANGED <<statefile, ostatefile, nstatefile, agent_keys, damage, issued, reused>>
  BY DEF UseIndex, KeepIssued
<1>b. lockholder = p BY <1>0, <1>a DEF LockKept
<1> DEFINE n == signer[p].sk + forward(p)
           s == [signer[p] EXCEPT !.pc = "update", !.first = signer[p].sk, !.sk = signer[p].sk + forward(p)]
<1>1. forward(p) \in Nat \ {0} BY XmssAssumption DEF forward
<1>2. signer[p] \in Signer /\ signer[p].sk \in Nat BY <1>0, SignerFields
<1>3. n \in Nat /\ signer[p].sk < n BY <1>1, <1>2
<1>4. signer' = [signer EXCEPT ![p] = s] BY DEF UseIndex
<1>5. /\ s \in Signer /\ s.pc = "update" /\ s.sk = n /\ s.first = signer[p].sk
      /\ s.op = signer[p].op /\ s.have_state = signer[p].have_state
  BY <1>1, <1>2, <1>3 DEF Signer, Pc
<1> HIDE DEF s, n
<1>6. TakesNothing(p, s) BY <1>a, <1>4, <1>5 DEF TakesNothing
<1>7. signer'[p] = s BY <1>0, <1>6, QuietSigner
<1>8. ASSUME XmssSafe PROVE SignerAt(p)'
  <2>1. SignerAt(p) BY <1>8 DEF XmssSafe
  <2>2. Below(signer[p].sk) BY <1>a, <2>1 DEF SignerAt
  <2>3. BelowOf(signer[p].sk, issued', agent_keys', signer') BY <1>0, <1>2, <1>6, <2>2, QuietBelow
  <2>4. s.op \in {"sign", "add"} /\ (s.have_state => statefile' # Absent)
    BY <1>a, <1>5, <2>1 DEF SignerAt
  <2>5. forward(p)' = forward(p) BY <1>5, <1>7 DEF forward
  <2>6. s.sk = s.first + forward(p)' /\ s.first < s.sk BY <1>3, <1>5, <2>5 DEF n
  <2> QED BY <1>3, <1>5, <1>7, <2>3, <2>4, <2>6 DEF SignerAt, Below
<1>9. nstatefile' \in StateFile /\ ostatefile' \in StateFile BY <1>0, <1>a DEF XmssType
<1>10. s.pc # "idle" BY <1>5
<1> QED BY <1>a, <1>b, <1>6, <1>8, <1>9, <1>10, QuietStep

(***************************************************************************)
(* The update of the files.                                                *)
(***************************************************************************)
Updating == {"update", "backup", "link", "rename"}

LEMMA PcStep ==
  ASSUME XmssInv, NEW p \in Signers, NEW next \in {"backup", "link", "rename", "failed"},
         signer[p].pc \in Updating, Step(p, next),
         UNCHANGED <<statefile, agent_keys, damage, issued, reused>>,
         nstatefile' \in StateFile, ostatefile' \in StateFile,
         ~damage.gap /\ XmssSafe =>
           ostatefile' = ostatefile \/ (statefile # Absent /\ (statefile = Damaged => ostatefile' < 0)),
         ~damage.gap /\ XmssSafe =>
           /\ next \in {"backup", "link"} => signer[p].have_state
           /\ next # "failed" => nstatefile' = signer[p].sk
  PROVE  XmssInv'
<1>0. XmssType /\ LockKept BY DEF XmssInv
<1>1. lockholder = p /\ lockholder' = p BY <1>0 DEF LockKept, Step, Updating
<1> DEFINE s == [signer[p] EXCEPT !.pc = next]
<1>2. signer[p] \in Signer /\ signer[p].first \in Nat BY <1>0, SignerFields
<1>3. signer' = [signer EXCEPT ![p] = s] BY DEF Step
<1>4. /\ s \in Signer /\ s.pc = next /\ s.sk = signer[p].sk /\ s.first = signer[p].first
      /\ s.op = signer[p].op /\ s.have_state = signer[p].have_state
  BY <1>2 DEF Signer, Pc
<1> HIDE DEF s
<1>5. TakesNothing(p, s) BY <1>3, <1>4 DEF TakesNothing
<1>6. signer'[p] = s BY <1>0, <1>5, QuietSigner
<1>7. ASSUME ~damage.gap, XmssSafe PROVE SignerAt(p)'
  <2>1. SignerAt(p) BY <1>7 DEF XmssSafe
  <2>2. /\ Below(signer[p].first) /\ signer[p].op \in {"sign", "add"}
        /\ (signer[p].have_state => statefile # Absent)
        /\ signer[p].first < signer[p].sk /\ signer[p].sk = signer[p].first + forward(p)
    BY <2>1 DEF SignerAt, Updating
  <2>3. BelowOf(signer[p].first, issued', agent_keys', signer') 
    BY <1>0, <1>2, <1>5, <2>2, QuietBelow
  <2>4. forward(p)' = forward(p) BY <1>4, <1>6 DEF forward
  <2>5. statefile' = statefile OBVIOUS
  <2> QED BY <1>4, <1>6, <1>7, <2>2, <2>3, <2>4, <2>5 DEF SignerAt, Below
<1>8. s.pc # "idle" BY <1>4
<1> QED BY <1>1, <1>5, <1>7, <1>8, QuietStep

LEMMA WriteStateInv ==
  ASSUME XmssInv, NEW p \in Signers, WriteState(p) PROVE XmssInv'
<1>0. /\ signer[p].pc \in Updating /\ signer[p].sk \in Nat /\ signer[p].have_state \in BOOLEAN
      /\ ostatefile \in StateFile
  BY SignerFields DEF WriteState, XmssInv, XmssType, Updating
<1>1. /\ UNCHANGED <<statefile, ostatefile, agent_keys, damage, issued, reused>>
      /\ nstatefile' \in {Damaged, signer[p].sk}
  BY DEF WriteState, KeepIssued
<1>2. nstatefile' \in StateFile /\ ostatefile' \in StateFile BY <1>0, <1>1 DEF StateFile
<1>3. CASE nstatefile' = Damaged
  <2>1. Step(p, "failed") BY <1>3 DEF WriteState
  <2> QED BY <1>0, <1>1, <1>2, <2>1, PcStep
<1>4. CASE nstatefile' # Damaged /\ signer[p].have_state
  <2>1. Step(p, "backup") BY <1>4 DEF WriteState
  <2>2. nstatefile' = signer[p].sk BY <1>1, <1>4
  <2> QED BY <1>0, <1>1, <1>2, <1>4, <2>1, <2>2, PcStep
<1>5. CASE nstatefile' # Damaged /\ ~signer[p].have_state
  <2>1. Step(p, "rename") BY <1>5 DEF WriteState
  <2>2. nstatefile' = signer[p].sk BY <1>1, <1>5
  <2> QED BY <1>0, <1>1, <1>2, <2>1, <2>2, PcStep
<1> QED BY <1>3, <1>4, <1>5

LEMMA UnlinkOstateInv ==
  ASSUME XmssInv, NEW p \in Signers, UnlinkOstate(p) PROVE XmssInv'
<1>0. signer[p].pc \in Updating /\ signer[p].pc = "backup" BY DEF UnlinkOstate, Updating
<1>1. /\ UNCHANGED <<statefile, nstatefile, agent_keys, damage, issued, reused>>
      /\ ostatefile' = Absent /\ Step(p, "link")
  BY DEF UnlinkOstate, KeepIssued
<1>2. nstatefile' \in StateFile /\ ostatefile' \in StateFile BY <1>1 DEF StateFile, XmssInv, XmssType
<1>3. XmssSafe => signer[p].have_state /\ statefile # Absent /\ nstatefile = signer[p].sk
  BY <1>0 DEF XmssSafe, SignerAt
<1>4. ostatefile' < 0 BY <1>1 DEF Absent
<1> QED BY <1>0, <1>1, <1>2, <1>3, <1>4, PcStep

LEMMA LinkOstateInv ==
  ASSUME XmssInv, NEW p \in Signers, LinkOstate(p) PROVE XmssInv'
<1>0. signer[p].pc \in Updating /\ signer[p].pc = "link" BY DEF LinkOstate, Updating
<1>1. UNCHANGED <<statefile, nstatefile, agent_keys, damage, issued, reused>>
  BY DEF LinkOstate, KeepIssued
<1>2. CASE ostatefile' = statefile /\ Step(p, "rename")
  <2>1. nstatefile' \in StateFile /\ ostatefile' \in StateFile BY <1>1, <1>2 DEF XmssInv, XmssType
  <2>2. XmssSafe => statefile # Absent /\ nstatefile = signer[p].sk BY <1>0 DEF XmssSafe, SignerAt
  <2>3. statefile = Damaged => ostatefile' < 0 BY <1>2 DEF Damaged
  <2> QED BY <1>0, <1>1, <1>2, <2>1, <2>2, <2>3, PcStep
<1>3. CASE ostatefile' = ostatefile /\ Step(p, "failed")
  <2>1. nstatefile' \in StateFile /\ ostatefile' \in StateFile BY <1>1, <1>3 DEF XmssInv, XmssType
  <2> QED BY <1>0, <1>1, <1>3, <2>1, PcStep
<1> QED BY <1>2, <1>3 DEF LinkOstate

(* While p has the lock the others have taken their indices or none. *)
LEMMA OthersOut ==
  ASSUME LockKept, NEW p \in Signers, lockholder = p
  PROVE  \A q \in Signers : q # p => signer[q].pc \in {"idle", "return"}
BY DEF LockKept

(* .state is renamed: the indices are taken. *)
LEMMA RenamedInv ==
  ASSUME XmssInv, NEW p \in Signers, signer[p].pc = "rename", Step(p, "done"),
         statefile' = nstatefile, nstatefile' = Absent,
         UNCHANGED <<ostatefile, agent_keys, damage, issued, reused>>
  PROVE  XmssInv'
<1>0. XmssType /\ LockKept BY DEF XmssInv
<1>1. lockholder = p /\ lockholder' = p BY <1>0 DEF LockKept, Step
<1> DEFINE s == [signer[p] EXCEPT !.pc = "done"]
           f == signer[p].first
           n == signer[p].sk
<1>2. signer[p] \in Signer /\ f \in Nat /\ n \in Nat BY <1>0, SignerFields
<1>3. signer' = [signer EXCEPT ![p] = s] BY DEF Step
<1>4. /\ s \in Signer /\ s.pc = "done" /\ s.sk = n /\ s.first = f
      /\ s.op = signer[p].op /\ s.have_state = signer[p].have_state
  BY <1>2 DEF Signer, Pc
<1> HIDE DEF s, f, n
<1>5. /\ signer' \in [Signers -> Signer] /\ signer'[p] = s
      /\ \A q \in Signers : q # p => signer'[q] = signer[q]
  BY <1>0, <1>3, <1>4 DEF XmssType
<1>6. XmssType' BY <1>0, <1>1, <1>5 DEF XmssType, StateFile
<1>7. LockKept'
  <2>1. \A q \in Signers : lockholder' = q <=> signer'[q].pc \notin {"idle", "return"}
    BY <1>0, <1>1, <1>4, <1>5 DEF LockKept
  <2> QED BY <2>1 DEF LockKept
<1>8. ASSUME ~damage.gap, XmssSafe PROVE XmssSafe'
  <2>1. SignerAt(p) /\ Apart /\ FilesLead BY <1>8 DEF XmssSafe
  <2>2. /\ Below(f) /\ f < n /\ n = f + forward(p) /\ nstatefile = n
        /\ signer[p].op \in {"sign", "add"}
    BY <2>1 DEF SignerAt, f, n
  <2>3. /\ \A i \in issued : i \in Nat /\ i < f
        /\ \A k \in agent_keys : k.sk \in Nat /\ k.maxidx \in Nat /\ k.maxidx <= f
        /\ \A q \in Signers : Taking(q) => signer[q].sk <= f
    BY <1>0, <2>2 DEF Below, BelowOf, XmssType, Taking
  <2>4. \A q \in Signers : q # p => (Taking(q)' <=> Taking(q)) /\ signer'[q] = signer[q]
    BY <1>5 DEF Taking
  <2>5. \A q \in Signers : signer[q].sk \in Nat /\ signer[q].first \in Nat BY <1>0, SignerFields
  <2>6. statefile' = n /\ statefile' >= 0 BY <1>2, <2>2
  <2>7. BelowOf(n, issued', agent_keys', signer')
    <3>1. \A i \in issued' : i < n BY <1>2, <2>2, <2>3
    <3>2. \A k \in agent_keys' : k.maxidx <= n BY <1>2, <2>2, <2>3
    <3>3. \A q \in Signers : signer'[q].pc \in {"done", "return"} => signer'[q].sk <= n
      BY <1>2, <1>4, <1>5, <2>2, <2>3, <2>4, <2>5 DEF Taking
    <3> QED BY <3>1, <3>2, <3>3 DEF BelowOf
  <2>8. FilesLead' BY <1>2, <2>6, <2>7 DEF FilesLead, Below, Absent, Damaged
  <2>9. Apart'
    <3>1. \A q \in Signers : q # p /\ Taking(q)' => Disjoint(signer'[q].first, signer'[q].sk, f, n)
      BY <2>3, <2>4 DEF Disjoint
    <3>2. \A q \in Signers : q # p /\ Taking(q)' => Disjoint(f, n, signer'[q].first, signer'[q].sk)
      BY <2>3, <2>4 DEF Disjoint
    <3>3. \A i \in issued' : Outside(i, f, n) BY <2>3 DEF Outside
    <3>4. \A k \in agent_keys' : Disjoint(k.sk, k.maxidx, f, n) BY <2>3 DEF Disjoint
    <3>5. signer'[p].first = f /\ signer'[p].sk = n BY <1>4, <1>5
    <3>6. \A q \in Signers : Taking(q)' =>
            /\ \A i \in issued' : Outside(i, signer'[q].first, signer'[q].sk)
            /\ \A k \in agent_keys' : Disjoint(k.sk, k.maxidx, signer'[q].first, signer'[q].sk)
            /\ \A r \in Signers : r # q /\ Taking(r)' =>
                 Disjoint(signer'[r].first, signer'[r].sk, signer'[q].first, signer'[q].sk)
      <4> SUFFICES ASSUME NEW q \in Signers, Taking(q)'
                   PROVE /\ \A i \in issued' : Outside(i, signer'[q].first, signer'[q].sk)
                         /\ \A k \in agent_keys' : Disjoint(k.sk, k.maxidx, signer'[q].first, signer'[q].sk)
                         /\ \A r \in Signers : r # q /\ Taking(r)' =>
                              Disjoint(signer'[r].first, signer'[r].sk, signer'[q].first, signer'[q].sk)
        OBVIOUS
      <4>1. CASE q = p BY <4>1, <3>1, <3>3, <3>4, <3>5
      <4>2. CASE q # p
        <5>1. Taking(q) /\ signer'[q] = signer[q] BY <4>2, <2>4
        <5>2. \A r \in Signers : r # q /\ Taking(r)' =>
                Disjoint(signer'[r].first, signer'[r].sk, signer'[q].first, signer'[q].sk)
          BY <2>1, <2>4, <3>2, <3>5, <4>2, <5>1 DEF Apart
        <5> QED BY <2>1, <5>1, <5>2 DEF Apart
      <4> QED BY <4>1, <4>2
    <3> QED BY <2>1, <3>6 DEF Apart
  <2>10. ASSUME NEW q \in Signers PROVE SignerAt(q)'
    <3>1. statefile' # Absent BY <1>2, <2>6 DEF Absent
    <3>2. CASE q = p
      <4>1. forward(p)' = forward(p) BY <1>4, <1>5 DEF forward
      <4> QED BY <1>4, <1>5, <2>2, <3>1, <3>2, <4>1 DEF SignerAt, f, n
    <3>3. CASE q # p
      <4>1. signer'[q] = signer[q] /\ signer[q].pc \in {"idle", "return"}
        BY <1>0, <1>1, <1>5, <3>3, OthersOut
      <4>2. SignerAt(q) BY <1>8 DEF XmssSafe
      <4>3. forward(q)' = forward(q) BY <4>1 DEF forward
      <4> QED BY <3>1, <4>1, <4>2, <4>3 DEF SignerAt
    <3> QED BY <3>2, <3>3
  <2> QED BY <2>8, <2>9, <2>10 DEF XmssSafe
<1> QED BY <1>6, <1>7, <1>8 DEF XmssInv

LEMMA RenameStateInv ==
  ASSUME XmssInv, NEW p \in Signers, RenameState(p) PROVE XmssInv'
<1>0. /\ signer[p].pc = "rename" /\ signer[p].pc \in Updating
      /\ UNCHANGED <<ostatefile, agent_keys, damage, issued, reused>>
  BY DEF RenameState, Updating, KeepIssued
<1>1. CASE statefile' = nstatefile /\ nstatefile' = Absent /\ Step(p, "done")
  BY <1>0, <1>1, RenamedInv
<1>2. CASE UNCHANGED <<statefile, nstatefile>> /\ Step(p, "failed")
  <2>1. nstatefile' \in StateFile /\ ostatefile' \in StateFile BY <1>0, <1>2 DEF XmssInv, XmssType
  <2> QED BY <1>0, <1>2, <2>1, PcStep
<1> QED BY <1>1, <1>2 DEF RenameState

LEMMA DoneInv ==
  ASSUME XmssInv, NEW p \in Signers, Done(p) PROVE XmssInv'
<1>0. XmssType /\ LockKept BY DEF XmssInv
<1>a. /\ nstatefile' = Absent /\ signer[p].pc \in {"done", "failed"}
      /\ UNCHANGED <<statefile, ostatefile, agent_keys, damage, issued, reused>>
  BY DEF Done, KeepIssued
<1>b. lockholder = p BY <1>0, <1>a DEF LockKept
<1>1. CASE signer[p].pc = "failed"
  <2>1. lockholder' = 0 /\ signer' = [signer EXCEPT ![p] = Idle_signer]
    BY <1>1 DEF Done, Unlocked
  <2>2. nstatefile' \in StateFile BY <1>a DEF StateFile
  <2> QED BY <1>a, <1>b, <2>1, <2>2, GiveUp
<1>2. CASE signer[p].pc = "done"
  <2> DEFINE s == [signer[p] EXCEPT !.pc = "return"]
  <2>1. signer[p] \in Signer BY <1>0, SignerFields
  <2>2. lockholder' = 0 /\ signer' = [signer EXCEPT ![p] = s] BY <1>2 DEF Done
  <2>3. /\ s \in Signer /\ s.pc = "return" /\ s.sk = signer[p].sk /\ s.first = signer[p].first
        /\ s.op = signer[p].op /\ s.have_state = signer[p].have_state
    BY <2>1 DEF Signer, Pc
  <2> HIDE DEF s
  <2>4. /\ signer' \in [Signers -> Signer] /\ signer'[p] = s
        /\ \A q \in Signers : q # p => signer'[q] = signer[q]
    BY <1>0, <2>2, <2>3 DEF XmssType
  <2>5. XmssType' BY <1>0, <1>a, <2>2, <2>4 DEF XmssType, StateFile
  <2>6. LockKept'
    <3>1. \A q \in Signers : q # p => signer[q].pc \in {"idle", "return"} BY <1>0, <1>b, OthersOut
    <3>2. 0 \notin Signers BY XmssAssumption
    <3> QED BY <2>2, <2>3, <2>4, <3>1, <3>2 DEF LockKept
  <2>7. ASSUME ~damage.gap, XmssSafe PROVE XmssSafe'
    <3>1. \A q \in Signers : /\ Taking(q)' <=> Taking(q)
                             /\ signer'[q].first = signer[q].first /\ signer'[q].sk = signer[q].sk
      BY <1>2, <2>3, <2>4 DEF Taking
    <3>2. Apart' BY <1>a, <2>7, <3>1 DEF XmssSafe, Apart
    <3>3. \A n \in Int : Below(n) => BelowOf(n, issued', agent_keys', signer')
      BY <1>a, <3>1 DEF Below, BelowOf, Taking
    <3>4. FilesLead' BY <1>0, <1>a, <2>5, <2>7, <3>3, FilesQuiet DEF XmssSafe, XmssType
    <3>5. ASSUME NEW q \in Signers PROVE SignerAt(q)'
      <4>1. SignerAt(q) BY <2>7 DEF XmssSafe
      <4>2. CASE q = p
        <5>1. forward(p)' = forward(p) BY <2>3, <2>4 DEF forward
        <5> QED BY <1>2, <1>a, <2>3, <2>4, <4>1, <4>2, <5>1 DEF SignerAt
      <4>3. CASE q # p BY <1>0, <1>a, <1>b, <2>4, <3>3, <4>1, <4>3, OthersAt
      <4> QED BY <4>2, <4>3
    <3> QED BY <3>2, <3>4, <3>5 DEF XmssSafe
  <2> QED BY <1>a, <2>5, <2>6, <2>7 DEF XmssInv
<1> QED BY <1>a, <1>1, <1>2

(***************************************************************************)
(* Indices are used.                                                       *)
(***************************************************************************)
LEMMA ReturnInv ==
  ASSUME XmssInv, NEW p \in Signers, Return(p) PROVE XmssInv'
<1>0. XmssType /\ LockKept BY DEF XmssInv
<1>a. /\ signer[p].pc = "return" /\ signer' = [signer EXCEPT ![p] = Idle_signer]
      /\ UNCHANGED <<statefile, ostatefile, nstatefile, lockholder, damage>>
  BY DEF Return
<1> DEFINE f == signer[p].first
           n == signer[p].sk
           new == [sk |-> f, maxidx |-> f + Maxsign]
<1>1. f \in Nat /\ n \in Nat /\ signer[p].op \in {"none", "sign", "add"} BY <1>0, SignerFields
<1>2. /\ signer' \in [Signers -> Signer] /\ signer'[p] = Idle_signer
      /\ \A q \in Signers : q # p => signer'[q] = signer[q]
  BY <1>0, <1>a, IdleSigner DEF XmssType
<1>4. \/ /\ signer[p].op = "sign" /\ issued' = issued \cup {f} /\ reused' = (reused \/ f \in issued)
         /\ agent_keys' = agent_keys
      \/ /\ signer[p].op # "sign" /\ agent_keys' = agent_keys \cup {new}
         /\ issued' = issued /\ reused' = reused
  BY DEF Return, Issue, KeepIssued
<1>5. new \in [sk : Nat, maxidx : Nat] /\ new.sk = f /\ new.maxidx = f + Maxsign
  BY <1>1, XmssAssumption
<1> HIDE DEF f, n, new
<1>6. XmssType'
  <2>1. issued' \subseteq Nat /\ reused' \in BOOLEAN BY <1>0, <1>1, <1>4 DEF XmssType
  <2>2. agent_keys' \subseteq [sk : Nat, maxidx : Nat] BY <1>0, <1>4, <1>5 DEF XmssType
  <2> QED BY <1>0, <1>a, <1>2, <2>1, <2>2 DEF XmssType
<1>7. LockKept' BY <1>0, <1>a, <1>2, IdleSigner DEF LockKept
<1>8. ASSUME ~damage.gap, XmssSafe PROVE XmssSafe'
  <2>1. SignerAt(p) /\ Apart /\ FilesLead BY <1>8 DEF XmssSafe
  <2>2. Taking(p) /\ f < n /\ n = f + forward(p) BY <1>a, <2>1 DEF SignerAt, Taking, f, n
  <2>3. /\ \A i \in issued : i \in Nat /\ Outside(i, f, n)
        /\ \A k \in agent_keys : k.sk \in Nat /\ k.maxidx \in Nat /\ Disjoint(k.sk, k.maxidx, f, n)
        /\ \A q \in Signers : q # p /\ Taking(q) => Disjoint(signer[q].first, signer[q].sk, f, n)
    BY <1>0, <2>1, <2>2 DEF Apart, XmssType, f, n
  <2>4. \A q \in Signers : Taking(q)' => q # p /\ Taking(q) /\ signer'[q] = signer[q]
    BY <1>2, IdleSigner DEF Taking
  <2>5. \A q \in Signers : signer[q].sk \in Nat /\ signer[q].first \in Nat BY <1>0, SignerFields
  <2>6. ASSUME signer[p].op = "sign", issued' = issued \cup {f}, reused' = (reused \/ f \in issued),
               agent_keys' = agent_keys
        PROVE  Apart' /\ \A m \in Int : Below(m) => BelowOf(m, issued', agent_keys', signer')
    <3>1. n = f + 1 BY <2>2, <2>6 DEF forward
    <3>2. f \notin issued BY <1>1, <2>3, <3>1 DEF Outside
    <3>3. \A k \in agent_keys : Outside(f, k.sk, k.maxidx)
      BY <1>1, <2>3, <3>1 DEF Outside, Disjoint
    <3>4. \A q \in Signers : Taking(q)' => Outside(f, signer'[q].first, signer'[q].sk)
      BY <1>1, <2>3, <2>4, <2>5, <3>1 DEF Outside, Disjoint
    <3>5. Apart' BY <2>1, <2>4, <2>6, <3>2, <3>3, <3>4 DEF Apart
    <3>6. \A m \in Int : Below(m) => BelowOf(m, issued', agent_keys', signer')
      <4> SUFFICES ASSUME NEW m \in Int, Below(m) PROVE BelowOf(m, issued', agent_keys', signer')
        OBVIOUS
      <4>1. n <= m BY <2>2 DEF Below, BelowOf, Taking, n
      <4>2. f < m BY <1>1, <2>2, <4>1
      <4> QED BY <2>4, <2>6, <4>2 DEF Below, BelowOf, Taking
    <3> QED BY <3>5, <3>6
  <2>7. ASSUME signer[p].op # "sign", agent_keys' = agent_keys \cup {new}, issued' = issued,
               reused' = reused
        PROVE  Apart' /\ \A m \in Int : Below(m) => BelowOf(m, issued', agent_keys', signer')
    <3>1. new.maxidx = n /\ new.sk = f BY <1>5, <2>2, <2>7 DEF forward
    <3>2. \A k, l \in agent_keys' : k # l => Disjoint(k.sk, k.maxidx, l.sk, l.maxidx)
      <4>1. \A k \in agent_keys : /\ Disjoint(k.sk, k.maxidx, new.sk, new.maxidx)
                                 /\ Disjoint(new.sk, new.maxidx, k.sk, k.maxidx)
        BY <2>3, <3>1 DEF Disjoint
      <4> QED BY <2>1, <2>7, <4>1 DEF Apart
    <3>3. \A k \in agent_keys' : k.sk <= k.maxidx BY <1>1, <2>1, <2>2, <2>7, <3>1 DEF Apart
    <3>4. \A i \in issued' : \A k \in agent_keys' : Outside(i, k.sk, k.maxidx)
      BY <2>1, <2>3, <2>7, <3>1 DEF Apart
    <3>5. \A q \in Signers : Taking(q)' =>
            \A k \in agent_keys' : Disjoint(k.sk, k.maxidx, signer'[q].first, signer'[q].sk)
      <4>1. \A q \in Signers : Taking(q)' => Disjoint(new.sk, new.maxidx, signer'[q].first, signer'[q].sk)
        BY <2>3, <2>4, <3>1 DEF Disjoint
      <4> QED BY <2>1, <2>4, <2>7, <4>1 DEF Apart
    <3>6. Apart' BY <2>1, <2>4, <2>7, <3>2, <3>3, <3>4, <3>5 DEF Apart
    <3>7. \A m \in Int : Below(m) => BelowOf(m, issued', agent_keys', signer')
      <4> SUFFICES ASSUME NEW m \in Int, Below(m) PROVE BelowOf(m, issued', agent_keys', signer')
        OBVIOUS
      <4>1. n <= m BY <2>2 DEF Below, BelowOf, Taking, n
      <4> QED BY <2>4, <2>7, <3>1, <4>1 DEF Below, BelowOf, Taking
    <3> QED BY <3>6, <3>7
  <2>8. Apart' /\ \A m \in Int : Below(m) => BelowOf(m, issued', agent_keys', signer')
    BY <1>4, <2>6, <2>7
  <2>9. FilesLead' BY <1>0, <1>a, <1>6, <2>1, <2>8, FilesQuiet DEF XmssType
  <2>10. SignerAt(p)' BY <1>2, IdleSigner DEF SignerAt
  <2>11. \A q \in Signers : q # p => SignerAt(q)' BY <1>0, <1>a, <1>2, <1>8, <2>8, OthersAt DEF XmssSafe
  <2> QED BY <2>8, <2>9, <2>10, <2>11 DEF XmssSafe
<1> QED BY <1>a, <1>6, <1>7, <1>8 DEF XmssInv

LEMMA AgentSignsInv ==
  ASSUME XmssInv, NEW k \in agent_keys, AgentSigns(k) PROVE XmssInv'
<1>0. XmssType /\ LockKept BY DEF XmssInv
<1> DEFINE i == k.sk
           new == [k EXCEPT !.sk = @ + 1]
<1>1. k \in [sk : Nat, maxidx : Nat] /\ i \in Nat /\ k.maxidx \in Nat BY <1>0 DEF XmssType
<1>2. /\ i < k.maxidx /\ issued' = issued \cup {i} /\ reused' = (reused \/ i \in issued)
      /\ agent_keys' = (agent_keys \ {k}) \cup {new}
      /\ UNCHANGED <<statefile, ostatefile, nstatefile, lockholder, signer, damage>>
  BY DEF AgentSigns, Issue
<1>3. new \in [sk : Nat, maxidx : Nat] /\ new.sk = i + 1 /\ new.maxidx = k.maxidx BY <1>1
<1>4. k.sk = i OBVIOUS
<1> HIDE DEF i, new
<1>5. XmssType'
  <2>1. issued' \subseteq Nat /\ reused' \in BOOLEAN BY <1>0, <1>1, <1>2 DEF XmssType
  <2>2. agent_keys' \subseteq [sk : Nat, maxidx : Nat] BY <1>0, <1>2, <1>3 DEF XmssType
  <2> QED BY <1>0, <1>2, <2>1, <2>2 DEF XmssType
<1>6. LockKept' BY <1>0, <1>2 DEF LockKept
<1>7. ASSUME ~damage.gap, XmssSafe PROVE XmssSafe'
  <2>1. Apart /\ FilesLead BY <1>7 DEF XmssSafe
  <2>2. /\ \A j \in issued : j \in Nat /\ Outside(j, i, k.maxidx)
        /\ \A l \in agent_keys : l.sk \in Nat /\ l.maxidx \in Nat
        /\ \A l \in agent_keys : l # k => /\ Disjoint(l.sk, l.maxidx, i, k.maxidx)
                                         /\ Disjoint(i, k.maxidx, l.sk, l.maxidx)
        /\ \A q \in Signers : Taking(q) => Disjoint(i, k.maxidx, signer[q].first, signer[q].sk)
    BY <1>0, <1>4, <2>1 DEF Apart, XmssType
  <2>3. \A q \in Signers : (Taking(q)' <=> Taking(q)) /\ signer'[q] = signer[q] BY <1>2 DEF Taking
  <2>4. \A q \in Signers : signer[q].sk \in Nat /\ signer[q].first \in Nat BY <1>0, SignerFields
  <2>5. ~reused'
    <3>1. i \notin issued BY <1>1, <1>2, <2>2 DEF Outside
    <3> QED BY <1>2, <2>1, <3>1 DEF Apart
  <2>6. \A l \in agent_keys : l # k => /\ Disjoint(l.sk, l.maxidx, new.sk, new.maxidx)
                                      /\ Disjoint(new.sk, new.maxidx, l.sk, l.maxidx)
    BY <1>1, <1>2, <1>3, <2>1, <2>2 DEF Disjoint, Apart
  <2>7. \A l, m \in agent_keys' : l # m => Disjoint(l.sk, l.maxidx, m.sk, m.maxidx)
    BY <1>2, <2>1, <2>6 DEF Apart
  <2>8. \A l \in agent_keys' : l.sk <= l.maxidx BY <1>1, <1>2, <1>3, <2>1 DEF Apart
  <2>9. \A j \in issued' : \A l \in agent_keys' : Outside(j, l.sk, l.maxidx)
    <3>1. \A j \in issued : Outside(j, new.sk, new.maxidx) BY <1>1, <1>3, <2>2 DEF Outside
    <3>2. Outside(i, new.sk, new.maxidx) BY <1>1, <1>3 DEF Outside
    <3>3. \A l \in agent_keys : l # k => Outside(i, l.sk, l.maxidx)
      BY <1>1, <1>2, <2>1, <2>2 DEF Outside, Disjoint, Apart
    <3>4. \A j \in issued : \A l \in agent_keys : Outside(j, l.sk, l.maxidx) BY <2>1 DEF Apart
    <3> QED BY <1>2, <3>1, <3>2, <3>3, <3>4
  <2>10. ASSUME NEW q \in Signers, Taking(q)
         PROVE  /\ \A j \in issued' : Outside(j, signer[q].first, signer[q].sk)
                /\ \A l \in agent_keys' : Disjoint(l.sk, l.maxidx, signer[q].first, signer[q].sk)
    <3>1. SignerAt(q) BY <1>7 DEF XmssSafe
    <3>2. signer[q].first < signer[q].sk BY <2>10, <3>1 DEF SignerAt, Taking
    <3>3. Outside(i, signer[q].first, signer[q].sk)
      BY <1>1, <1>2, <2>2, <2>4, <2>10, <3>2 DEF Outside, Disjoint
    <3>4. Disjoint(new.sk, new.maxidx, signer[q].first, signer[q].sk)
      BY <1>1, <1>2, <1>3, <2>2, <2>4, <2>10, <3>2 DEF Disjoint
    <3> QED BY <1>2, <2>1, <2>10, <3>3, <3>4 DEF Apart
  <2>11. Apart' BY <2>1, <2>3, <2>5, <2>7, <2>8, <2>9, <2>10 DEF Apart
  <2>12. \A m \in Int : Below(m) => BelowOf(m, issued', agent_keys', signer')
    <3> SUFFICES ASSUME NEW m \in Int, Below(m) PROVE BelowOf(m, issued', agent_keys', signer')
      OBVIOUS
    <3>1. i < m /\ k.maxidx <= m BY <1>1, <1>2 DEF Below, BelowOf
    <3>2. \A l \in agent_keys' : l.maxidx <= m BY <1>2, <1>3, <3>1 DEF Below, BelowOf
    <3> QED BY <1>2, <3>1, <3>2 DEF Below, BelowOf
  <2>13. FilesLead' BY <1>0, <1>2, <1>5, <2>1, <2>12, FilesQuiet DEF XmssType
  <2>14. \A q \in Signers : SignerAt(q)' BY <1>0, <1>2, <1>7, <2>3, <2>12, OthersAt DEF XmssSafe
  <2> QED BY <2>11, <2>13, <2>14 DEF XmssSafe
<1> QED BY <1>2, <1>5, <1>6, <1>7 DEF XmssInv

(* The file .state is damaged: .ostate leads far enough but for a gap. *)
LEMMA DamageStateInv ==
  ASSUME XmssInv, DamageState PROVE XmssInv'
<1>0. XmssType /\ LockKept BY DEF XmssInv
<1>1. /\ statefile >= 0 /\ statefile' = Damaged
      /\ damage' = [n |-> damage.n + 1, gap |-> damage.gap \/ statefile > ostatefile + 1]
      /\ UNCHANGED <<ostatefile, nstatefile, lockholder, signer, agent_keys, issued, reused>>
  BY DEF DamageState, KeepIssued
<1>2. damage' \in [n : Nat, gap : BOOLEAN]
  <2>1. damage.n \in Nat /\ damage.gap \in BOOLEAN BY <1>0 DEF XmssType
  <2> QED BY <1>1, <2>1
<1>3. XmssType' BY <1>0, <1>1, <1>2 DEF XmssType, StateFile
<1>4. LockKept' BY <1>0, <1>1 DEF LockKept
<1>5. ASSUME ~damage'.gap PROVE XmssSafe'
  <2>1. ~damage.gap /\ ~(statefile > ostatefile + 1) BY <1>1, <1>5
  <2>2. statefile \in Int /\ ostatefile \in Int BY <1>0 DEF XmssType, StateFile, Absent, Damaged
  <2>3. XmssSafe BY <2>1 DEF XmssInv
  <2>4. Below(statefile) BY <1>1, <2>3 DEF XmssSafe, FilesLead
  <2>5. Below(ostatefile + 1) BY <1>0, <2>1, <2>2, <2>4, BelowMore
  <2>6. BelowOf(ostatefile' + 1, issued', agent_keys', signer') BY <1>1, <2>5 DEF Below
  <2>7. FilesLead' BY <1>1, <2>6 DEF FilesLead, Below, Absent, Damaged
  <2>8. Apart' BY <1>1, <2>3 DEF XmssSafe, Apart, Taking
  <2>9. \A m \in Int : Below(m) => BelowOf(m, issued', agent_keys', signer') BY <1>1 DEF Below
  <2>10. statefile' # Absent BY <1>1 DEF Absent, Damaged
  <2>11. \A q \in Signers : SignerAt(q)' BY <1>0, <1>1, <2>3, <2>9, <2>10, OthersAt DEF XmssSafe
  <2> QED BY <2>7, <2>8, <2>11 DEF XmssSafe
<1> QED BY <1>3, <1>4, <1>5 DEF XmssInv

----------------------------------------------------------------------------
LEMMA XmssStartInv == XmssStart => XmssInv
<1> SUFFICES ASSUME XmssStart PROVE XmssInv OBVIOUS
<1>1. \A p \in Signers : signer[p] = Idle_signer /\ signer[p].pc = "idle" BY IdleSigner DEF XmssStart
<1>2. XmssType BY IdleSigner DEF XmssStart, XmssType, StateFile
<1>3. LockKept BY <1>1, XmssAssumption DEF XmssStart, LockKept
<1>4. Below(0) BY <1>1 DEF XmssStart, Below, BelowOf
<1>5. FilesLead BY <1>4 DEF FilesLead, XmssStart, Absent, Damaged
<1>6. Apart BY <1>1 DEF Apart, Taking, XmssStart
<1>7. \A p \in Signers : SignerAt(p) BY <1>1 DEF SignerAt
<1> QED BY <1>2, <1>3, <1>5, <1>6, <1>7 DEF XmssInv, XmssSafe

LEMMA XmssStep == XmssInv /\ [XmssNext]_xmssVars => XmssInv'
<1> SUFFICES ASSUME XmssInv, [XmssNext]_xmssVars PROVE XmssInv' OBVIOUS
<1>1. CASE UNCHANGED xmssVars
  BY <1>1 DEF xmssVars, XmssInv, XmssType, LockKept, XmssSafe, FilesLead, Apart, SignerAt, Taking,
     Below, forward
<1>2. ASSUME NEW p \in Signers, NEW op \in {"sign", "add"}, Lock(p, op) PROVE XmssInv'
  BY <1>2, LockInv
<1>3. ASSUME NEW p \in Signers, sshkey_xmss_get_state(p) PROVE XmssInv' BY <1>3, GetStateInv
<1>4. ASSUME NEW p \in Signers, UseIndex(p) PROVE XmssInv' BY <1>4, UseIndexInv
<1>5. ASSUME NEW p \in Signers, WriteState(p) PROVE XmssInv' BY <1>5, WriteStateInv
<1>6. ASSUME NEW p \in Signers, UnlinkOstate(p) PROVE XmssInv' BY <1>6, UnlinkOstateInv
<1>7. ASSUME NEW p \in Signers, LinkOstate(p) PROVE XmssInv' BY <1>7, LinkOstateInv
<1>8. ASSUME NEW p \in Signers, RenameState(p) PROVE XmssInv' BY <1>8, RenameStateInv
<1>9. ASSUME NEW p \in Signers, Done(p) PROVE XmssInv' BY <1>9, DoneInv
<1>10. ASSUME NEW p \in Signers, Return(p) PROVE XmssInv' BY <1>10, ReturnInv
<1>11. ASSUME NEW p \in Signers, Killed(p) PROVE XmssInv' BY <1>11, KilledInv
<1>12. ASSUME NEW k \in agent_keys, AgentSigns(k) PROVE XmssInv' BY <1>12, AgentSignsInv
<1>13. CASE DamageState BY <1>13, DamageStateInv
<1> QED BY <1>1, <1>2, <1>3, <1>4, <1>5, <1>6, <1>7, <1>8, <1>9, <1>10, <1>11, <1>12, <1>13
        DEF XmssNext

LEMMA XmssInvImplies == XmssInv => OneTimeKeys
<1> SUFFICES ASSUME XmssInv, ~damage.gap PROVE OneTimeKeys
  BY DEF OneTimeKeys, NoIndexTwice, IndicesApart
<1>1. FilesLead /\ Apart BY DEF XmssInv, XmssSafe
<1> QED BY <1>1 DEF OneTimeKeys, NoIndexTwice, IndicesApart, Apart, Disjoint, FilesLead, Below, BelowOf

(***************************************************************************)
(* No one-time key signs twice, however many processes sign, give indices  *)
(* to the agent or are killed between two steps of                         *)
(* sshkey_xmss_update_state(), and after the file .state is damaged too,   *)
(* as long as .ostate is one index behind it.                              *)
(***************************************************************************)
THEOREM IndicesUsedOnce == XmssSpec => []OneTimeKeys
<1>1. XmssStart => XmssInv BY XmssStartInv
<1>2. XmssInv /\ [XmssNext]_xmssVars => XmssInv' BY XmssStep
<1>3. XmssInv => OneTimeKeys BY XmssInvImplies
<1> QED BY <1>1, <1>2, <1>3, PTL DEF XmssSpec

(***************************************************************************)
(* Hostkeys: programs that read, append to and replace known_hosts without *)
(* a lock.                                                                 *)
(***************************************************************************)
Options == [name : {"host", "host:port"}, strict : {"yes", "ask", "new", "off"},
            check_host_ip : BOOLEAN, update : {"no", "yes", "ask"}, dns : BOOLEAN]
HostNames == {"host", "host:port", "ip", "ip:port"}
Verdicts == [ok : BOOLEAN, asks : BOOLEAN, trusted : BOOLEAN, unsafe : BOOLEAN,
             add : SUBSET HostNames, differs : {"accept", "ask", "refuse"}]
AllKeys == {k.key : k \in Offers} \cup UNION Announced
AllLines == (UNION KnownHosts) \cup [names : SUBSET HostNames, marker : {"none"}, key : AllKeys]
Pcs == {"start", "asking", "differs", "refused", "connected", "proving", "read", "unlink", "link",
        "remove", "rename", "done", "dead"}
Program == [pc : Pcs, o : Options, k : Offers, v : Verdicts, keys : SUBSET AllKeys,
            new : SUBSET AllKeys, temp : SUBSET AllLines]
HostFile == [there : BOOLEAN, lines : SUBSET AllLines]

HostkeysType ==
  /\ known_hosts \in HostFile /\ backup \in HostFile /\ torn \in BOOLEAN
  /\ initial \subseteq AllLines /\ proc \in [Procs -> Program]

(* Keys that may be added to the file: of the host, or proven by it. *)
KeyVerified(key) ==
  \/ \E p \in Procs : Accepted(p) /\ key = proc[p].k.key
  \/ \E m \in initial : m.marker # "none" /\ m.key = key
  \/ /\ key \in Owned \/ \E l \in initial : l.key = key
     /\ \E p \in Procs : proc[p].v.trusted /\ key \in proc[p].keys
Verified(lines) == \A e \in lines \ initial : KeyVerified(e.key)
Marked(lines) == \A e \in initial : e.marker # "none" => e \in lines

(* What a program has found out, and still holds when it is used. *)
ProgramAt(p) ==
  LET s == proc[p] IN
  /\ s.pc = "start" => ~s.v.ok
  /\ s.pc = "asking" => s.v.ok
  /\ s.pc \in {"start", "asking", "differs", "connected"} => s.keys = {}
  /\ s.pc \in {"connected", "differs"} /\ s.o.update # "no" => s.v.trusted
  /\ s.pc \in {"proving", "read"} =>
       s.v.trusted /\ \A k \in s.keys \ s.new : KeyVerified(k) \/ \E l \in initial : l.key = k
  /\ s.pc = "read" => s.new \subseteq Owned
  /\ s.pc \in {"unlink", "link", "remove", "rename"} => Verified(s.temp) /\ (~torn => Marked(s.temp))
  /\ ~torn /\ s.v.ok /\ ~s.o.dns /\ s.o.strict # "off" => ~Revoked(initial, p)

FileAt ==
  /\ ~known_hosts.there => Lines = {}
  /\ Verified(Lines)
  /\ ~torn /\ known_hosts.there => Marked(Lines)

HostkeysInv == HostkeysType /\ FileAt /\ \A p \in Procs : ProgramAt(p)

----------------------------------------------------------------------------
(* The decision on a key. *)
Statuses == {"revoked", "ok", "changed", "new"}

LEMMA StatusRevoked ==
  ASSUME NEW lines, NEW name, NEW k
  PROVE  /\ check_hostkeys_by_key_or_types(lines, name, k) \in Statuses
         /\ check_hostkeys_by_key_or_types(lines, name, k) # "revoked" =>
              check_key_not_revoked({e \in lines : name \in e.names}, k)
<1> DEFINE nr == check_key_not_revoked({e \in lines : name \in e.names}, k)
<1>1. CASE nr
  BY <1>1 DEF check_hostkeys_by_key_or_types, Statuses
<1>2. CASE ~nr
  BY <1>2 DEF check_hostkeys_by_key_or_types, Statuses
<1> QED BY <1>1, <1>2

LEMMA IpNames ==
  ASSUME NEW name \in {"host", "host:port"}
  PROVE  Ip(name) \in HostNames /\ name \in HostNames
BY DEF Ip, HostNames

LEMMA VerdictParts ==
  ASSUME NEW ok \in BOOLEAN, NEW asks \in BOOLEAN, NEW trusted \in BOOLEAN, NEW unsafe \in BOOLEAN,
         NEW add \in SUBSET HostNames
  PROVE  /\ Verdict(ok, asks, trusted, unsafe, add) \in Verdicts
         /\ Verdict(ok, asks, trusted, unsafe, add).ok = ok
         /\ Verdict(ok, asks, trusted, unsafe, add).trusted = trusted
BY DEF Verdict, Verdicts

LEMMA RefusedVerdict == Refused \in Verdicts /\ Refused.ok = FALSE /\ Refused.trusted = FALSE
BY VerdictParts DEF Refused

LEMMA UnsafeVerdict ==
  ASSUME NEW o \in Options
  PROVE  continue_unsafe(o) \in Verdicts /\ (o.strict # "off" => ~continue_unsafe(o).ok)
BY VerdictParts, RefusedVerdict DEF continue_unsafe

LEMMA HostNewVerdict ==
  ASSUME NEW o \in Options, NEW name \in {"host", "host:port"}, NEW s
  PROVE  HostNew(o, name, s) \in Verdicts
<1> DEFINE add == {name} \cup (IF o.check_host_ip /\ s = "new" THEN {Ip(name)} ELSE {})
<1>1. add \in SUBSET HostNames BY IpNames
<1> HIDE DEF add
<1>2. Verdict(TRUE, TRUE, TRUE, FALSE, add) \in Verdicts BY <1>1, VerdictParts
<1>3. Verdict(TRUE, FALSE, FALSE, FALSE, add) \in Verdicts BY <1>1, VerdictParts
<1>4. HostNew(o, name, s) \in {Refused, Verdict(TRUE, TRUE, TRUE, FALSE, add),
                               Verdict(TRUE, FALSE, FALSE, FALSE, add)}
  BY DEF HostNew, add
<1> QED BY <1>2, <1>3, <1>4, RefusedVerdict

LEMMA HostOkVerdict ==
  ASSUME NEW o \in Options, NEW name \in {"host", "host:port"}, NEW k, NEW s, NEW ro
  PROVE  HostOk(o, name, k, s, ro) \in Verdicts
<1> DEFINE add == IF o.check_host_ip /\ s = "new" /\ ~k.cert /\ ~ro THEN {Ip(name)} ELSE {}
<1>1. add \in SUBSET HostNames BY IpNames
<1> HIDE DEF add
<1>2. Verdict(TRUE, FALSE, TRUE, FALSE, add) \in Verdicts BY <1>1, VerdictParts
<1>3. HostOk(o, name, k, s, ro) \in {Refused, Verdict(TRUE, FALSE, TRUE, FALSE, add)}
  BY DEF HostOk, add
<1> QED BY <1>2, <1>3, RefusedVerdict

LEMMA DiffersVerdict ==
  ASSUME NEW o \in Options, NEW v \in Verdicts
  PROVE  AddressDiffers(o, v) \in Verdicts /\ AddressDiffers(o, v).ok = v.ok
<1> DEFINE d == CASE o.strict = "ask" -> "ask" [] o.strict = "off" -> "accept" [] OTHER -> "refuse"
<1>1. d \in {"accept", "ask", "refuse"} OBVIOUS
<1>2. AddressDiffers(o, v) = [v EXCEPT !.differs = d] BY DEF AddressDiffers
<1> HIDE DEF d
<1> QED BY <1>1, <1>2 DEF Verdicts

(* A revoked key is accepted without strict checking only. *)
LEMMA DecisionOf ==
  ASSUME NEW o \in Options, NEW name \in {"host", "host:port"}, NEW k, NEW hs \in Statuses, NEW ips,
         NEW other \in Verdicts, NEW ro
  PROVE  /\ Decision(o, name, k, hs, ips, other, ro).verdict \in Verdicts
         /\ Decision(o, name, k, hs, ips, other, ro).status = hs
         /\ hs = "revoked" /\ o.strict # "off" => ~Decision(o, name, k, hs, ips, other, ro).verdict.ok
<1> DEFINE verdict ==
            CASE hs = "ok" -> HostOk(o, name, k, ips, ro)
              [] hs = "new" /\ Accepts(other) -> [other EXCEPT !.trusted = FALSE]
              [] hs = "new" /\ ~Accepts(other) ->
                    IF ro \/ k.cert THEN Refused ELSE HostNew(o, name, ips)
              [] hs = "revoked" -> continue_unsafe(o)
              [] hs = "changed" -> IF ro THEN Refused ELSE continue_unsafe(o)
           d == IF /\ verdict.ok /\ o.check_host_ip /\ verdict.differs = "accept"
                       /\ hs # "changed" /\ ips = "changed"
                THEN AddressDiffers(o, verdict) ELSE verdict
<1>1. verdict \in Verdicts
  <2>1. CASE hs = "ok" BY <2>1, HostOkVerdict
  <2>2. CASE hs = "new" /\ Accepts(other)
    <3>1. [other EXCEPT !.trusted = FALSE] \in Verdicts BY DEF Verdicts
    <3> QED BY <2>2, <3>1
  <2>3. CASE hs = "new" /\ ~Accepts(other)
    <3>1. HostNew(o, name, ips) \in Verdicts BY HostNewVerdict
    <3> QED BY <2>3, <3>1, RefusedVerdict
  <2>4. CASE hs = "revoked" BY <2>4, UnsafeVerdict
  <2>5. CASE hs = "changed"
    <3>1. continue_unsafe(o) \in Verdicts BY UnsafeVerdict
    <3> QED BY <2>5, <3>1, RefusedVerdict
  <2> QED BY <2>1, <2>2, <2>3, <2>4, <2>5 DEF Statuses
<1>2. hs = "revoked" => verdict = continue_unsafe(o) OBVIOUS
<1>3. Decision(o, name, k, hs, ips, other, ro) = [status |-> hs, verdict |-> d] BY DEF Decision
<1> HIDE DEF verdict
<1>4. d \in Verdicts /\ d.ok = verdict.ok BY <1>1, DiffersVerdict
<1> HIDE DEF d
<1>5. hs = "revoked" /\ o.strict # "off" => ~verdict.ok BY <1>2, UnsafeVerdict
<1> QED BY <1>3, <1>4, <1>5

LEMMA CheckFormOf ==
  ASSUME NEW lines, NEW o \in Options, NEW name \in {"host", "host:port"}, NEW k, NEW ips,
         NEW other \in Verdicts, NEW ro
  PROVE  LET form == CheckForm(lines, o, name, k, ips, other, ro) IN
         /\ form.verdict \in Verdicts
         /\ form.status # "revoked" => check_key_not_revoked({e \in lines : name \in e.names}, k)
         /\ form.status = "revoked" /\ o.strict # "off" => ~form.verdict.ok
<1> DEFINE hs == check_hostkeys_by_key_or_types(lines, name, k)
           is == IF ips /\ ~k.cert THEN check_hostkeys_by_key_or_types(lines, Ip(name), k) ELSE hs
<1>1. CheckForm(lines, o, name, k, ips, other, ro) = Decision(o, name, k, hs, is, other, ro)
  BY DEF CheckForm
<1>2. hs \in Statuses /\ (hs # "revoked" => check_key_not_revoked({e \in lines : name \in e.names}, k))
  BY StatusRevoked
<1> HIDE DEF hs, is
<1>3. /\ Decision(o, name, k, hs, is, other, ro).verdict \in Verdicts
      /\ Decision(o, name, k, hs, is, other, ro).status = hs
      /\ hs = "revoked" /\ o.strict # "off" => ~Decision(o, name, k, hs, is, other, ro).verdict.ok
  BY <1>2, DecisionOf
<1> QED BY <1>1, <1>2, <1>3

LEMMA CheckFormsOf ==
  ASSUME NEW lines, NEW o \in Options, NEW name \in {"host", "host:port"}, NEW k,
         NEW other \in Verdicts, NEW otherPlain \in Verdicts, NEW ro
  PROVE  /\ CheckForms(lines, o, name, k, other, otherPlain, ro) \in Verdicts
         /\ CheckForms(lines, o, name, k, other, otherPlain, ro).ok /\ o.strict # "off" =>
              check_key_not_revoked({e \in lines : name \in e.names}, k)
<1> DEFINE first == CheckForm(lines, o, name, k, o.check_host_ip /\ ~k.cert, other, ro)
           plain == CheckForm(lines, o, name, PlainForm(k), FALSE, otherPlain, ro)
<1>1. /\ first.verdict \in Verdicts
      /\ first.status # "revoked" => check_key_not_revoked({e \in lines : name \in e.names}, k)
      /\ first.status = "revoked" /\ o.strict # "off" => ~first.verdict.ok
  BY CheckFormOf
<1>2. plain.verdict \in Verdicts BY CheckFormOf
<1>3. CheckForms(lines, o, name, k, other, otherPlain, ro) =
        IF k.cert /\ ~first.verdict.ok /\ first.status # "revoked" THEN plain.verdict ELSE first.verdict
  BY DEF CheckForms
<1> HIDE DEF first, plain
<1> QED BY <1>1, <1>2, <1>3

(* A key that check_host_key() accepts under strict checking is not revoked for the name. *)
LEMMA CheckHostKeyOf ==
  ASSUME NEW lines, NEW o \in Options, NEW k
  PROVE  /\ check_host_key(lines, o, k) \in Verdicts
         /\ check_host_key(lines, o, k).ok /\ o.strict # "off" =>
              check_key_not_revoked({e \in lines : o.name \in e.names}, k)
<1> DEFINE W(key) == CheckForms(lines, o, "host", key, Refused, Refused, TRUE)
<1>0. o.name \in {"host", "host:port"} BY DEF Options
<1>1. W(k) \in Verdicts /\ W(PlainForm(k)) \in Verdicts BY CheckFormsOf, RefusedVerdict
<1>2. check_host_key(lines, o, k) =
        IF o.name = "host" THEN CheckForms(lines, o, "host", k, Refused, Refused, FALSE)
        ELSE CheckForms(lines, o, o.name, k, W(k), W(PlainForm(k)), FALSE)
  BY DEF check_host_key
<1> HIDE DEF W
<1>3. CASE o.name = "host"
  <2>1. /\ CheckForms(lines, o, "host", k, Refused, Refused, FALSE) \in Verdicts
        /\ CheckForms(lines, o, "host", k, Refused, Refused, FALSE).ok /\ o.strict # "off" =>
              check_key_not_revoked({e \in lines : "host" \in e.names}, k)
    BY CheckFormsOf, RefusedVerdict
  <2> QED BY <1>2, <1>3, <2>1
<1>4. CASE o.name # "host"
  <2>1. /\ CheckForms(lines, o, o.name, k, W(k), W(PlainForm(k)), FALSE) \in Verdicts
        /\ CheckForms(lines, o, o.name, k, W(k), W(PlainForm(k)), FALSE).ok /\ o.strict # "off" =>
              check_key_not_revoked({e \in lines : o.name \in e.names}, k)
    BY <1>0, <1>1, CheckFormsOf
  <2> QED BY <1>2, <1>4, <2>1
<1> QED BY <1>3, <1>4

(* Revocations of a file are among those of a larger one. *)
LEMMA NotRevokedBefore ==
  ASSUME NEW lines, Marked(lines), NEW p \in Procs,
         check_key_not_revoked({e \in lines : proc[p].o.name \in e.names}, proc[p].k)
  PROVE  ~Revoked(initial, p)
BY DEF Marked, Revoked, check_key_not_revoked

----------------------------------------------------------------------------
(* Steps of the programs. *)
ProgramFields ==
  \A p \in Procs : /\ proc[p] \in Program /\ proc[p].pc \in Pcs /\ proc[p].o \in Options
                   /\ proc[p].k \in Offers /\ proc[p].v \in Verdicts /\ proc[p].keys \subseteq AllKeys
                   /\ proc[p].new \subseteq AllKeys /\ proc[p].temp \subseteq AllLines

LEMMA FieldsTyped == ASSUME HostkeysType PROVE ProgramFields
BY DEF HostkeysType, ProgramFields, Program

(* p goes on as r: what it accepted or was told stays, and so does what rests on it. *)
GoesOn(p, r) ==
  /\ proc' = [proc EXCEPT ![p] = r] /\ r \in Program
  /\ r.k = proc[p].k
  /\ Accepted(p) => r.pc \notin {"start", "asking"} /\ r.v.ok
  /\ proc[p].v.trusted /\ proc[p].keys # {} => r.v.trusted /\ proc[p].keys \subseteq r.keys
  /\ initial' = initial /\ torn' \in BOOLEAN /\ (torn => torn')

LEMMA StaysVerified ==
  ASSUME HostkeysType, NEW p \in Procs, NEW r, GoesOn(p, r)
  PROVE  /\ \A key : KeyVerified(key) => KeyVerified(key)'
         /\ \A lines : Verified(lines) => \A e \in lines \ initial' : KeyVerified(e.key)'
         /\ \A q \in Procs : q # p => proc'[q] = proc[q]
         /\ proc'[p] = r
<1>1. proc'[p] = r /\ \A q \in Procs : q # p => proc'[q] = proc[q] BY DEF GoesOn, HostkeysType
<1>2. ASSUME NEW q \in Procs, Accepted(q) PROVE Accepted(q)' /\ proc'[q].k = proc[q].k
  BY <1>1, <1>2 DEF GoesOn, Accepted
<1>3. ASSUME NEW q \in Procs, NEW key, proc[q].v.trusted, key \in proc[q].keys
      PROVE  proc'[q].v.trusted /\ key \in proc'[q].keys
  BY <1>1, <1>3 DEF GoesOn
<1>4. ASSUME NEW key, KeyVerified(key) PROVE KeyVerified(key)'
  <2>1. initial' = initial BY DEF GoesOn
  <2>2. CASE \E q \in Procs : Accepted(q) /\ key = proc[q].k.key
    BY <2>2, <1>2 DEF KeyVerified
  <2>3. CASE \E m \in initial : m.marker # "none" /\ m.key = key
    BY <2>3, <2>1 DEF KeyVerified
  <2>4. CASE /\ key \in Owned \/ \E l \in initial : l.key = key
             /\ \E q \in Procs : proc[q].v.trusted /\ key \in proc[q].keys
    BY <2>4, <2>1, <1>3 DEF KeyVerified
  <2> QED BY <1>4, <2>2, <2>3, <2>4 DEF KeyVerified
<1>5. initial' = initial BY DEF GoesOn
<1> QED BY <1>1, <1>4, <1>5 DEF Verified

(* The other programs are where they were. *)
LEMMA OthersStay ==
  ASSUME HostkeysInv, NEW p \in Procs, NEW r, GoesOn(p, r), NEW q \in Procs, q # p
  PROVE  ProgramAt(q)'
<1>1. /\ \A key : KeyVerified(key) => KeyVerified(key)'
      /\ \A lines : Verified(lines) => \A e \in lines \ initial' : KeyVerified(e.key)'
      /\ proc'[q] = proc[q]
  BY StaysVerified DEF HostkeysInv
<1>2. ProgramAt(q) BY DEF HostkeysInv
<1>3. initial' = initial /\ (~torn' => ~torn) BY DEF GoesOn
<1> DEFINE s == proc[q]
<1>4. s.pc \in {"proving", "read"} =>
       s.v.trusted /\ \A k \in s.keys \ s.new : KeyVerified(k)' \/ \E l \in initial' : l.key = k
  BY <1>1, <1>2, <1>3 DEF ProgramAt
<1>5. s.pc \in {"unlink", "link", "remove", "rename"} =>
        Verified(s.temp) /\ (~torn' => Marked(s.temp))
  BY <1>2, <1>3 DEF ProgramAt
<1>6. s.pc \in {"unlink", "link", "remove", "rename"} => Verified(s.temp)' /\ (~torn' => Marked(s.temp)')
  BY <1>1, <1>3, <1>5 DEF Verified, Marked
<1>7. ~torn' /\ s.v.ok /\ ~s.o.dns /\ s.o.strict # "off" => ~Revoked(initial, q)'
  BY <1>1, <1>2, <1>3 DEF ProgramAt, Revoked
<1> QED BY <1>1, <1>2, <1>4, <1>6, <1>7 DEF ProgramAt

LEMMA InvAfter ==
  ASSUME HostkeysInv, NEW p \in Procs, NEW r, GoesOn(p, r), known_hosts' \in HostFile,
         backup' \in HostFile, FileAt', ProgramAt(p)'
  PROVE  HostkeysInv'
<1>1. \A q \in Procs : ProgramAt(q)' BY OthersStay
<1>2. HostkeysType'
  <2>1. proc' \in [Procs -> Program] BY DEF GoesOn, HostkeysInv, HostkeysType
  <2> QED BY <2>1 DEF HostkeysInv, HostkeysType, GoesOn
<1> QED BY <1>1, <1>2 DEF HostkeysInv

(* The file is not touched. *)
LEMMA FileStays ==
  ASSUME HostkeysInv, NEW p \in Procs, NEW r, GoesOn(p, r), known_hosts' = known_hosts
  PROVE  FileAt' /\ known_hosts' \in HostFile
<1>1. \A lines : Verified(lines) => \A e \in lines \ initial' : KeyVerified(e.key)'
  BY StaysVerified DEF HostkeysInv
<1>2. Lines' = Lines /\ initial' = initial BY DEF Lines, GoesOn
<1>3. Verified(Lines)' BY <1>1, <1>2 DEF HostkeysInv, FileAt, Verified
<1>4. ~torn' /\ known_hosts'.there => Marked(Lines)' BY <1>2 DEF HostkeysInv, FileAt, Marked, GoesOn
<1> QED BY <1>2, <1>3, <1>4 DEF FileAt, HostkeysInv, HostkeysType

ConcludedPc(v) ==
  CASE v.differs = "accept" -> "connected" [] v.differs = "ask" -> "differs" [] v.differs = "refuse" -> "refused"
Concluded(s, v) ==
  [s EXCEPT !.v = v, !.pc = ConcludedPc(v),
            !.o = [s.o EXCEPT !.update = IF v.trusted THEN s.o.update ELSE "no"]]

LEMMA ConcludedFields ==
  ASSUME NEW s \in Program, NEW v \in Verdicts
  PROVE  /\ Concluded(s, v) \in Program
         /\ Concluded(s, v).pc \in {"connected", "differs", "refused"}
         /\ Concluded(s, v).v = v /\ Concluded(s, v).k = s.k /\ Concluded(s, v).keys = s.keys
         /\ Concluded(s, v).o.name = s.o.name /\ Concluded(s, v).o.dns = s.o.dns
         /\ Concluded(s, v).o.strict = s.o.strict
         /\ Concluded(s, v).o.update # "no" => v.trusted
<1> DEFINE u == IF v.trusted THEN s.o.update ELSE "no"
           o == [s.o EXCEPT !.update = u]
           pc == ConcludedPc(v)
<1>1. s.o \in Options BY DEF Program
<1>2. u \in {"no", "yes", "ask"} /\ (u # "no" => v.trusted) BY <1>1 DEF Options
<1>3. pc \in {"connected", "differs", "refused"} BY DEF ConcludedPc, Verdicts
<1>4. Concluded(s, v) = [s EXCEPT !.v = v, !.pc = pc, !.o = o] BY DEF Concluded
<1> HIDE DEF u, pc
<1>5. /\ o \in Options /\ o.name = s.o.name /\ o.dns = s.o.dns /\ o.strict = s.o.strict /\ o.update = u
  BY <1>1, <1>2 DEF Options
<1> HIDE DEF o
<1> QED BY <1>2, <1>3, <1>4, <1>5 DEF Program, Pcs

(* The end of check_host_key(). *)
LEMMA ConcludeStep ==
  ASSUME HostkeysInv, NEW p \in Procs, NEW v \in Verdicts, v.ok, proc[p].pc \in {"start", "asking"},
         Conclude(p, v), torn' = (torn \/ ~known_hosts.there), UNCHANGED <<backup, initial>>,
         ~torn' /\ ~proc[p].o.dns /\ proc[p].o.strict # "off" => ~Revoked(initial, p)
  PROVE  HostkeysInv'
<1> DEFINE s == proc[p]
           r == Concluded(s, v)
<1>0. HostkeysType /\ ProgramFields /\ ProgramAt(p) /\ FileAt BY FieldsTyped DEF HostkeysInv
<1>1. s \in Program /\ s.o \in Options /\ s.k \in Offers BY <1>0 DEF ProgramFields
<1>2. /\ r \in Program /\ r.pc \in {"connected", "differs", "refused"}
      /\ r.v = v /\ r.k = s.k /\ r.keys = s.keys
      /\ r.o.name = s.o.name /\ r.o.dns = s.o.dns /\ r.o.strict = s.o.strict
      /\ r.o.update # "no" => v.trusted
  BY <1>1, ConcludedFields
<1>3. proc' = [proc EXCEPT ![p] = r]
  <2> DEFINE u == IF v.trusted THEN s.o.update ELSE "no"
             pc == ConcludedPc(v)
  <2>1. proc' = [proc EXCEPT ![p].v = v, ![p].pc = pc, ![p].o.update = u]
    BY <1>0, <1>1 DEF Conclude, ConcludedPc, HostkeysType, Program, Options
  <2>2. r = [s EXCEPT !.v = v, !.pc = pc, !.o = [s.o EXCEPT !.update = u]] BY DEF Concluded
  <2> HIDE DEF u, pc, r
  <2> QED BY <1>0, <1>1, <2>1, <2>2 DEF HostkeysType, Program, Options
<1> HIDE DEF r
<1>4. s.keys = {} BY <1>0 DEF ProgramAt
<1>5. GoesOn(p, r)
  BY <1>0, <1>2, <1>3, <1>4 DEF GoesOn, Accepted, HostkeysType
<1>6. /\ \A key : KeyVerified(key) => KeyVerified(key)'
      /\ \A lines : Verified(lines) => \A e \in lines \ initial' : KeyVerified(e.key)'
      /\ proc'[p] = r
  BY <1>0, <1>5, StaysVerified
<1>7. ProgramAt(p)'
  BY <1>2, <1>4, <1>6 DEF ProgramAt, Revoked
<1>8. FileAt' /\ known_hosts' \in HostFile
  <2>1. CASE v.add = {}
    <3>1. known_hosts' = known_hosts BY <2>1 DEF Conclude, Append_h
    <3> QED BY <3>1, <1>5, FileStays
  <2>2. CASE v.add # {}
    <3> DEFINE l == Line(v.add, "none", s.k.key)
    <3>1. known_hosts' = [there |-> TRUE, lines |-> Lines \cup {l}]
      BY <2>2 DEF Conclude, Append_h, File
    <3>2. l \in AllLines
      <4>1. v.add \in SUBSET HostNames /\ s.k.key \in AllKeys BY <1>1 DEF AllKeys, Verdicts
      <4> QED BY <4>1 DEF AllLines, Line
    <3>3. l.key = s.k.key BY DEF Line
    <3>4. \A key : key = s.k.key => KeyVerified(key)' BY <1>2, <1>6 DEF KeyVerified, Accepted
    <3> HIDE DEF l
    <3>5. Lines \subseteq AllLines BY <1>0 DEF HostkeysType, HostFile, Lines
    <3>6. Lines' = Lines \cup {l} /\ known_hosts'.there BY <3>1 DEF Lines
    <3>7. Verified(Lines)' BY <1>0, <1>6, <3>3, <3>4, <3>6 DEF FileAt, Verified
    <3>8. ~torn' => Marked(Lines)' BY <1>0, <3>6 DEF FileAt, Marked
    <3>9. known_hosts' \in HostFile BY <3>1, <3>2, <3>5 DEF HostFile
    <3> QED BY <3>6, <3>7, <3>8, <3>9 DEF FileAt
  <2> QED BY <2>1, <2>2
<1>9. backup' \in HostFile BY <1>0 DEF HostkeysType
<1> QED BY <1>5, <1>7, <1>8, <1>9, InvAfter

(* Steps that record nothing. *)
LEMMA NothingRecorded ==
  ASSUME HostkeysInv, NEW p \in Procs, NEW r, GoesOn(p, r), UNCHANGED <<known_hosts, backup>>,
         ProgramAt(p)'
  PROVE  HostkeysInv'
<1>1. FileAt' /\ known_hosts' \in HostFile BY FileStays
<1>2. backup' \in HostFile BY DEF HostkeysInv, HostkeysType
<1> QED BY <1>1, <1>2, InvAfter

LEMMA VerifyKeeps ==
  ASSUME HostkeysInv, NEW p \in Procs, verify_host_key(p)
  PROVE  HostkeysInv'
<1> DEFINE s == proc[p]
           v == check_host_key(Lines, s.o, s.k)
           trust == Verdict(TRUE, FALSE, TRUE, FALSE, {})
<1>0. HostkeysType /\ ProgramFields /\ ProgramAt(p) /\ FileAt BY FieldsTyped DEF HostkeysInv
<1>1. s \in Program /\ s.o \in Options /\ s.k \in Offers /\ s.pc = "start"
  BY <1>0 DEF ProgramFields, verify_host_key
<1>2. /\ v \in Verdicts
      /\ v.ok /\ s.o.strict # "off" => check_key_not_revoked({e \in Lines : s.o.name \in e.names}, s.k)
  BY <1>1, CheckHostKeyOf
<1>3. torn' = (torn \/ ~known_hosts.there) /\ UNCHANGED <<backup, initial>>
  BY DEF verify_host_key, Noted
<1>4. v.ok /\ ~torn' /\ s.o.strict # "off" => ~Revoked(initial, p)
  <2>1. ~torn' => Marked(Lines) BY <1>0, <1>3 DEF FileAt
  <2> QED BY <2>1, <1>2, NotRevokedBefore
<1>5. CASE s.o.dns
  <2>1. Conclude(p, trust) BY <1>5 DEF verify_host_key
  <2>2. trust \in Verdicts /\ trust.ok = TRUE BY VerdictParts
  <2> HIDE DEF trust
  <2> QED BY <1>1, <1>3, <1>5, <2>1, <2>2, ConcludeStep
<1>6. CASE ~s.o.dns /\ ~v.ok
  <2> DEFINE r == [s EXCEPT !.pc = "refused"]
  <2>1. proc' = [proc EXCEPT ![p] = r] /\ UNCHANGED known_hosts
    BY <1>0, <1>6 DEF verify_host_key, HostkeysType
  <2>2. r \in Program /\ r.pc = "refused" /\ r.v = s.v /\ r.k = s.k /\ r.keys = s.keys /\ r.o = s.o
    BY <1>1 DEF Program, Pcs
  <2> HIDE DEF r
  <2>3. ~s.v.ok /\ s.keys = {} BY <1>0, <1>1 DEF ProgramAt
  <2>4. GoesOn(p, r) BY <1>0, <1>3, <2>1, <2>2, <2>3 DEF GoesOn, Accepted, HostkeysType
  <2>5. proc'[p] = r BY <1>0, <2>4, StaysVerified
  <2>6. ProgramAt(p)' BY <2>2, <2>3, <2>5 DEF ProgramAt
  <2> QED BY <1>3, <2>1, <2>4, <2>6, NothingRecorded
<1>7. CASE ~s.o.dns /\ v.ok /\ v.asks
  <2> DEFINE r == [s EXCEPT !.pc = "asking", !.v = v]
  <2>1. proc' = [proc EXCEPT ![p] = r] /\ UNCHANGED known_hosts
    <3>1. proc' = [proc EXCEPT ![p].pc = "asking", ![p].v = v] /\ UNCHANGED known_hosts
      BY <1>7 DEF verify_host_key
    <3> HIDE DEF v
    <3> QED BY <3>1, <1>0, <1>1 DEF HostkeysType, Program
  <2> HIDE DEF v
  <2>2. r \in Program /\ r.pc = "asking" /\ r.v = v /\ r.k = s.k /\ r.keys = s.keys /\ r.o = s.o
    BY <1>1, <1>2 DEF Program, Pcs
  <2> HIDE DEF r
  <2>3. ~s.v.ok /\ s.keys = {} BY <1>0, <1>1 DEF ProgramAt
  <2>4. GoesOn(p, r) BY <1>0, <1>1, <1>3, <2>1, <2>2, <2>3 DEF GoesOn, Accepted, HostkeysType
  <2>5. proc'[p] = r BY <1>0, <2>4, StaysVerified
  <2>6. ~torn' /\ s.o.strict # "off" => ~Revoked(initial, p)' BY <1>3, <1>4, <1>7, <2>2, <2>5 DEF Revoked
  <2>7. ProgramAt(p)' BY <1>7, <2>2, <2>3, <2>5, <2>6 DEF ProgramAt
  <2> QED BY <1>3, <2>1, <2>4, <2>7, NothingRecorded
<1>8. CASE ~s.o.dns /\ v.ok /\ ~v.asks
  <2>1. Conclude(p, v) BY <1>8 DEF verify_host_key
  <2> HIDE DEF v
  <2> QED BY <1>1, <1>2, <1>3, <1>4, <1>8, <2>1, ConcludeStep
<1> QED BY <1>5, <1>6, <1>7, <1>8

(* The end of a program, or of its attempt to connect. *)
LEMMA EndsKeeps ==
  ASSUME HostkeysInv, NEW p \in Procs, NEW pc \in {"refused", "dead"}, Ends_h(p, pc),
         proc[p].pc # "start", torn' \in BOOLEAN, torn => torn', UNCHANGED <<known_hosts, backup, initial>>
  PROVE  HostkeysInv'
<1> DEFINE s == proc[p]
           v == IF s.pc = "asking" THEN Refused ELSE s.v
           r == [s EXCEPT !.pc = pc, !.v = v]
<1>0. HostkeysType /\ ProgramFields /\ ProgramAt(p) BY FieldsTyped DEF HostkeysInv
<1>1. s \in Program /\ s.v \in Verdicts BY <1>0 DEF ProgramFields
<1>2. v \in Verdicts /\ (s.pc # "asking" => v = s.v) /\ (s.pc = "asking" => ~v.ok)
  BY <1>1, RefusedVerdict
<1>3. proc' = [proc EXCEPT ![p] = r]
  <2>1. proc' = [proc EXCEPT ![p].pc = pc, ![p].v = v] BY <1>0, <1>1 DEF Ends_h, HostkeysType, Program
  <2> HIDE DEF v
  <2> QED BY <1>0, <1>1, <2>1 DEF HostkeysType, Program
<1> HIDE DEF v
<1>4. r \in Program /\ r.pc = pc /\ r.v = v /\ r.k = s.k /\ r.keys = s.keys /\ r.o = s.o
  BY <1>1, <1>2 DEF Program, Pcs
<1> HIDE DEF r
<1>5. s.pc = "asking" => s.keys = {} BY <1>0 DEF ProgramAt
<1>6. GoesOn(p, r) BY <1>2, <1>3, <1>4, <1>5 DEF GoesOn, Accepted
<1>7. proc'[p] = r BY <1>0, <1>6, StaysVerified
<1>8. ~torn' /\ v.ok /\ ~s.o.dns /\ s.o.strict # "off" => ~Revoked(initial, p)'
  BY <1>0, <1>2, <1>4, <1>7 DEF ProgramAt, Revoked
<1>9. ProgramAt(p)' BY <1>4, <1>7, <1>8 DEF ProgramAt
<1> QED BY <1>6, <1>9, NothingRecorded

LEMMA ConfirmKeeps ==
  ASSUME HostkeysInv, NEW p \in Procs, confirm(p)
  PROVE  HostkeysInv'
<1> DEFINE s == proc[p]
<1>0. HostkeysType /\ ProgramFields /\ ProgramAt(p) BY FieldsTyped DEF HostkeysInv
<1>1. s \in Program /\ s.v \in Verdicts /\ s.pc \in {"asking", "differs"}
  BY <1>0 DEF ProgramFields, confirm
<1>2. torn' = (torn \/ (s.pc = "asking" /\ ~known_hosts.there)) /\ UNCHANGED <<backup, initial>>
  BY DEF confirm
<1>3. torn' \in BOOLEAN /\ (torn => torn') BY <1>0, <1>2 DEF HostkeysType
<1>4. CASE s.pc = "asking" /\ Conclude(p, s.v)
  <2>1. s.v.ok /\ (~torn' /\ ~s.o.dns /\ s.o.strict # "off" => ~Revoked(initial, p))
    BY <1>0, <1>3, <1>4 DEF ProgramAt
  <2> QED BY <1>1, <1>2, <1>4, <2>1, ConcludeStep
<1>5. CASE s.pc = "differs" /\ proc' = [proc EXCEPT ![p].pc = "connected"] /\ UNCHANGED known_hosts
  <2> DEFINE r == [s EXCEPT !.pc = "connected"]
  <2>1. proc' = [proc EXCEPT ![p] = r] BY <1>0, <1>5 DEF HostkeysType
  <2>2. r \in Program /\ r.pc = "connected" /\ r.v = s.v /\ r.k = s.k /\ r.keys = s.keys /\ r.o = s.o
    BY <1>1 DEF Program, Pcs
  <2> HIDE DEF r
  <2>3. GoesOn(p, r) BY <1>2, <1>3, <2>1, <2>2 DEF GoesOn, Accepted
  <2>4. proc'[p] = r BY <1>0, <2>3, StaysVerified
  <2>5. ~torn' /\ s.v.ok /\ ~s.o.dns /\ s.o.strict # "off" => ~Revoked(initial, p)'
    BY <1>0, <1>2, <1>3, <2>2, <2>4 DEF ProgramAt, Revoked
  <2>6. s.keys = {} /\ (s.o.update # "no" => s.v.trusted) BY <1>0, <1>5 DEF ProgramAt
  <2>7. ProgramAt(p)' BY <2>2, <2>4, <2>5, <2>6 DEF ProgramAt
  <2> QED BY <1>2, <1>5, <2>3, <2>7, NothingRecorded
<1>6. CASE Ends_h(p, "refused") /\ UNCHANGED known_hosts
  BY <1>1, <1>2, <1>3, <1>6, EndsKeeps
<1> QED BY <1>1, <1>4, <1>5, <1>6 DEF confirm

LEMMA DiesKeeps ==
  ASSUME HostkeysInv, NEW p \in Procs, Dies(p)
  PROVE  HostkeysInv'
<1>1. torn' \in BOOLEAN /\ (torn => torn') BY DEF HostkeysInv, HostkeysType, Dies
<1> QED BY <1>1, EndsKeeps DEF Dies

(* The keys a server announces. *)
LEMMA AnnouncedKeeps ==
  ASSUME HostkeysInv, NEW p \in Procs, client_input_hostkeys(p)
  PROVE  HostkeysInv'
<1> DEFINE s == proc[p]
<1>0. HostkeysType /\ ProgramFields /\ ProgramAt(p) /\ FileAt BY FieldsTyped DEF HostkeysInv
<1> DEFINE seen == {e.key : e \in {e \in Lines : Matches(e, s.o)}}
<1>1. s \in Program /\ s.o \in Options /\ s.pc = "connected"
  BY <1>0 DEF ProgramFields, client_input_hostkeys
<1>2. torn' = (torn \/ ~known_hosts.there) /\ UNCHANGED <<known_hosts, backup, initial>>
  BY DEF client_input_hostkeys, Noted
<1>3. PICK keys \in Announced :
        proc' = [proc EXCEPT ![p].keys = keys,
            ![p].pc = IF s.o.update = "no" \/ keys = {} THEN "done"
                      ELSE IF keys \ seen # {} THEN "proving"
                      ELSE IF seen \ keys # {} THEN "read" ELSE "done",
            ![p].new = keys \ seen]
  BY <1>0, <1>1 DEF client_input_hostkeys, HostkeysType, Program
<1> DEFINE new == keys \ seen
           pc == IF s.o.update = "no" \/ keys = {} THEN "done"
                 ELSE IF new # {} THEN "proving" ELSE IF seen \ keys # {} THEN "read" ELSE "done"
           r == [s EXCEPT !.keys = keys, !.pc = pc, !.new = new]
<1>4. proc' = [proc EXCEPT ![p].keys = keys, ![p].pc = pc, ![p].new = new] BY <1>3
<1>5. keys \subseteq AllKeys /\ new \subseteq AllKeys BY DEF AllKeys
<1>6. pc \in {"done", "proving", "read"} /\ (pc # "done" => s.o.update # "no") /\ (pc = "read" => new = {})
  OBVIOUS
<1>7. \A k \in keys \ new : KeyVerified(k) \/ \E l \in initial : l.key = k
  BY <1>0 DEF FileAt, Verified
<1> HIDE DEF new, pc, seen
<1>8. proc' = [proc EXCEPT ![p] = r] BY <1>0, <1>1, <1>4 DEF HostkeysType, Program
<1>9. r \in Program /\ r.pc = pc /\ r.v = s.v /\ r.k = s.k /\ r.keys = keys /\ r.new = new /\ r.o = s.o
  BY <1>1, <1>5, <1>6 DEF Program, Pcs
<1> HIDE DEF r
<1>10. s.keys = {} /\ (s.o.update # "no" => s.v.trusted) BY <1>0, <1>1 DEF ProgramAt
<1>11. GoesOn(p, r) BY <1>0, <1>1, <1>2, <1>6, <1>8, <1>9, <1>10 DEF GoesOn, Accepted, HostkeysType
<1>12. proc'[p] = r /\ \A key : KeyVerified(key) => KeyVerified(key)' BY <1>0, <1>11, StaysVerified
<1>13. ~torn' /\ s.v.ok /\ ~s.o.dns /\ s.o.strict # "off" => ~Revoked(initial, p)'
  BY <1>0, <1>2, <1>9, <1>12 DEF ProgramAt, Revoked
<1>14. \A k \in keys \ new : KeyVerified(k)' \/ \E l \in initial' : l.key = k BY <1>2, <1>7, <1>12
<1>15. ProgramAt(p)' BY <1>6, <1>9, <1>10, <1>12, <1>13, <1>14 DEF ProgramAt
<1> QED BY <1>2, <1>11, <1>15, NothingRecorded

(* A step that changes the place of a program only. *)
Moves(p, pc) ==
  /\ proc' = [proc EXCEPT ![p].pc = pc] /\ pc \in Pcs \ {"start", "asking"}
  /\ UNCHANGED initial /\ torn' \in BOOLEAN /\ (torn => torn')

LEMMA MoveParts ==
  ASSUME HostkeysInv, NEW p \in Procs, NEW pc, Moves(p, pc)
  PROVE  LET r == [proc[p] EXCEPT !.pc = pc] IN
         /\ GoesOn(p, r) /\ proc'[p] = r /\ proc'[p].pc = pc /\ proc'[p].v = proc[p].v
         /\ proc'[p].k = proc[p].k /\ proc'[p].keys = proc[p].keys /\ proc'[p].new = proc[p].new
         /\ proc'[p].o = proc[p].o /\ proc'[p].temp = proc[p].temp
         /\ ~torn' /\ proc[p].v.ok /\ ~proc[p].o.dns /\ proc[p].o.strict # "off" => ~Revoked(initial, p)'
         /\ \A key : KeyVerified(key) => KeyVerified(key)'
         /\ \A lines : Verified(lines) => \A e \in lines \ initial' : KeyVerified(e.key)'
<1> DEFINE s == proc[p]
           r == [s EXCEPT !.pc = pc]
<1>0. HostkeysType /\ ProgramFields /\ ProgramAt(p) BY FieldsTyped DEF HostkeysInv
<1>1. s \in Program BY <1>0 DEF ProgramFields
<1>2. proc' = [proc EXCEPT ![p] = r] BY <1>0 DEF HostkeysType, Moves
<1>3. /\ r \in Program /\ r.pc = pc /\ r.v = s.v /\ r.k = s.k /\ r.keys = s.keys /\ r.o = s.o
      /\ r.new = s.new /\ r.temp = s.temp
  BY <1>1 DEF Program, Pcs, Moves
<1> HIDE DEF r
<1>4. GoesOn(p, r) BY <1>2, <1>3 DEF GoesOn, Accepted, Moves
<1>5. /\ proc'[p] = r /\ \A key : KeyVerified(key) => KeyVerified(key)'
      /\ \A lines : Verified(lines) => \A e \in lines \ initial' : KeyVerified(e.key)'
  BY <1>0, <1>4, StaysVerified
<1>6. ~torn' /\ s.v.ok /\ ~s.o.dns /\ s.o.strict # "off" => ~Revoked(initial, p)'
  BY <1>0, <1>3, <1>5 DEF ProgramAt, Revoked, Moves
<1>7. r = [proc[p] EXCEPT !.pc = pc] BY DEF r
<1> QED BY <1>3, <1>4, <1>5, <1>6, <1>7

LEMMA ProvenKeeps ==
  ASSUME HostkeysInv, NEW p \in Procs, client_global_hostkeys_private_confirm(p)
  PROVE  HostkeysInv'
<1> DEFINE pc == IF proc[p].new \subseteq Owned THEN "read" ELSE "done"
           r == [proc[p] EXCEPT !.pc = pc]
<1>1. ProgramAt(p) /\ proc[p].pc = "proving" /\ torn \in BOOLEAN
  BY DEF HostkeysInv, HostkeysType, client_global_hostkeys_private_confirm
<1>2. Moves(p, pc) /\ UNCHANGED <<known_hosts, backup, initial, torn>>
  BY <1>1 DEF Moves, client_global_hostkeys_private_confirm, Pcs
<1>3. pc \in {"read", "done"} /\ (pc = "read" => proc[p].new \subseteq Owned) OBVIOUS
<1> HIDE DEF pc
<1>4. /\ GoesOn(p, r) /\ proc'[p].pc = pc /\ proc'[p].v = proc[p].v
      /\ proc'[p].keys = proc[p].keys /\ proc'[p].new = proc[p].new /\ proc'[p].o = proc[p].o
      /\ ~torn' /\ proc[p].v.ok /\ ~proc[p].o.dns /\ proc[p].o.strict # "off" => ~Revoked(initial, p)'
      /\ \A key : KeyVerified(key) => KeyVerified(key)'
  BY <1>2, MoveParts
<1>5. ProgramAt(p)' BY <1>1, <1>2, <1>3, <1>4 DEF ProgramAt
<1> QED BY <1>2, <1>4, <1>5, NothingRecorded

(* hostfile_replace_entries(): the new file. *)
LEMMA ReplacementVerified ==
  ASSUME HostkeysInv, NEW p \in Procs, proc[p].pc = "read"
  PROVE  LET s == proc[p]
             new == host_delete(Lines, s.o, s.keys)
                      \cup {Line(Names(s.o), "none", k) : k \in Unlisted(Lines, s.o, s.keys)}
         IN /\ new \subseteq AllLines /\ Verified(new)
            /\ ~torn /\ known_hosts.there => Marked(new)
<1> DEFINE s == proc[p]
           kept == host_delete(Lines, s.o, s.keys)
           added == {Line(Names(s.o), "none", k) : k \in Unlisted(Lines, s.o, s.keys)}
<1>0. HostkeysType /\ ProgramFields /\ ProgramAt(p) /\ FileAt BY FieldsTyped DEF HostkeysInv
<1>1. s.o \in Options /\ s.keys \subseteq AllKeys BY <1>0 DEF ProgramFields
<1>2. Names(s.o) \in SUBSET HostNames
  <2>1. s.o.name \in {"host", "host:port"} BY <1>1 DEF Options
  <2> QED BY <2>1, IpNames DEF Names
<1>3. kept \subseteq Lines BY DEF host_delete
<1>4. Lines \subseteq AllLines BY <1>0 DEF HostkeysType, HostFile, Lines
<1>5. ASSUME NEW e \in added PROVE e \in AllLines /\ KeyVerified(e.key)
  <2>1. PICK k \in Unlisted(Lines, s.o, s.keys) : e = Line(Names(s.o), "none", k) OBVIOUS
  <2>2. k \in s.keys BY DEF Unlisted
  <2>3. e.key = k BY <2>1 DEF Line
  <2>4. e \in AllLines BY <1>1, <1>2, <2>1, <2>2 DEF AllLines, Line
  <2>5. s.v.trusted /\ s.new \subseteq Owned
        /\ \A x \in s.keys \ s.new : KeyVerified(x) \/ \E l \in initial : l.key = x
    BY <1>0 DEF ProgramAt
  <2>6. CASE KeyVerified(k) BY <2>3, <2>4, <2>6
  <2>7. CASE k \in Owned \/ \E l \in initial : l.key = k
    BY <2>2, <2>3, <2>4, <2>5, <2>7 DEF KeyVerified
  <2> QED BY <2>2, <2>5, <2>6, <2>7
<1>6. Verified(kept \cup added) BY <1>0, <1>3, <1>5 DEF FileAt, Verified
<1>7. ASSUME ~torn, known_hosts.there PROVE Marked(kept \cup added)
  BY <1>0, <1>7 DEF FileAt, Marked, host_delete
<1>8. kept \cup added \subseteq AllLines BY <1>3, <1>4, <1>5
<1> QED BY <1>6, <1>7, <1>8

LEMMA ReadKeeps ==
  ASSUME HostkeysInv, NEW p \in Procs, proc[p].pc = "read", Noted, UNCHANGED <<known_hosts, backup, initial>>,
         NEW new, new = host_delete(Lines, proc[p].o, proc[p].keys)
                      \cup {Line(Names(proc[p].o), "none", k) : k \in Unlisted(Lines, proc[p].o, proc[p].keys)},
         NEW pc \in {"done", "unlink"}, proc' = [proc EXCEPT ![p].temp = new, ![p].pc = pc]
  PROVE  HostkeysInv'
<1> DEFINE s == proc[p]
           r == [s EXCEPT !.temp = new, !.pc = pc]
<1>0. HostkeysType /\ ProgramFields /\ ProgramAt(p) /\ FileAt BY FieldsTyped DEF HostkeysInv
<1>1. s \in Program BY <1>0 DEF ProgramFields
<1>2. new \subseteq AllLines /\ Verified(new) /\ (~torn /\ known_hosts.there => Marked(new))
  BY ReplacementVerified
<1>3. proc' = [proc EXCEPT ![p] = r] BY <1>0, <1>1 DEF HostkeysType, Program
<1>4. r \in Program /\ r.pc = pc /\ r.v = s.v /\ r.k = s.k /\ r.keys = s.keys /\ r.o = s.o /\ r.temp = new
  BY <1>1, <1>2 DEF Program, Pcs
<1> HIDE DEF r
<1>5. GoesOn(p, r) BY <1>0, <1>3, <1>4 DEF GoesOn, Accepted, HostkeysType, Noted
<1>6. proc'[p] = r /\ \A lines : Verified(lines) => \A e \in lines \ initial' : KeyVerified(e.key)'
  BY <1>0, <1>5, StaysVerified
<1>7. \A e \in new \ initial' : KeyVerified(e.key)' BY <1>2, <1>6
<1>8. Verified(proc[p].temp)' BY <1>4, <1>6, <1>7 DEF Verified
<1>9. ~torn' => Marked(proc[p].temp)' BY <1>2, <1>4, <1>6 DEF Marked, Noted
<1>10. ~torn' /\ s.v.ok /\ ~s.o.dns /\ s.o.strict # "off" => ~Revoked(initial, p)'
  BY <1>0, <1>4, <1>6 DEF ProgramAt, Revoked, Noted
<1>11. ProgramAt(p)' BY <1>4, <1>6, <1>8, <1>9, <1>10 DEF ProgramAt
<1> QED BY <1>5, <1>11, NothingRecorded

(* The steps after it: what was read is in temp. *)
LEMMA MoveKeeps ==
  ASSUME HostkeysInv, NEW p \in Procs, NEW pc \in {"link", "remove", "rename", "done"}, Moves(p, pc),
         pc = "done" \/ proc[p].pc \in {"unlink", "link", "remove", "rename"}
  PROVE  ProgramAt(p)'
<1>0. ProgramAt(p) BY DEF HostkeysInv
<1>1. /\ proc'[p].pc = pc /\ proc'[p].v = proc[p].v /\ proc'[p].o = proc[p].o
      /\ proc'[p].temp = proc[p].temp
      /\ ~torn' /\ proc[p].v.ok /\ ~proc[p].o.dns /\ proc[p].o.strict # "off" => ~Revoked(initial, p)'
      /\ \A lines : Verified(lines) => \A e \in lines \ initial' : KeyVerified(e.key)'
  BY MoveParts
<1>2. pc # "done" => Verified(proc[p].temp) /\ (~torn => Marked(proc[p].temp)) BY <1>0 DEF ProgramAt
<1>3. pc # "done" => Verified(proc[p].temp)' BY <1>1, <1>2 DEF Verified
<1>4. pc # "done" /\ ~torn' => Marked(proc[p].temp)' BY <1>1, <1>2 DEF Marked, Moves
<1> QED BY <1>1, <1>3, <1>4 DEF ProgramAt

LEMMA ReplaceKeeps ==
  ASSUME HostkeysInv, NEW p \in Procs, Replace(p)
  PROVE  HostkeysInv'
<1> DEFINE s == proc[p]
           new == host_delete(Lines, s.o, s.keys)
                      \cup {Line(Names(s.o), "none", k) : k \in Unlisted(Lines, s.o, s.keys)}
<1>0. HostkeysType /\ ProgramAt(p) /\ FileAt /\ torn \in BOOLEAN /\ known_hosts \in HostFile /\ backup \in HostFile
  BY DEF HostkeysInv, HostkeysType
<1>00. initial' = initial BY DEF Replace
<1>01. NoFile \in HostFile /\ ~NoFile.there /\ NoFile.lines = {} BY DEF NoFile, HostFile
<1>1. CASE s.pc = "read" /\ Noted /\ UNCHANGED <<known_hosts, backup>>
           /\ proc' = [proc EXCEPT ![p].temp = new,
                        ![p].pc = IF ~known_hosts.there \/ new = Lines THEN "done" ELSE "unlink"]
  <2> DEFINE pc == IF ~known_hosts.there \/ new = Lines THEN "done" ELSE "unlink"
  <2>1. pc \in {"done", "unlink"} OBVIOUS
  <2>2. proc' = [proc EXCEPT ![p].temp = new, ![p].pc = pc] BY <1>1
  <2> HIDE DEF pc
  <2> QED BY <1>00, <1>1, <2>1, <2>2, ReadKeeps
<1>2. CASE s.pc = "read" /\ Noted /\ UNCHANGED <<known_hosts, backup>> /\ Goes(p, "done")
  <2>1. Moves(p, "done") BY <1>0, <1>00, <1>2 DEF Moves, Goes, Noted, Pcs
  <2>2. ProgramAt(p)' BY <2>1, MoveKeeps
  <2> QED BY <1>2, <2>1, <2>2, MoveParts, NothingRecorded
<1>3. CASE s.pc = "unlink" /\ backup' = NoFile /\ Goes(p, "link") /\ UNCHANGED <<known_hosts, torn>>
  <2>1. Moves(p, "link") BY <1>0, <1>00, <1>3 DEF Moves, Goes, Pcs
  <2>2. ProgramAt(p)' BY <1>3, <2>1, MoveKeeps
  <2>3. GoesOn(p, [proc[p] EXCEPT !.pc = "link"]) BY <2>1, MoveParts
  <2>4. FileAt' /\ known_hosts' \in HostFile BY <1>3, <2>3, FileStays
  <2> QED BY <1>01, <1>3, <2>2, <2>3, <2>4, InvAfter
<1>4. CASE /\ s.pc = "link" /\ UNCHANGED <<known_hosts, torn>>
           /\ IF ~known_hosts.there \/ backup.there THEN Goes(p, "done") /\ UNCHANGED backup
              ELSE Goes(p, "remove") /\ backup' = known_hosts
  <2>1. PICK pc \in {"done", "remove"} : Goes(p, pc) /\ backup' \in HostFile BY <1>0, <1>4
  <2>2. Moves(p, pc) BY <1>0, <1>00, <1>4, <2>1 DEF Moves, Goes, Pcs
  <2>3. ProgramAt(p)' BY <1>4, <2>2, MoveKeeps
  <2>4. GoesOn(p, [proc[p] EXCEPT !.pc = pc]) BY <2>2, MoveParts
  <2>5. FileAt' /\ known_hosts' \in HostFile BY <1>4, <2>4, FileStays
  <2> QED BY <2>1, <2>3, <2>4, <2>5, InvAfter
<1>5. CASE s.pc = "remove" /\ known_hosts.there /\ known_hosts' = NoFile /\ Goes(p, "rename")
           /\ UNCHANGED <<backup, torn>>
  <2>1. Moves(p, "rename") BY <1>0, <1>00, <1>5 DEF Moves, Goes, Pcs
  <2>2. ProgramAt(p)' BY <1>5, <2>1, MoveKeeps
  <2>3. GoesOn(p, [proc[p] EXCEPT !.pc = "rename"]) BY <2>1, MoveParts
  <2>4. FileAt' /\ known_hosts' \in HostFile BY <1>01, <1>5 DEF FileAt, Lines, Verified
  <2>5. backup' \in HostFile BY <1>0, <1>5
  <2> QED BY <2>2, <2>3, <2>4, <2>5, InvAfter
<1>6. CASE s.pc = "remove" /\ backup' = NoFile /\ Goes(p, "done") /\ UNCHANGED <<known_hosts, torn>>
  <2>1. Moves(p, "done") BY <1>0, <1>00, <1>6 DEF Moves, Goes, Pcs
  <2>2. ProgramAt(p)' BY <2>1, MoveKeeps
  <2>3. GoesOn(p, [proc[p] EXCEPT !.pc = "done"]) BY <2>1, MoveParts
  <2>4. FileAt' /\ known_hosts' \in HostFile BY <1>6, <2>3, FileStays
  <2> QED BY <1>01, <1>6, <2>2, <2>3, <2>4, InvAfter
<1>7. CASE s.pc = "rename" /\ known_hosts' = File(s.temp) /\ Goes(p, "done") /\ UNCHANGED <<backup, torn>>
  <2>1. Moves(p, "done") BY <1>0, <1>00, <1>7 DEF Moves, Goes, Pcs
  <2>2. ProgramAt(p)' BY <2>1, MoveKeeps
  <2>3. /\ GoesOn(p, [proc[p] EXCEPT !.pc = "done"])
        /\ \A lines : Verified(lines) => \A e \in lines \ initial' : KeyVerified(e.key)'
    BY <2>1, MoveParts
  <2>4. Verified(s.temp) /\ (~torn => Marked(s.temp)) BY <1>0, <1>7 DEF ProgramAt
  <2>5. Lines' = s.temp /\ known_hosts'.there BY <1>7 DEF Lines, File
  <2>6. Verified(Lines)' BY <2>3, <2>4, <2>5 DEF Verified
  <2>7. ~torn' => Marked(Lines)' BY <1>00, <1>7, <2>4, <2>5 DEF Marked
  <2>8. s.temp \subseteq AllLines BY <1>0, FieldsTyped DEF ProgramFields
  <2>9. known_hosts' \in HostFile BY <1>7, <2>8 DEF File, HostFile
  <2>10. FileAt' BY <2>5, <2>6, <2>7 DEF FileAt
  <2>11. backup' \in HostFile BY <1>0, <1>7
  <2> QED BY <2>2, <2>3, <2>9, <2>10, <2>11, InvAfter
<1> QED BY <1>1, <1>2, <1>3, <1>4, <1>5, <1>6, <1>7 DEF Replace, hostfile_replace_entries

----------------------------------------------------------------------------
LEMMA HostkeysStarts == ASSUME HostkeysInit PROVE HostkeysInv
<1>1. PICK lines \in KnownHosts, k \in [Procs -> Offers], o \in [Procs -> HostOptions] :
        HostkeysStart(lines, k, o)
  BY DEF HostkeysInit
<1>2. /\ initial = lines /\ known_hosts = File(lines) /\ backup = NoFile /\ torn = FALSE
      /\ proc = [p \in Procs |-> [pc |-> "start", o |-> o[p], k |-> k[p], v |-> Refused,
                                keys |-> {}, new |-> {}, temp |-> {}]]
  BY <1>1 DEF HostkeysStart
<1>3. lines \subseteq AllLines BY DEF AllLines
<1>4. HostkeysType
  <2>1. \A p \in Procs : o[p] \in Options BY HostkeysAssumption DEF Options
  <2>2. proc \in [Procs -> Program] BY <1>2, <2>1, RefusedVerdict DEF Program, Pcs
  <2> QED BY <1>2, <1>3, <2>2 DEF HostkeysType, HostFile, File, NoFile
<1>5. FileAt BY <1>2 DEF FileAt, Lines, File, Verified, Marked
<1>6. ASSUME NEW p \in Procs PROVE ProgramAt(p)
  <2>1. proc[p].pc = "start" /\ proc[p].v = Refused /\ proc[p].keys = {} BY <1>2
  <2> QED BY <2>1, RefusedVerdict DEF ProgramAt
<1> QED BY <1>4, <1>5, <1>6 DEF HostkeysInv

LEMMA HostkeysKept == ASSUME HostkeysInv, [HostkeysNext]_hostkeysVars PROVE HostkeysInv'
<1>1. CASE HostkeysNext
  BY <1>1, VerifyKeeps, ConfirmKeeps, AnnouncedKeeps, ProvenKeeps, ReplaceKeeps, DiesKeeps
  DEF HostkeysNext
<1>2. CASE UNCHANGED hostkeysVars
  BY <1>2 DEF hostkeysVars, HostkeysInv, HostkeysType, FileAt, Lines, Verified, Marked, KeyVerified,
     Accepted, ProgramAt, Revoked
<1> QED BY <1>1, <1>2

LEMMA HostkeysImplied == ASSUME HostkeysInv PROVE HostkeysSound
<1>1. ~torn => RevokedNeverAccepted BY DEF HostkeysInv, RevokedNeverAccepted, ProgramAt, Connected
<1>2. RevokedRefused BY <1>1 DEF RevokedRefused, HostkeysInv, FileAt, Marked, Lines
<1>3. UpdatesVerified BY DEF UpdatesVerified, HostkeysInv, FileAt, Verified, KeyVerified, Lines
<1> QED BY <1>2, <1>3 DEF HostkeysSound

(***************************************************************************)
(* Any number of programs may share known_hosts, whatever it and the       *)
(* options are, and may be killed between two steps of                     *)
(* hostfile_replace_entries(): check_host_key() accepts no revoked key,    *)
(* revocations are not lost unless a program looks for the file just when  *)
(* it is renamed, and keys are added that were accepted or that the server *)
(* has proved to have.                                                     *)
(***************************************************************************)
THEOREM HostKeysSafe == HostkeysSpec => []HostkeysSound
<1>1. HostkeysInit => HostkeysInv BY HostkeysStarts
<1>2. HostkeysInv /\ [HostkeysNext]_hostkeysVars => HostkeysInv' BY HostkeysKept
<1>3. HostkeysInv => HostkeysSound BY HostkeysImplied
<1> QED BY <1>1, <1>2, <1>3, PTL DEF HostkeysSpec

(***************************************************************************)
(* SftpServer: each entry of the table holds what the client was told of   *)
(* its handle, the list leads through all the unused ones, and what one    *)
(* request does (an outcome) keeps this so.                                *)
(***************************************************************************)
FileEntry == [type : {"none", "file", "dir", "link"}, ino : Nat]
HandleEntry == [use : {"unused", "file", "dir"}, ino : Nat, writes : BOOLEAN, next : Nat]
Message == SftpRequests \cup {[op |-> "init"]}
Sftpd == [mode : SftpModes, init_done : BOOLEAN, ended : BOOLEAN, sent : Nat, silent : BOOLEAN]
NamesType == [DOMAIN InitialFiles -> FileEntry]

(* place is the way from first through the unused entries of the table hs. *)
UnusedOf(hs) == {h \in 1 .. Len(hs) : hs[h].use = "unused"}
Way(place, hs, first, n) ==
  /\ \A h \in UnusedOf(hs) : place[h] \in 1 .. n
  /\ \A h, k \in UnusedOf(hs) : place[h] = place[k] => h = k
  /\ \A h \in UnusedOf(hs) :
       IF place[h] = 1 THEN hs[h].next = 0
       ELSE hs[h].next \in UnusedOf(hs) /\ place[hs[h].next] = place[h] - 1
  /\ first # 0 => first \in UnusedOf(hs) /\ place[first] = n
Listed(hs, first) ==
  /\ first = 0 <=> UnusedOf(hs) = {}
  /\ \E place \in [UnusedOf(hs) -> 1 .. Cardinality(UnusedOf(hs))] :
       Way(place, hs, first, Cardinality(UnusedOf(hs)))

TableSound(hs, first, t) ==
  /\ hs \in Seq(HandleEntry) /\ Len(hs) <= MaxHandles /\ first \in Nat
  /\ t \in [1 .. MaxHandles -> Nat]
  /\ \A h \in 1 .. Len(hs) : hs[h].ino = t[h]
  /\ Listed(hs, first)

SftpdInv ==
  /\ pipe \in Seq(Message) /\ iqueue \in Seq(Message) /\ oqueue \in Nat /\ sftpd \in Sftpd
  /\ names \in NamesType /\ content \in Seq({0, 1})
  /\ TableSound(handles, first_unused_handle, told)
  /\ NoRequestWaits /\ ReadonlyKept

LEMMA TableExcept ==
  ASSUME NEW T, NEW hs \in Seq(T), NEW i \in 1 .. Len(hs), NEW e \in T
  PROVE  /\ [hs EXCEPT ![i] = e] \in Seq(T) /\ Len([hs EXCEPT ![i] = e]) = Len(hs)
         /\ \A h \in 1 .. Len(hs) : [hs EXCEPT ![i] = e][h] = IF h = i THEN e ELSE hs[h]
OBVIOUS

LEMMA UnusedFinite ==
  ASSUME NEW hs \in Seq(HandleEntry)
  PROVE  IsFiniteSet(UnusedOf(hs)) /\ Cardinality(UnusedOf(hs)) \in Nat
<1>1. IsFiniteSet(1 .. Len(hs)) BY FS_Interval
<1>2. UnusedOf(hs) \subseteq 1 .. Len(hs) BY DEF UnusedOf
<1> QED BY <1>1, <1>2, FS_Subset, FS_CardinalityType

(* An entry is taken from the list. *)
LEMMA Popped ==
  ASSUME NEW hs \in Seq(HandleEntry), NEW first \in Nat, Listed(hs, first), first # 0,
         NEW e \in HandleEntry, e.use # "unused"
  PROVE  /\ first \in 1 .. Len(hs) /\ hs[first].next \in Nat
         /\ Listed([hs EXCEPT ![first] = e], hs[first].next)
<1> DEFINE U == UnusedOf(hs)
           n == Cardinality(U)
           hs2 == [hs EXCEPT ![first] = e]
           U2 == UnusedOf(hs2)
           next == hs[first].next
<1>1. PICK place \in [U -> 1 .. n] : Way(place, hs, first, n) BY DEF Listed
<1>2. first \in U /\ place[first] = n BY <1>1 DEF Way
<1>3. first \in 1 .. Len(hs) BY <1>2 DEF UnusedOf
<1>4. next \in Nat
  <2>1. hs[first] \in HandleEntry BY <1>3
  <2> QED BY <2>1 DEF HandleEntry
<1>5. hs2 \in Seq(HandleEntry) /\ Len(hs2) = Len(hs)
      /\ \A h \in 1 .. Len(hs) : hs2[h] = IF h = first THEN e ELSE hs[h]
  BY <1>3, TableExcept
<1>6. U2 = U \ {first} BY <1>3, <1>5 DEF UnusedOf
<1>7. IsFiniteSet(U) /\ n \in Nat BY UnusedFinite
<1>8. Cardinality(U2) = n - 1 BY <1>2, <1>6, <1>7, FS_RemoveElement
<1> DEFINE p2 == [h \in U2 |-> place[h]]
<1>10. \A h \in U2 : place[h] # n /\ place[h] \in 1 .. (n - 1)
  <2>1. \A h \in U : place[h] = place[first] => h = first BY <1>1, <1>2 DEF Way
  <2>2. \A h \in U2 : h \in U /\ h # first /\ place[h] \in 1 .. n BY <1>6
  <2> HIDE DEF U, U2, n
  <2> QED BY <1>2, <1>7, <2>1, <2>2
<1> HIDE DEF U, n, U2, next
<1>11. p2 \in [U2 -> 1 .. (n - 1)] BY <1>10
<1>12. Way(p2, hs2, next, n - 1)
  <2>1. \A h, k \in U2 : p2[h] = p2[k] => h = k BY <1>1, <1>6 DEF Way, U
  <2>2. ASSUME NEW h \in U2
        PROVE  IF p2[h] = 1 THEN hs2[h].next = 0
               ELSE hs2[h].next \in U2 /\ p2[hs2[h].next] = p2[h] - 1
    <3>1. h \in U /\ h # first /\ hs2[h] = hs[h] /\ p2[h] = place[h] BY <1>5, <1>6 DEF U, UnusedOf
    <3>2. CASE place[h] = 1 BY <1>1, <3>1, <3>2 DEF Way, U
    <3>3. CASE place[h] # 1
      <4>1. hs[h].next \in U /\ place[hs[h].next] = place[h] - 1 BY <1>1, <3>1, <3>3 DEF Way, U
      <4>2. hs[h].next # first BY <1>2, <1>7, <1>10, <4>1
      <4> QED BY <1>6, <3>1, <3>3, <4>1, <4>2
    <3> QED BY <3>2, <3>3
  <2>3. ASSUME next # 0 PROVE next \in U2 /\ p2[next] = n - 1
    <3>1. place[first] # 1 BY <1>1, <1>2, <2>3 DEF Way, U, next
    <3>2. next \in U /\ place[next] = n - 1 BY <1>1, <1>2, <3>1 DEF Way, U, next
    <3>3. next # first BY <1>2, <1>7, <3>2
    <3> QED BY <1>6, <3>2, <3>3
  <2>4. \A h \in U2 : p2[h] \in 1 .. (n - 1) BY <1>11
  <2> QED BY <2>1, <2>2, <2>3, <2>4 DEF Way, U2
<1>13. next = 0 <=> U2 = {}
  <2>1. ASSUME next = 0 PROVE U2 = {}
    <3>1. place[first] = 1
      <4>1. CASE place[first] # 1
        <5>1. next \in U BY <1>1, <1>2, <4>1 DEF Way, U, next
        <5>2. next \in 1 .. Len(hs) BY <5>1 DEF U, UnusedOf
        <5> QED BY <2>1, <5>2
      <4> QED BY <4>1
    <3> QED BY <1>2, <1>10, <3>1
  <2>2. ASSUME U2 = {}, next # 0 PROVE FALSE
    BY <1>12, <2>2 DEF Way, U2
  <2> QED BY <2>1, <2>2
<1>14. Listed(hs2, next) BY <1>8, <1>11, <1>12, <1>13 DEF Listed, U2
<1> QED BY <1>3, <1>4, <1>14 DEF next

(* An entry is put onto the list. *)
LEMMA Pushed ==
  ASSUME NEW hs \in Seq(HandleEntry), NEW first \in Nat, Listed(hs, first), NEW h \in 1 .. Len(hs),
         hs[h].use # "unused"
  PROVE  Listed([hs EXCEPT ![h] = Unused(first)], h)
<1> DEFINE U == UnusedOf(hs)
           n == Cardinality(U)
           e == Unused(first)
           hs2 == [hs EXCEPT ![h] = e]
           U2 == UnusedOf(hs2)
<1>1. PICK place \in [U -> 1 .. n] : Way(place, hs, first, n) BY DEF Listed
<1>2. e \in HandleEntry /\ e.use = "unused" /\ e.next = first BY DEF Unused, HandleEntry
<1> HIDE DEF e
<1>3. hs2 \in Seq(HandleEntry) /\ Len(hs2) = Len(hs)
      /\ \A k \in 1 .. Len(hs) : hs2[k] = IF k = h THEN e ELSE hs[k]
  BY <1>2, TableExcept
<1>4. h \notin U BY DEF UnusedOf
<1>5. U2 = U \cup {h} BY <1>2, <1>3 DEF UnusedOf
<1>6. IsFiniteSet(U) /\ n \in Nat BY UnusedFinite
<1>7. Cardinality(U2) = n + 1 BY <1>4, <1>5, <1>6, FS_AddElement
<1> DEFINE p2 == [k \in U2 |-> IF k = h THEN n + 1 ELSE place[k]]
<1>8. first = 0 <=> U = {} BY DEF Listed
<1>9. first = 0 => n = 0 BY <1>6, <1>8, FS_EmptySet
<1> HIDE DEF U, n, U2, hs2
<1>10. p2 \in [U2 -> 1 .. (n + 1)] BY <1>5, <1>6
<1>11. \A k \in U : p2[k] = place[k] /\ place[k] \in 1 .. n /\ hs2[k] = hs[k] /\ k # h
  BY <1>3, <1>4, <1>5 DEF U, UnusedOf
<1>12. p2[h] = n + 1 /\ hs2[h] = e /\ h \in U2 BY <1>3, <1>5
<1> HIDE DEF p2
<1>13. Way(p2, hs2, h, n + 1)
  <2>1. ASSUME NEW j \in U2, NEW k \in U2, p2[j] = p2[k] PROVE j = k
    <3>1. j \in U /\ k \in U => (place[j] = place[k] => j = k) BY <1>1 DEF Way, U
    <3>2. \A i \in U : p2[i] # n + 1 BY <1>6, <1>11
    <3>3. CASE j \in U /\ k \in U BY <1>11, <2>1, <3>1, <3>3
    <3>4. CASE j = h \/ k = h BY <1>5, <1>12, <2>1, <3>2, <3>4
    <3> QED BY <1>5, <3>3, <3>4
  <2>2. ASSUME NEW k \in U
        PROVE  IF p2[k] = 1 THEN hs2[k].next = 0
               ELSE hs2[k].next \in U2 /\ p2[hs2[k].next] = p2[k] - 1
    <3>1. IF place[k] = 1 THEN hs[k].next = 0
          ELSE hs[k].next \in U /\ place[hs[k].next] = place[k] - 1
      BY <1>1 DEF Way, U
    <3> QED BY <1>5, <1>11, <3>1
  <2>3. IF p2[h] = 1 THEN hs2[h].next = 0
        ELSE hs2[h].next \in U2 /\ p2[hs2[h].next] = p2[h] - 1
    <3>1. CASE first = 0 BY <1>2, <1>9, <1>12, <3>1
    <3>2. CASE first # 0
      <4>1. first \in U /\ place[first] = n BY <1>1, <3>2 DEF Way, U
      <4>2. n >= 1 BY <1>11, <4>1, <1>6
      <4> QED BY <1>2, <1>5, <1>6, <1>11, <1>12, <4>1, <4>2
    <3> QED BY <3>1, <3>2
  <2>4. \A k \in U2 : p2[k] \in 1 .. (n + 1) BY <1>10
  <2>5. \A k \in U2 : IF p2[k] = 1 THEN hs2[k].next = 0
               ELSE hs2[k].next \in U2 /\ p2[hs2[k].next] = p2[k] - 1
    BY <1>5, <2>2, <2>3
  <2> QED BY <1>12, <2>1, <2>4, <2>5 DEF Way, U2
<1>14. Listed(hs2, h) BY <1>7, <1>10, <1>12, <1>13 DEF Listed, U2
<1> QED BY <1>14 DEF hs2, e

LEMMA Grown ==
  ASSUME NEW hs \in Seq(HandleEntry), Listed(hs, 0), NEW e \in HandleEntry, e.use # "unused"
  PROVE  Listed(Append(hs, e), 0)
<1>1. UnusedOf(hs) = {} BY DEF Listed
<1>2. \A h \in 1 .. Len(hs) : Append(hs, e)[h] = hs[h] OBVIOUS
<1>3. Append(hs, e)[Len(hs) + 1] = e /\ Len(Append(hs, e)) = Len(hs) + 1 /\ Len(hs) \in Nat OBVIOUS
<1>4. UnusedOf(Append(hs, e)) = {} BY <1>1, <1>2, <1>3 DEF UnusedOf
<1> DEFINE p == [h \in {} |-> 1]
<1>5. p \in [{} -> 1 .. Cardinality({})] OBVIOUS
<1>6. Way(p, Append(hs, e), 0, Cardinality({})) BY <1>4 DEF Way
<1> QED BY <1>4, <1>5, <1>6 DEF Listed

(* handle_new(): a free entry, or one more. *)
LEMMA HandleNew ==
  ASSUME TableSound(handles, first_unused_handle, told), NEW use \in {"file", "dir"}, NEW ino \in Nat,
         NEW writes \in BOOLEAN, handle_new(use, ino, writes).handle <= MaxHandles
  PROVE  LET n == handle_new(use, ino, writes) IN
         /\ TableSound(n.handles, n.first, [told EXCEPT ![n.handle] = ino])
         /\ \A h \in 1 .. Len(n.handles) :
              n.handles[h].writes => writes \/ (h \in 1 .. Len(handles) /\ handles[h].writes)
<1> DEFINE e == [use |-> use, ino |-> ino, writes |-> writes, next |-> 0]
           first == first_unused_handle
<1>0. e \in HandleEntry /\ e.use # "unused" /\ e.ino = ino /\ e.writes = writes BY DEF HandleEntry
<1>1. /\ handles \in Seq(HandleEntry) /\ Len(handles) <= MaxHandles /\ first \in Nat
      /\ told \in [1 .. MaxHandles -> Nat] /\ \A h \in 1 .. Len(handles) : handles[h].ino = told[h]
      /\ Listed(handles, first)
  BY DEF TableSound
<1>2. MaxHandles \in Nat /\ Len(handles) \in Nat BY <1>1, SftpServerAssumption
<1>3. CASE first # 0
  <2> DEFINE hs == [handles EXCEPT ![first] = e]
  <2>1. handle_new(use, ino, writes) = [handles |-> hs, first |-> handles[first].next, handle |-> first]
    BY <1>3 DEF handle_new
  <2>2. first \in 1 .. Len(handles) /\ handles[first].next \in Nat /\ Listed(hs, handles[first].next)
    BY <1>0, <1>1, <1>3, Popped
  <2>3. /\ hs \in Seq(HandleEntry) /\ Len(hs) = Len(handles)
        /\ \A h \in 1 .. Len(handles) : hs[h] = IF h = first THEN e ELSE handles[h]
    BY <1>0, <1>1, <2>2, TableExcept
  <2> HIDE DEF hs, e
  <2>4. TableSound(hs, handles[first].next, [told EXCEPT ![first] = ino])
    <3>1. [told EXCEPT ![first] = ino] \in [1 .. MaxHandles -> Nat] BY <1>1
    <3>2. ASSUME NEW h \in 1 .. Len(hs) PROVE hs[h].ino = [told EXCEPT ![first] = ino][h]
      <4>1. h \in 1 .. Len(handles) /\ h \in 1 .. MaxHandles BY <1>1, <1>2, <2>3
      <4>2. CASE h = first BY <1>0, <1>1, <2>3, <4>1, <4>2
      <4>3. CASE h # first BY <1>1, <2>3, <4>1, <4>3
      <4> QED BY <4>2, <4>3
    <3> QED BY <1>1, <2>2, <2>3, <3>1, <3>2 DEF TableSound
  <2>5. \A h \in 1 .. Len(hs) : hs[h].writes => writes \/ (h \in 1 .. Len(handles) /\ handles[h].writes)
    BY <1>0, <2>3
  <2> QED BY <2>1, <2>4, <2>5
<1>4. CASE first = 0
  <2> DEFINE grown == Append(handles, Unused(0))
             i == Len(grown)
             hs == Append(handles, e)
  <2>1. Unused(0) \in HandleEntry /\ Unused(0).next = 0 BY DEF Unused, HandleEntry
  <2>2. grown \in Seq(HandleEntry) /\ i = Len(handles) + 1 /\ grown[i] = Unused(0)
        /\ \A h \in 1 .. Len(handles) : grown[h] = handles[h]
    BY <1>1, <2>1
  <2>3. [grown EXCEPT ![i] = e] = hs
    <3>0. i \in 1 .. Len(grown) /\ Len(grown) = i BY <1>2, <2>2
    <3>1. /\ [grown EXCEPT ![i] = e] \in Seq(HandleEntry) /\ Len([grown EXCEPT ![i] = e]) = i
          /\ \A h \in 1 .. i : [grown EXCEPT ![i] = e][h] = IF h = i THEN e ELSE grown[h]
      <4> HIDE DEF grown, i, e
      <4> QED BY <1>0, <2>2, <3>0, TableExcept
    <3>2. hs \in Seq(HandleEntry) /\ Len(hs) = i /\ hs[i] = e /\ \A h \in 1 .. Len(handles) : hs[h] = handles[h]
      BY <1>0, <1>1, <2>2
    <3> HIDE DEF grown, hs, i, e
    <3>3. \A h \in 1 .. i : [grown EXCEPT ![i] = e][h] = hs[h] BY <1>2, <2>2, <3>1, <3>2
    <3> QED BY <3>1, <3>2, <3>3
  <2>4. handle_new(use, ino, writes) = [handles |-> hs, first |-> 0, handle |-> i]
    BY <1>4, <2>1, <2>2, <2>3 DEF handle_new
  <2>5. Listed(hs, 0) BY <1>0, <1>1, <1>4, Grown
  <2>6. /\ hs \in Seq(HandleEntry) /\ Len(hs) = i /\ hs[i] = e /\ i <= MaxHandles
        /\ \A h \in 1 .. Len(handles) : hs[h] = handles[h]
    BY <1>0, <1>1, <2>2, <2>4
  <2> HIDE DEF grown, hs, i, e
  <2>7. TableSound(hs, 0, [told EXCEPT ![i] = ino])
    <3>1. [told EXCEPT ![i] = ino] \in [1 .. MaxHandles -> Nat] BY <1>1
    <3>2. ASSUME NEW h \in 1 .. Len(hs) PROVE hs[h].ino = [told EXCEPT ![i] = ino][h]
      <4>1. h \in 1 .. MaxHandles BY <1>2, <2>2, <2>6
      <4>2. CASE h = i BY <1>0, <1>1, <2>6, <4>1, <4>2
      <4>3. CASE h # i
        <5>1. h \in 1 .. Len(handles) BY <1>2, <2>2, <2>6, <4>3
        <5> QED BY <1>1, <2>6, <4>1, <4>3, <5>1
      <4> QED BY <4>2, <4>3
    <3> QED BY <2>5, <2>6, <3>1, <3>2 DEF TableSound
  <2>8. \A h \in 1 .. Len(hs) : hs[h].writes => writes \/ (h \in 1 .. Len(handles) /\ handles[h].writes)
    BY <1>0, <1>2, <2>2, <2>6
  <2> QED BY <2>4, <2>7, <2>8
<1> QED BY <1>3, <1>4

(* handle_close(). *)
LEMMA HandleClosed_s ==
  ASSUME TableSound(handles, first_unused_handle, told), NEW h, handle_close(h).ok
  PROVE  /\ TableSound(handle_close(h).handles, handle_close(h).first, [told EXCEPT ![h] = 0])
         /\ \A k \in 1 .. Len(handle_close(h).handles) :
              handle_close(h).handles[k].writes => k \in 1 .. Len(handles) /\ handles[k].writes
<1> DEFINE first == first_unused_handle
           e == Unused(first)
           hs == [handles EXCEPT ![h] = e]
<1>1. /\ handles \in Seq(HandleEntry) /\ Len(handles) <= MaxHandles /\ first \in Nat
      /\ told \in [1 .. MaxHandles -> Nat] /\ \A k \in 1 .. Len(handles) : handles[k].ino = told[k]
      /\ Listed(handles, first)
  BY DEF TableSound
<1>2. MaxHandles \in Nat /\ Len(handles) \in Nat BY <1>1, SftpServerAssumption
<1>3. h \in 1 .. Len(handles) /\ handles[h].use # "unused"
  BY <1>1 DEF handle_close, handle_is_ok
<1>4. handle_close(h) = [handles |-> hs, first |-> h, ok |-> TRUE]
  BY DEF handle_close
<1>5. e \in HandleEntry /\ e.ino = 0 /\ e.writes = FALSE BY <1>1 DEF HandleEntry, Unused
<1>6. Listed(hs, h) BY <1>1, <1>3, Pushed
<1> HIDE DEF e
<1>7. /\ hs \in Seq(HandleEntry) /\ Len(hs) = Len(handles)
      /\ \A k \in 1 .. Len(handles) : hs[k] = IF k = h THEN e ELSE handles[k]
  BY <1>1, <1>3, <1>5, TableExcept
<1> HIDE DEF hs
<1>8. [told EXCEPT ![h] = 0] \in [1 .. MaxHandles -> Nat] BY <1>1
<1>9. \A k \in 1 .. Len(hs) : hs[k].ino = [told EXCEPT ![h] = 0][k] BY <1>1, <1>2, <1>3, <1>5, <1>7
<1>10. h \in Nat BY <1>3
<1>11. TableSound(hs, h, [told EXCEPT ![h] = 0]) BY <1>1, <1>6, <1>7, <1>8, <1>9, <1>10 DEF TableSound
<1> QED BY <1>4, <1>5, <1>7, <1>11

----------------------------------------------------------------------------
(* What each request may do. *)
SoundOutcome(e) ==
  /\ e.names \in NamesType /\ e.content \in Seq({0, 1})
  /\ TableSound(e.handles, e.first, e.told)
  /\ Readonly => /\ e.names = names /\ e.content = content
                 /\ \A h \in 1 .. Len(e.handles) :
                       e.handles[h].writes => h \in 1 .. Len(handles) /\ handles[h].writes
Outcome(e) == e.replies = 1 /\ SoundOutcome(e)

SftpdNow ==
  /\ names \in NamesType /\ content \in Seq({0, 1}) /\ TableSound(handles, first_unused_handle, told)
  /\ Readonly \in BOOLEAN

LEMMA KeptOutcome == ASSUME SftpdNow PROVE \A e \in Answered : Outcome(e)
BY DEF SftpdNow, Answered, Kept, Outcome, SoundOutcome

LEMMA ChangesOutcome ==
  ASSUME SftpdNow, ~Readonly, NEW fs \in NamesType, NEW data \in Seq({0, 1})
  PROVE  \A e \in Changes(fs, data) : Outcome(e)
<1>1. ASSUME NEW e, e = [Kept EXCEPT !.names = fs, !.content = data] PROVE Outcome(e)
  <2>1. /\ e.names = fs /\ e.content = data /\ e.handles = handles /\ e.first = first_unused_handle
        /\ e.told = told /\ e.replies = 1
    BY <1>1 DEF Kept
  <2> QED BY <2>1 DEF SftpdNow, Outcome, SoundOutcome
<1> QED BY <1>1, KeptOutcome DEF Changes

LEMMA NewHandleOutcome ==
  ASSUME SftpdNow, NEW use \in {"file", "dir"}, NEW ino \in Nat, NEW writes \in BOOLEAN,
         NEW fs \in NamesType, NEW data \in Seq({0, 1}),
         Readonly => ~writes /\ fs = names /\ data = content
  PROVE  \A e \in HandleFor_s(use, ino, writes, fs, data) : Outcome(e)
<1> DEFINE n == handle_new(use, ino, writes)
<1>1. ASSUME NEW e \in HandleFor_s(use, ino, writes, fs, data) PROVE Outcome(e)
  <2>1. ~(n.handle > MaxHandles)
        /\ e = [replies |-> 1, names |-> fs, content |-> data, handles |-> n.handles,
                first |-> n.first, told |-> [told EXCEPT ![n.handle] = ino]]
    BY DEF HandleFor_s
  <2>2. n.handle \in Nat
    <3>1. first_unused_handle \in Nat /\ handles \in Seq(HandleEntry) BY DEF SftpdNow, TableSound
    <3>2. Len(Append(handles, Unused(0))) \in Nat
      <4>1. Unused(0) \in HandleEntry BY DEF Unused, HandleEntry
      <4> QED BY <3>1, <4>1
    <3> QED BY <3>1, <3>2 DEF handle_new
  <2>3. n.handle <= MaxHandles BY <2>1, <2>2, SftpServerAssumption
  <2>4. /\ TableSound(n.handles, n.first, [told EXCEPT ![n.handle] = ino])
        /\ \A h \in 1 .. Len(n.handles) :
              n.handles[h].writes => writes \/ (h \in 1 .. Len(handles) /\ handles[h].writes)
    BY <2>3, HandleNew DEF SftpdNow
  <2> HIDE DEF n
  <2> QED BY <2>1, <2>4 DEF Outcome, SoundOutcome
<1> QED BY <1>1

LEMMA NamesFacts ==
  ASSUME SftpdNow, NEW n \in DOMAIN InitialFiles
  PROVE  /\ names[n] \in FileEntry /\ names[n].ino \in Nat
         /\ \A fs \in NamesType, v \in FileEntry : [fs EXCEPT ![n] = v] \in NamesType
<1>1. names[n] \in FileEntry BY DEF SftpdNow, NamesType
<1>2. names[n].ino \in Nat BY <1>1 DEF FileEntry
<1> QED BY <1>1, <1>2 DEF NamesType

LEMMA ContentFacts ==
  ASSUME SftpdNow
  PROVE  /\ \A i : \A b \in {0, 1} : [content EXCEPT ![i] = b] \in Seq({0, 1})
         /\ Append(content, 0) \in Seq({0, 1}) /\ Len(content) + 1 \in Nat
         /\ \A t \in {"file", "dir", "link"} : [type |-> t, ino |-> Len(content) + 1] \in FileEntry
         /\ Nothing_f \in FileEntry
<1>1. content \in Seq({0, 1}) /\ Len(content) \in Nat BY DEF SftpdNow
<1>2. ASSUME NEW i, NEW b \in {0, 1} PROVE [content EXCEPT ![i] = b] \in Seq({0, 1})
  <2>1. content \in [1 .. Len(content) -> {0, 1}] BY <1>1
  <2>2. [content EXCEPT ![i] = b] \in [1 .. Len(content) -> {0, 1}] BY <2>1
  <2> QED BY <1>1, <2>2
<1>3. Append(content, 0) \in Seq({0, 1}) BY <1>1
<1> QED BY <1>1, <1>2, <1>3 DEF FileEntry, Nothing_f

LEMMA OpenOutcome ==
  ASSUME SftpdNow, NEW r, r.name \in DOMAIN InitialFiles
  PROVE  \A e \in process_open(r) : Outcome(e)
<1> DEFINE new == Len(content) + 1
           writes == "write" \in r.flags
           data == IF "trunc" \in r.flags THEN [content EXCEPT ![names[r.name].ino] = 0] ELSE content
           fs == [names EXCEPT ![r.name] = [type |-> "file", ino |-> new]]
           old == HandleFor_s("file", names[r.name].ino, writes, names, data)
           made == HandleFor_s("file", new, writes, fs, Append(content, 0))
<1>1. process_open(r) \subseteq Answered \cup (IF readonly_refuses(r.flags) THEN {} ELSE
         IF IsFile(r.name) /\ ~({"creat", "excl"} \subseteq r.flags) THEN old
         ELSE IF ~Exists(r.name) /\ "creat" \in r.flags THEN made ELSE {})
  BY DEF process_open
<1>2. names[r.name].ino \in Nat /\ new \in Nat /\ writes \in BOOLEAN BY NamesFacts, ContentFacts
<1>3. data \in Seq({0, 1}) /\ Append(content, 0) \in Seq({0, 1}) BY ContentFacts DEF SftpdNow
<1>4. names \in NamesType /\ fs \in NamesType BY NamesFacts, ContentFacts DEF SftpdNow
<1>5. Readonly /\ ~readonly_refuses(r.flags) => ~writes /\ data = content /\ "creat" \notin r.flags
  BY DEF readonly_refuses
<1> HIDE DEF new, writes, data, fs
<1>6. ~readonly_refuses(r.flags) => \A e \in old : Outcome(e) BY <1>2, <1>3, <1>4, <1>5, NewHandleOutcome
<1>7. ~readonly_refuses(r.flags) /\ "creat" \in r.flags => \A e \in made : Outcome(e)
  BY <1>2, <1>3, <1>4, <1>5, NewHandleOutcome
<1> HIDE DEF old, made
<1>8. \A e \in Answered : Outcome(e) BY KeptOutcome
<1> QED BY <1>1, <1>6, <1>7, <1>8

LEMMA CloseOutcome ==
  ASSUME SftpdNow, NEW r
  PROVE  \A e \in process_close(r) : Outcome(e)
<1> DEFINE closed == handle_close(r.handle)
           t == IF closed.ok THEN [told EXCEPT ![r.handle] = 0] ELSE told
<1>1. ASSUME NEW e \in process_close(r) PROVE Outcome(e)
  <2>1. e = [Kept EXCEPT !.handles = closed.handles, !.first = closed.first, !.told = t] BY DEF process_close
  <2>2. /\ e.names = names /\ e.content = content /\ e.handles = closed.handles /\ e.first = closed.first
        /\ e.told = t /\ e.replies = 1
    <3> HIDE DEF closed, t
    <3> QED BY <2>1 DEF Kept
  <2>3. /\ TableSound(closed.handles, closed.first, t)
        /\ \A h \in 1 .. Len(closed.handles) : closed.handles[h].writes => h \in 1 .. Len(handles) /\ handles[h].writes
    <3>1. CASE closed.ok BY <3>1, HandleClosed_s DEF SftpdNow
    <3>2. CASE ~closed.ok
      <4>1. closed.handles = handles /\ closed.first = first_unused_handle BY <3>2 DEF handle_close
      <4> QED BY <3>2, <4>1 DEF SftpdNow
    <3> QED BY <3>1, <3>2
  <2> HIDE DEF closed, t
  <2> QED BY <2>2, <2>3 DEF Outcome, SoundOutcome, SftpdNow
<1> QED BY <1>1

(* The requests that change files; they are not permitted in read-only mode. *)
LEMMA WriteOutcome ==
  ASSUME SftpdNow, ~Readonly, NEW r
  PROVE  /\ \A e \in process_write_s(r) : Outcome(e)
         /\ \A e \in process_fsetstat(r) : Outcome(e)
         /\ r.name \in DOMAIN InitialFiles => \A e \in process_setstat(r) : Outcome(e)
<1>1. \A i : \A b \in {0, 1} : \A e \in Changes(names, [content EXCEPT ![i] = b]) : Outcome(e)
  BY ContentFacts, ChangesOutcome DEF SftpdNow
<1>2. \A e \in Answered : Outcome(e) BY KeptOutcome
<1> QED BY <1>1, <1>2 DEF process_write_s, process_fsetstat, process_setstat

LEMMA RenamesOutcome ==
  ASSUME SftpdNow, ~Readonly, NEW fs \in NamesType
  PROVE  \A e \in Renames(fs) : Outcome(e)
BY ChangesOutcome DEF Renames, SftpdNow

LEMMA NameOutcome ==
  ASSUME SftpdNow, ~Readonly, NEW r, r.name \in DOMAIN InitialFiles
  PROVE  /\ \A e \in process_remove(r) : Outcome(e)
         /\ \A e \in process_mkdir(r) : Outcome(e)
         /\ \A e \in process_rmdir(r) : Outcome(e)
<1> DEFINE gone == [names EXCEPT ![r.name] = Nothing_f]
           made == [names EXCEPT ![r.name] = [type |-> "dir", ino |-> Len(content) + 1]]
<1>1. gone \in NamesType /\ made \in NamesType BY NamesFacts, ContentFacts DEF SftpdNow
<1>2. \A e \in Renames(gone) : Outcome(e) BY <1>1, RenamesOutcome
<1>3. \A e \in Changes(made, Append(content, 0)) : Outcome(e) BY <1>1, ContentFacts, ChangesOutcome
<1>4. \A e \in Answered : Outcome(e) BY KeptOutcome
<1>5. process_remove(r) = Renames(gone) \/ process_remove(r) = Answered BY DEF process_remove
<1>6. process_rmdir(r) = Renames(gone) \/ process_rmdir(r) = Answered BY DEF process_rmdir
<1>7. process_mkdir(r) = Changes(made, Append(content, 0)) \/ process_mkdir(r) = Answered BY DEF process_mkdir
<1> HIDE DEF gone, made
<1> QED BY <1>2, <1>3, <1>4, <1>5, <1>6, <1>7

LEMMA TwoNameOutcome ==
  ASSUME SftpdNow, ~Readonly, NEW a \in DOMAIN InitialFiles, NEW b \in DOMAIN InitialFiles
  PROVE  /\ \A e \in rename(a, b) : Outcome(e)
         /\ \A e \in link(a, b) : Outcome(e)
         /\ \A e \in xrename(a, b) : Outcome(e)
<1> DEFINE linked == [names EXCEPT ![b] = names[a]]
           moved == [names EXCEPT ![b] = names[a], ![a] = Nothing_f]
<1>1. linked \in NamesType BY NamesFacts DEF SftpdNow
<1>2. moved = [linked EXCEPT ![a] = Nothing_f] BY DEF SftpdNow, NamesType
<1>3. moved \in NamesType BY <1>1, <1>2, NamesFacts, ContentFacts
<1>4. \A e \in Renames(linked) : Outcome(e) BY <1>1, RenamesOutcome
<1>5. \A e \in Renames(moved) : Outcome(e) BY <1>3, RenamesOutcome
<1>6. \A e \in Answered : Outcome(e) BY KeptOutcome
<1>7. rename(a, b) = Renames(moved) \/ rename(a, b) = Answered BY DEF rename
<1>8. link(a, b) = Renames(linked) \/ link(a, b) = Answered BY DEF link
<1>9. xrename(a, b) = Renames(moved) \/ xrename(a, b) = Answered BY DEF xrename
<1> HIDE DEF linked, moved
<1> QED BY <1>4, <1>5, <1>6, <1>7, <1>8, <1>9

LEMMA RenameOutcome ==
  ASSUME SftpdNow, ~Readonly, NEW r, r.name \in DOMAIN InitialFiles, r.name2 \in DOMAIN InitialFiles
  PROVE  /\ \A e \in process_rename(r) : Outcome(e)
         /\ \A e \in process_extended_posix_rename(r) : Outcome(e)
         /\ \A e \in process_extended_hardlink(r) : Outcome(e)
         /\ \A e \in process_symlink(r) : Outcome(e)
<1> DEFINE made == [names EXCEPT ![r.name2] = [type |-> "link", ino |-> Len(content) + 1]]
<1>1. made \in NamesType BY NamesFacts, ContentFacts DEF SftpdNow
<1>2. \A e \in Changes(made, Append(content, 0)) : Outcome(e) BY <1>1, ContentFacts, ChangesOutcome
<1>3. \A e \in Answered : Outcome(e) BY KeptOutcome
<1>4. process_symlink(r) = Changes(made, Append(content, 0)) \/ process_symlink(r) = Answered
  BY DEF process_symlink
<1> HIDE DEF made
<1>5. process_rename(r) \in {Answered, xrename(r.name, r.name2), rename(r.name, r.name2)}
  BY DEF process_rename
<1> QED BY <1>2, <1>3, <1>4, <1>5, TwoNameOutcome
     DEF process_extended_posix_rename, process_extended_hardlink

LEMMA OpendirOutcome ==
  ASSUME SftpdNow, NEW r, r.name \in DOMAIN InitialFiles
  PROVE  \A e \in process_opendir(r) : Outcome(e)
<1> DEFINE new == HandleFor_s("dir", names[r.name].ino, FALSE, names, content)
<1>1. process_opendir(r) \subseteq Answered \cup new BY DEF process_opendir
<1>2. names[r.name].ino \in Nat BY NamesFacts
<1>3. \A e \in new : Outcome(e) BY <1>2, NewHandleOutcome DEF SftpdNow
<1> HIDE DEF new
<1> QED BY <1>1, <1>3, KeptOutcome

LEMMA HandlerOutcome ==
  ASSUME SftpdNow, NEW r \in SftpRequests, request_permitted(r.op), r.op \notin {"unknown", "unknown extended"}
  PROVE  \A e \in handler(r) : Outcome(e)
<1>0. r.op \in SftpOps /\ (r.op \in OneNameOps => r.name \in DOMAIN InitialFiles)
      /\ (r.op \in TwoNameOps => r.name2 \in DOMAIN InitialFiles)
  BY SftpServerAssumption
<1>1. r.op \in does_write => ~Readonly BY DEF request_permitted
<1>2. CASE r.op = "open"
  <2>1. handler(r) = process_open(r) BY <1>2 DEF handler
  <2> QED BY <1>0, <1>2, <2>1, OpenOutcome DEF OneNameOps
<1>3. CASE r.op = "close"
  <2>1. handler(r) = process_close(r) BY <1>3 DEF handler
  <2> QED BY <2>1, CloseOutcome
<1>4. CASE r.op = "opendir"
  <2>1. handler(r) = process_opendir(r) BY <1>4 DEF handler
  <2> QED BY <1>0, <1>4, <2>1, OpendirOutcome DEF OneNameOps
<1>5. CASE r.op \in {"write", "fsetstat", "setstat"}
  <2>1. handler(r) = CASE r.op = "write" -> process_write_s(r) [] r.op = "fsetstat" -> process_fsetstat(r)
                       [] r.op = "setstat" -> process_setstat(r)
    BY <1>5 DEF handler
  <2>2. ~Readonly BY <1>1, <1>5 DEF does_write
  <2>3. r.op = "setstat" => r.name \in DOMAIN InitialFiles BY <1>0 DEF OneNameOps
  <2> QED BY <1>5, <2>1, <2>2, <2>3, WriteOutcome
<1>6. CASE r.op \in {"remove", "mkdir", "rmdir"}
  <2>1. handler(r) \in {process_remove(r), process_mkdir(r), process_rmdir(r)} BY <1>6 DEF handler
  <2>2. ~Readonly BY <1>1, <1>6 DEF does_write
  <2>3. r.name \in DOMAIN InitialFiles BY <1>0, <1>6 DEF OneNameOps
  <2> QED BY <2>1, <2>2, <2>3, NameOutcome
<1>7. CASE r.op \in TwoNameOps
  <2>1. handler(r) \in {process_rename(r), process_extended_posix_rename(r), process_extended_hardlink(r),
                        process_symlink(r)}
    BY <1>7 DEF handler, TwoNameOps
  <2>2. ~Readonly BY <1>1, <1>7 DEF does_write, TwoNameOps
  <2>3. r.name \in DOMAIN InitialFiles BY <1>0, <1>7 DEF OneNameOps, TwoNameOps
  <2>4. r.name2 \in DOMAIN InitialFiles BY <1>0, <1>7
  <2> QED BY <2>1, <2>2, <2>3, <2>4, RenameOutcome
<1>8. CASE r.op \in {"read", "stat", "lstat", "fstat", "readdir", "realpath", "readlink", "statvfs",
                     "fstatvfs", "fsync", "lsetstat"}
  <2>1. handler(r) = Answered
    BY <1>8 DEF handler, process_read_s, process_do_stat, process_readdir, process_realpath,
       process_readlink, process_extended_statvfs, process_extended_fsync
  <2> QED BY <2>1, KeptOutcome
<1> QED BY <1>0, <1>2, <1>3, <1>4, <1>5, <1>6, <1>7, <1>8 DEF SftpOps, OneNameOps, TwoNameOps

LEMMA MessageOutcome ==
  ASSUME SftpdNow, NEW r \in Message, NEW e \in process_message(r)
  PROVE  /\ SoundOutcome(e) /\ e.replies \in Nat
         /\ r.op # "unknown" => e.replies = 1
<1>1. CASE r.op = "unknown"
  <2>1. e = [Kept EXCEPT !.replies = 0] BY <1>1 DEF process_message
  <2>2. /\ e.names = names /\ e.content = content /\ e.handles = handles /\ e.first = first_unused_handle
        /\ e.told = told /\ e.replies = 0
    BY <2>1 DEF Kept
  <2> QED BY <1>1, <2>2 DEF SoundOutcome, SftpdNow
<1>2. CASE r.op # "unknown"
  <2>1. CASE e \in Answered BY <1>2, <2>1, KeptOutcome DEF Outcome
  <2>2. CASE e \notin Answered
    <3>a. r.op = "init" => process_message(r) = Answered BY DEF process_message
    <3>b. r.op = "unknown extended" => process_message(r) = Answered BY DEF process_message
    <3>c. r.op # "init" /\ r.op # "unknown" /\ r.op # "unknown extended"
          => process_message(r) = IF request_permitted(r.op) THEN handler(r) ELSE Answered
      BY DEF process_message
    <3>1. r.op # "init" /\ r.op # "unknown extended" /\ request_permitted(r.op) /\ e \in handler(r)
      BY <1>2, <2>2, <3>a, <3>b, <3>c
    <3>2. r \in SftpRequests
      <4>1. [op |-> "init"].op = "init" OBVIOUS
      <4> QED BY <3>1, <4>1 DEF Message
    <3>3. \A d \in handler(r) : Outcome(d) BY <1>2, <3>1, <3>2, HandlerOutcome
    <3>4. Outcome(e) BY <3>1, <3>3
    <3> QED BY <1>2, <3>4 DEF Outcome
  <2> QED BY <2>1, <2>2
<1> QED BY <1>1, <1>2

LEMMA SftpdStart == SftpServerInit => SftpdInv
<1> SUFFICES ASSUME NEW mode \in SftpModes, SftpServerStart(InitialFiles, mode) PROVE SftpdInv
  BY DEF SftpServerInit
<1> DEFINE made == {n \in DOMAIN InitialFiles : InitialFiles[n].ino > 0}
<1>1. Cardinality(made) \in Nat
  <2>1. made \subseteq DOMAIN InitialFiles OBVIOUS
  <2> QED BY <2>1, SftpServerAssumption, FS_Subset, FS_CardinalityType
<1>2. content = [i \in 1 .. Cardinality(made) |-> 1] BY DEF SftpServerStart
<1> HIDE DEF made
<1>3. content \in Seq({0, 1}) /\ \A i \in Inodes : content[i] = 1 BY <1>1, <1>2 DEF Inodes
<1>4. names \in NamesType BY SftpServerAssumption DEF SftpServerStart, NamesType, FileEntry
<1>5. handles = <<>> /\ first_unused_handle = 0 /\ told = [h \in 1 .. MaxHandles |-> 0]
  BY DEF SftpServerStart
<1>6. TableSound(handles, first_unused_handle, told)
  <2>1. UnusedOf(handles) = {} BY <1>5 DEF UnusedOf
  <2>2. Cardinality(UnusedOf(handles)) = 0 BY <2>1, FS_EmptySet
  <2> DEFINE p == [h \in {} |-> 0]
  <2>3. p \in [{} -> 1 .. 0] OBVIOUS
  <2>4. Way(p, handles, 0, 0) BY <2>1 DEF Way
  <2>5. Listed(handles, 0) BY <2>1, <2>2, <2>3, <2>4 DEF Listed
  <2> QED BY <1>5, <2>5, SftpServerAssumption DEF TableSound
<1>7. sftpd \in Sftpd /\ pipe \in Seq(Message) /\ iqueue \in Seq(Message) /\ oqueue \in Nat
  BY DEF SftpServerStart, Sftpd
<1>8. NoRequestWaits BY DEF SftpServerStart, NoRequestWaits
<1>9. ReadonlyKept
  <2>1. names = InitialFiles BY DEF SftpServerStart
  <2>2. DOMAIN handles = {} BY <1>5
  <2> QED BY <1>3, <2>1, <2>2 DEF ReadonlyKept
<1> QED BY <1>3, <1>4, <1>6, <1>7, <1>8, <1>9 DEF SftpdInv

LEMMA SftpdReads ==
  ASSUME SftpdInv
  PROVE  /\ SftpdNow /\ sftpd.mode \in SftpModes /\ sftpd.init_done \in BOOLEAN /\ sftpd.ended \in BOOLEAN
         /\ sftpd.sent \in Nat /\ sftpd.silent \in BOOLEAN
<1>1. /\ sftpd.mode \in SftpModes /\ sftpd.init_done \in BOOLEAN /\ sftpd.ended \in BOOLEAN
      /\ sftpd.sent \in Nat /\ sftpd.silent \in BOOLEAN
  BY DEF SftpdInv, Sftpd
<1> QED BY <1>1, SftpServerAssumption DEF SftpdInv, SftpdNow, Readonly

LEMMA SftpSendsKeeps == SftpdInv /\ SftpSends => SftpdInv'
<1> SUFFICES ASSUME SftpdInv, SftpSends PROVE SftpdInv' OBVIOUS
<1>1. PICK r \in SftpRequests : pipe' = Append(pipe, IF sftpd.sent = 0 THEN [op |-> "init"] ELSE r)
  BY DEF SftpSends
<1>2. pipe' \in Seq(Message)
  <2>1. (IF sftpd.sent = 0 THEN [op |-> "init"] ELSE r) \in Message BY DEF Message
  <2> QED BY <1>1, <2>1 DEF SftpdInv
<1>3. /\ sftpd' = [sftpd EXCEPT !.sent = @ + 1]
      /\ UNCHANGED <<iqueue, oqueue, handles, first_unused_handle, names, content, told>>
  BY DEF SftpSends
<1>4. sftpd' \in Sftpd /\ sftpd'.mode = sftpd.mode /\ sftpd'.ended = sftpd.ended
      /\ sftpd'.silent = sftpd.silent
  <2>1. sftpd \in Sftpd /\ sftpd.sent + 1 \in Nat BY SftpdReads DEF SftpdInv
  <2> DEFINE more == sftpd.sent + 1
  <2>2. sftpd' = [sftpd EXCEPT !.sent = more] BY <1>3, <2>1 DEF Sftpd
  <2> HIDE DEF more
  <2>3. more \in Nat BY <2>1 DEF more
  <2> QED BY <2>1, <2>2, <2>3 DEF Sftpd
<1>5. NoRequestWaits' BY <1>3, <1>4 DEF SftpdInv, NoRequestWaits
<1>6. ReadonlyKept' BY <1>3, <1>4 DEF SftpdInv, ReadonlyKept, Readonly, Inodes
<1>7. TableSound(handles, first_unused_handle, told)' BY <1>3 DEF SftpdInv, TableSound, Listed, Way, UnusedOf
<1> QED BY <1>2, <1>3, <1>4, <1>5, <1>6, <1>7 DEF SftpdInv

(* One turn of the loop. *)
LEMMA TurnKeeps == SftpdInv /\ sftp_server_main => SftpdInv'
<1> SUFFICES ASSUME SftpdInv, sftp_server_main PROVE SftpdInv' OBVIOUS
<1>0. SftpdNow BY SftpdReads
<1>1. PICK n \in 0 .. Len(pipe), m \in 0 .. oqueue :
        LET in == iqueue \o SubSeq(pipe, 1, n)
            out == oqueue - m
            handles_one == in # <<>> /\ out < QueueLimit
        IN
        /\ ~sftpd.ended
        /\ pipe' = SubSeq(pipe, n + 1, Len(pipe))
        /\ iqueue' = IF handles_one THEN Tail(in) ELSE in
        /\ IF ~handles_one \/ (~sftpd.init_done /\ Head(in).op # "init")
           THEN /\ sftpd' = [sftpd EXCEPT !.ended = handles_one]
                /\ oqueue' = out
                /\ UNCHANGED <<handles, first_unused_handle, names, content, told>>
           ELSE \E e \in process_message(Head(in)) :
                /\ oqueue' = out + e.replies
                /\ sftpd' = [sftpd EXCEPT !.init_done = TRUE, !.silent = Head(in).op = "unknown"]
                /\ handles' = e.handles /\ first_unused_handle' = e.first
                /\ names' = e.names /\ content' = e.content /\ told' = e.told
  BY DEF sftp_server_main
<1> DEFINE in == iqueue \o SubSeq(pipe, 1, n)
           out == oqueue - m
           one == in # <<>> /\ out < QueueLimit
<1>2. pipe \in Seq(Message) /\ iqueue \in Seq(Message) /\ oqueue \in Nat BY DEF SftpdInv
<1>3. SubSeq(pipe, 1, n) \in Seq(Message) /\ pipe' \in Seq(Message)
  <2>1. pipe' = SubSeq(pipe, n + 1, Len(pipe)) BY <1>1
  <2>2. n \in Nat /\ n <= Len(pipe) /\ Len(pipe) \in Nat BY <1>2
  <2>3. SubSeq(pipe, 1, n) \in Seq(Message) BY <1>2, <2>2
  <2>4. SubSeq(pipe, n + 1, Len(pipe)) \in Seq(Message) BY <1>2, <2>2
  <2> QED BY <2>1, <2>3, <2>4
<1>4. in \in Seq(Message) /\ out \in Nat /\ (in # <<>> => Head(in) \in Message /\ Tail(in) \in Seq(Message))
  BY <1>2, <1>3
<1>5. iqueue' = IF one THEN Tail(in) ELSE in BY <1>1
<1>6. CASE ~one \/ (~sftpd.init_done /\ Head(in).op # "init")
  <2>1. /\ sftpd' = [sftpd EXCEPT !.ended = one] /\ oqueue' = out
        /\ UNCHANGED <<handles, first_unused_handle, names, content, told>>
    BY <1>1, <1>6
  <2> HIDE DEF in, out
  <2>2. iqueue' \in Seq(Message) BY <1>4, <1>5
  <2>3. one \in BOOLEAN OBVIOUS
  <2> HIDE DEF one
  <2>4. sftpd' \in Sftpd /\ sftpd'.mode = sftpd.mode /\ sftpd'.ended = one /\ sftpd'.silent = sftpd.silent
    BY <2>1, <2>3 DEF SftpdInv, Sftpd
  <2>5. NoRequestWaits'
    <3>1. ASSUME ~one, iqueue' # <<>> PROVE oqueue' # 0
      <4>1. in # <<>> BY <1>5, <3>1
      <4>2. out >= QueueLimit BY <1>4, <3>1, <4>1, SftpServerAssumption DEF one
      <4> QED BY <1>4, <2>1, <4>2, SftpServerAssumption
    <3> QED BY <2>4, <3>1 DEF NoRequestWaits
  <2>6. ReadonlyKept' BY <2>1, <2>4 DEF SftpdInv, ReadonlyKept, Readonly, Inodes
  <2>7. TableSound(handles, first_unused_handle, told)'
    BY <2>1 DEF SftpdInv, TableSound, Listed, Way, UnusedOf
  <2> QED BY <1>3, <1>4, <2>1, <2>2, <2>4, <2>5, <2>6, <2>7 DEF SftpdInv
<1>7. CASE one /\ (sftpd.init_done \/ Head(in).op = "init")
  <2>1. PICK e \in process_message(Head(in)) :
          /\ oqueue' = out + e.replies
          /\ sftpd' = [sftpd EXCEPT !.init_done = TRUE, !.silent = Head(in).op = "unknown"]
          /\ handles' = e.handles /\ first_unused_handle' = e.first
          /\ names' = e.names /\ content' = e.content /\ told' = e.told
    BY <1>1, <1>7
  <2>2. in # <<>> /\ iqueue' = Tail(in) BY <1>5, <1>7
  <2> DEFINE r == Head(in)
  <2> HIDE DEF in, out, one
  <2>3. r \in Message BY <1>4, <2>2
  <2>4. sftpd' = [sftpd EXCEPT !.init_done = TRUE, !.silent = r.op = "unknown"] /\ e \in process_message(r)
    BY <2>1
  <2> HIDE DEF r
  <2>5. SoundOutcome(e) /\ e.replies \in Nat /\ (r.op # "unknown" => e.replies = 1)
    BY <1>0, <2>3, <2>4, MessageOutcome
  <2>6. sftpd' \in Sftpd /\ sftpd'.mode = sftpd.mode /\ sftpd'.silent = (r.op = "unknown")
    BY <2>4, SftpdReads DEF SftpdInv, Sftpd
  <2>7. oqueue' \in Nat /\ iqueue' \in Seq(Message) BY <1>4, <2>1, <2>2, <2>5
  <2>8. NoRequestWaits'
    <3>1. r.op # "unknown" => oqueue' # 0 BY <1>4, <2>1, <2>5
    <3> QED BY <2>6, <3>1 DEF NoRequestWaits
  <2>9. names' \in NamesType /\ content' \in Seq({0, 1}) BY <2>1, <2>5 DEF SoundOutcome
  <2>10. TableSound(handles, first_unused_handle, told)'
    <3>1. TableSound(handles', first_unused_handle', told') BY <2>1, <2>5 DEF SoundOutcome
    <3> QED BY <3>1 DEF TableSound, Listed, Way, UnusedOf
  <2>11. ReadonlyKept'
    <3>1. Readonly' = Readonly BY <2>6 DEF Readonly
    <3>2. ASSUME Readonly
          PROVE  /\ names' = InitialFiles /\ content' = content
                 /\ \A h \in DOMAIN handles' : ~handles'[h].writes
      <4>1. names = InitialFiles /\ \A h \in DOMAIN handles : ~handles[h].writes
        BY <3>2 DEF SftpdInv, ReadonlyKept
      <4>2. DOMAIN handles = 1 .. Len(handles) BY DEF SftpdInv, TableSound
      <4>3. DOMAIN handles' = 1 .. Len(handles') BY <2>10 DEF TableSound
      <4>4. /\ names' = names /\ content' = content
            /\ \A h \in 1 .. Len(handles') : handles'[h].writes => h \in 1 .. Len(handles) /\ handles[h].writes
        BY <2>1, <2>5, <3>2 DEF SoundOutcome
      <4> QED BY <4>1, <4>2, <4>3, <4>4
    <3>3. Readonly => \A i \in Inodes : content[i] = 1 BY DEF SftpdInv, ReadonlyKept
    <3> QED BY <3>1, <3>2, <3>3 DEF ReadonlyKept, Inodes
  <2> QED BY <1>3, <2>6, <2>7, <2>8, <2>9, <2>10, <2>11 DEF SftpdInv
<1>8. sftpd.init_done \in BOOLEAN BY SftpdReads
<1> HIDE DEF in, out, one
<1>9. one \in BOOLEAN BY DEF one
<1> QED BY <1>6, <1>7, <1>8, <1>9

LEMMA SftpdInductive == SftpdInv /\ [SftpServerNext]_sftpdVars => SftpdInv'
<1>1. ASSUME SftpdInv, UNCHANGED sftpdVars PROVE SftpdInv'
  <2>1. TableSound(handles, first_unused_handle, told)'
    BY <1>1 DEF sftpdVars, SftpdInv, TableSound, Listed, Way, UnusedOf
  <2>2. NoRequestWaits' /\ ReadonlyKept'
    BY <1>1 DEF sftpdVars, SftpdInv, NoRequestWaits, ReadonlyKept, Readonly, Inodes
  <2> QED BY <1>1, <2>1, <2>2 DEF sftpdVars, SftpdInv
<1> QED BY <1>1, SftpSendsKeeps, TurnKeeps DEF SftpServerNext

(* Handles stay with the files they were opened for and the list of unused entries is complete
   (handle_new(), handle_close()), a request is not left waiting without a reply to be written
   (sftp_server_main()), and a read-only server changes no file (request_permitted(),
   process_open()): for any requests, files, options and size of the table. *)
THEOREM HandlesAndFilesSafe == SftpServerSpec => []SftpServerSound
<1>1. SftpdInv => SftpServerSound
  <2> SUFFICES ASSUME SftpdInv PROVE SftpServerSound OBVIOUS
  <2>1. DOMAIN handles = 1 .. Len(handles) BY DEF SftpdInv, TableSound
  <2>2. UnusedHandles = UnusedOf(handles) BY <2>1 DEF UnusedHandles, UnusedOf
  <2>3. Listed(handles, first_unused_handle) BY DEF SftpdInv, TableSound
  <2> DEFINE n == Cardinality(UnusedHandles)
  <2>4. PICK place \in [UnusedHandles -> 1 .. n] : Way(place, handles, first_unused_handle, n)
    BY <2>2, <2>3 DEF Listed
  <2>5. ListOfUnused BY <2>2, <2>3, <2>4 DEF ListOfUnused, Listed, Way
  <2>6. HandlesSound BY <2>1, <2>5 DEF HandlesSound, SftpdInv, TableSound
  <2> QED BY <2>6 DEF SftpServerSound, SftpdInv
<1> QED BY <1>1, SftpdStart, SftpdInductive, PTL DEF SftpServerSpec
=============================================================================
