------------------------------ MODULE DnsUtil ------------------------------
(***************************************************************************)
(* dns_util.c as io_dns.c uses it: a query is built in a buffer, and what  *)
(* comes back, which may have been cut or be anything at all, is parsed by *)
(* a read index that moves over it, record by record.                      *)
(*                                                                         *)
(* Messages are sequences of bytes; read_ndx counts from 0 as the code     *)
(* does, so that the byte it stands at is buf[read_ndx + 1].               *)
(***************************************************************************)
EXTENDS Integers, Sequences

CONSTANTS
  Hosts,     \* the names asked for: sequences of characters
  Answers,   \* what servers answer: sequences of resource records
  Strays,    \* the datagrams anybody else sends: sequences of bytes
  BufLen,    \* IO_DNS_RX_BUF_SIZE
  MaxAddrs   \* DNS_UTIL_MAX_HOST_ADDRESSES

Byte == 0..255

\* 16 bits, in network order
Short == 0..65535
Field(n) == << n \div 256, n % 256 >>

Dot == 46

\* sizeof of dns_header and dns_r_data, and of an in_addr_t
HeaderLen == 12
RDataLen == 10
AddrLen == 4

ResourceRecord == [ name : Seq(Byte), type : Short, class : Short, data : Seq(Byte) ]

\* The labels of the name s start where starts says: each is an empty one, a
\* pointer, with which the name ends, or one with the next behind it.
LabelsStart(s, starts) ==
  /\ 1 \in starts
  /\ \A p \in starts :
       \/ s[p] = 0 /\ p = Len(s)
       \/ s[p] >= 192 /\ p + 1 = Len(s)
       \/ s[p] \in 1..191 /\ p + s[p] + 1 \in starts

IsName(s) == \E starts \in SUBSET (1..Len(s)) : LabelsStart(s, starts)

\* Servers write names as RFC 1035 has them, in one of its ways, and counts
\* that fit their fields.
ASSUME DnsUtilAssumption ==
  /\ BufLen \in Nat /\ MaxAddrs \in Nat
  /\ \A h \in Hosts : h \in Seq(Byte)
  /\ \A s \in Strays : s \in Seq(Byte)
  /\ \A a \in Answers :
       /\ a \in Seq(ResourceRecord) /\ Len(a) \in Short
       /\ \A i \in 1..Len(a) : IsName(a[i].name) /\ Len(a[i].data) \in Short

VARIABLES
  buf,       \* d->buf: the query, then the datagram up to d->buf_len
  read_ndx,  \* d->read_ndx
  qlen,      \* the length of the query
  at,        \* the place in dns_util_parse_A_response
  left,      \* the answer records still to be read
  addrs,     \* addrs->addrs up to addrs->n_addrs
  ret,       \* what the last parse returned
  host,      \* the name asked for
  sent       \* the records the datagram's sender meant, and whether all of them
             \* arrived

parserVars == << buf, read_ndx, qlen, at, left, addrs, ret, host, sent >>

ParserTypeOK ==
  /\ buf \in Seq(Byte) /\ Len(buf) <= BufLen
  /\ read_ndx \in Nat
  /\ qlen \in 0..BufLen
  /\ at \in { "idle", "waiting", "header", "name", "rdata", "done" }
  /\ left \in Nat
  /\ addrs \in Seq(Seq(Byte))
  /\ ret \in { 0, -1 }
  /\ host \in Hosts \cup { << >> }
  /\ sent.by \in { "server", "stranger" } /\ sent.whole \in BOOLEAN

Nobody == [ by |-> "stranger", records |-> << >>, whole |-> FALSE ]

ParserInit ==
  /\ buf = << >> /\ read_ndx = 0 /\ qlen = 0
  /\ at = "idle" /\ left = 0
  /\ addrs = << >> /\ ret = 0
  /\ host = << >> /\ sent = Nobody

-----------------------------------------------------------------------------
(* The query                                                                *)

\* dns_util_build_request_query: recursion desired, one question
RequestHeader == << 0, 0, 1, 0, 0, 1, 0, 0, 0, 0, 0, 0 >>

\* dns_util_build_qname: a length byte before each label, which grows with
\* the label, and an empty label at the end
Grown(q, c) ==
  IF c = Dot
  THEN [ bytes |-> Append(q.bytes, 0), len_at |-> Len(q.bytes) + 1 ]
  ELSE [ bytes |-> Append([q.bytes EXCEPT ![q.len_at] = (@ + 1) % 256], c),
         len_at |-> q.len_at ]

Built(h) ==
  LET q[k \in 0..Len(h)] ==
        IF k = 0 THEN [ bytes |-> << 0 >>, len_at |-> 1 ] ELSE Grown(q[k - 1], h[k])
  IN  q

Qname(h) == Append(Built(h)[Len(h)].bytes, 0)

Question(h) == Qname(h) \o << 0, 1, 0, 1 >>

\* A faulty variant: the question is written without a look at the room left.
FitsName(h) == HeaderLen + Len(Qname(h)) <= BufLen

\* There is room for each part, checked before it is written.
Fits(h) == HeaderLen + Len(Question(h)) <= BufLen

\* A query that does not fit is given up, and the lookup fails.
dns_util_build_A_query(h) ==
  /\ at = "idle" /\ h \in Hosts
  /\ Fits(h)
  /\ buf' = RequestHeader \o Question(h)
  /\ qlen' = Len(buf')
  /\ host' = h
  /\ at' = "waiting"
  /\ UNCHANGED << read_ndx, left, addrs, ret, sent >>

-----------------------------------------------------------------------------
(* The answer                                                               *)

\* Of the header the parser looks at the number of answers alone.
Header(ans_count) == << 0, 0, 1, 0, 0, 1 >> \o Field(ans_count) \o << 0, 0, 0, 0 >>

Record(r) ==
  r.name \o Field(r.type) \o Field(r.class) \o << 0, 0, 0, 9 >> \o Field(Len(r.data)) \o r.data

\* The answer as far as its k-th record
Written(records) ==
  LET m[k \in 0..Len(records)] ==
        IF k = 0 THEN Header(Len(records)) \o Question(host) ELSE m[k - 1] \o Record(records[k])
  IN  m

Message(records) == Written(records)[Len(records)]

\* recvfrom delivers no more than rx_buf holds; the network may cut the rest.
Arrives(m, by, records) ==
  /\ at = "waiting"
  /\ \E n \in 1..Len(m) :
       /\ n <= BufLen
       /\ buf' = SubSeq(m, 1, n)
       /\ sent' = [ by |-> by, records |-> records, whole |-> n = Len(m) ]
  /\ read_ndx' = 0
  /\ at' = "header"
  /\ UNCHANGED << qlen, left, addrs, ret, host >>

ServerAnswers == \E a \in Answers : Arrives(Message(a), "server", a)

StrangerSends == \E m \in Strays : Arrives(m, "stranger", << >>)

-----------------------------------------------------------------------------
DataLeft == Len(buf) - read_ndx

\* dns_util_read returns the data and moves past it.
Reads(len) == len <= DataLeft

\* A 16-bit field in network order, off bytes from read_ndx
Word(off) == 256 * buf[read_ndx + off + 1] + buf[read_ndx + off + 2]

Returns(r) == at' = "done" /\ ret' = r

\* Nothing of a parse that failed is looked at any more.
Fails == Returns(-1) /\ UNCHANGED << read_ndx, left, addrs >>

\* A faulty variant: the header is not taken off the length of the query.
WholeQuery == qlen

\* What follows the header in the query, and is repeated in the answer
QuestionBytes == qlen - HeaderLen

\* The header, the number of answers and the question
ParseHeader ==
  /\ at = "header"
  /\ IF Reads(HeaderLen) /\ Word(6) >= 1 /\ Reads(HeaderLen + QuestionBytes)
     THEN /\ left' = Word(6)
          /\ addrs' = << >>
          /\ read_ndx' = read_ndx + HeaderLen + QuestionBytes
          /\ at' = "name"
          /\ ret' = ret
     ELSE Fails
  /\ UNCHANGED << buf, qlen, host, sent >>

\* A faulty variant: the pointer is followed.
PointerFollowed ==
  IF Reads(2) THEN read_ndx' = buf[read_ndx + 2] /\ at' = "name" /\ UNCHANGED << left, addrs, ret >>
  ELSE Fails

\* A faulty variant: the second byte of a pointer is taken to be there.
PointerUnchecked ==
  read_ndx' = read_ndx + 2 /\ at' = "rdata" /\ UNCHANGED << left, addrs, ret >>

\* A pointer ends the name and is not followed.
Pointer ==
  IF Reads(2) THEN read_ndx' = read_ndx + 2 /\ at' = "rdata" /\ UNCHANGED << left, addrs, ret >>
  ELSE Fails

\* One turn of the loop of dns_util_parse_qname
ParseQname ==
  /\ at = "name"
  /\ IF ~Reads(1) THEN Fails
     ELSE LET b == buf[read_ndx + 1] IN
            IF b >= 192 THEN Pointer
            ELSE IF Reads(1 + b)
            THEN /\ read_ndx' = read_ndx + 1 + b
                 /\ at' = IF b = 0 THEN "rdata" ELSE "name"
                 /\ UNCHANGED << left, addrs, ret >>
            ELSE Fails
  /\ UNCHANGED << buf, qlen, host, sent >>

RecordDone(len) ==
  /\ read_ndx' = read_ndx + RDataLen + len
  /\ left' = left - 1
  /\ IF left = 1 THEN Returns(0) ELSE at' = "name" /\ ret' = ret

Taken == SubSeq(buf, read_ndx + RDataLen + 1, read_ndx + RDataLen + AddrLen)

\* The rest of a record: an address, kept if there is room, or something else
ParseRData ==
  /\ at = "rdata"
  /\ IF ~Reads(RDataLen) THEN Fails
     ELSE LET type     == Word(0)
              class    == Word(2)
              data_len == Word(8)
          IN IF ~Reads(RDataLen + data_len) THEN Fails
             ELSE IF type = 1 /\ class = 1
             THEN IF data_len # AddrLen THEN Fails
                  ELSE /\ addrs' = IF Len(addrs) >= MaxAddrs THEN addrs ELSE Append(addrs, Taken)
                       /\ RecordDone(AddrLen)
             ELSE RecordDone(data_len) /\ UNCHANGED addrs
  /\ UNCHANGED << buf, qlen, host, sent >>

\* The lookup has ended; the program may start another one.
LookupOver ==
  /\ at = "done"
  /\ at' = "idle"
  /\ buf' = << >> /\ read_ndx' = 0 /\ qlen' = 0 /\ left' = 0
  /\ addrs' = << >> /\ ret' = 0 /\ host' = << >> /\ sent' = Nobody

-----------------------------------------------------------------------------
Parse == ParseHeader \/ ParseQname \/ ParseRData

ParserNext ==
  \/ \E h \in Hosts : dns_util_build_A_query(h)
  \/ ServerAnswers \/ StrangerSends
  \/ Parse \/ LookupOver

ParserSpec == ParserInit /\ [][ParserNext]_parserVars

\* The parser is straight-line code.
FairParserSpec == ParserSpec /\ WF_parserVars(Parse)

-----------------------------------------------------------------------------
\* No length in a message, no cut and no count of answers takes the parser
\* past the end of the datagram, or more addresses than the caller has room
\* for.
ReadsInside == read_ndx <= Len(buf) /\ Len(addrs) <= MaxAddrs

IsAddress(r) == r.type = 1 /\ r.class = 1

\* The addresses among the first k records
AddressesOf(records) ==
  LET all[k \in 0..Len(records)] ==
        IF k = 0 THEN << >>
        ELSE IF IsAddress(records[k]) THEN Append(all[k - 1], records[k].data) ELSE all[k - 1]
  IN  all

\* What the caller has room for
Kept(all) == SubSeq(all, 1, IF Len(all) <= MaxAddrs THEN Len(all) ELSE MaxAddrs)

\* The first k records can be parsed.
WellFormed(records, k) ==
  \A i \in 1..k : IsAddress(records[i]) => Len(records[i].data) = AddrLen

\* The answer of a server that repeats the question gives the lookup exactly
\* its addresses in their order, whatever other records stand between them
\* and however names are written; one that was cut, is empty or malformed is
\* an error, and never a part of the addresses.
ResultIsTheAnswer ==
  at = "done" /\ sent.by = "server" =>
    LET n == Len(sent.records) IN
    IF sent.whole /\ n > 0 /\ WellFormed(sent.records, n)
    THEN ret = 0 /\ addrs = Kept(AddressesOf(sent.records)[n])
    ELSE ret = -1

\* What arrived of a server's answer
Arrived ==
  LET m == Message(sent.records) IN
    /\ sent.records \in Answers
    /\ Len(buf) <= Len(m) /\ buf = SubSeq(m, 1, Len(buf))
    /\ sent.whole <=> Len(buf) = Len(m)

\* The parser stands in the record that is next: where a label of its name
\* starts, or behind its name.  What the records before it said has been taken.
InRecord ==
  LET j == Len(sent.records) - left + 1
      name == sent.records[j].name
      start == Len(Written(sent.records)[j - 1])
  IN  /\ left \in 1..Len(sent.records)
      /\ WellFormed(sent.records, j - 1)
      /\ addrs = Kept(AddressesOf(sent.records)[j - 1])
      /\ at = "name" => \E starts \in SUBSET (1..Len(name)) :
                          LabelsStart(name, starts) /\ read_ndx - start + 1 \in starts
      /\ at = "rdata" => read_ndx = start + Len(name)

\* Between its steps the parser is inside the datagram and, in a server's
\* answer, at the place it takes itself to be at.
ParserIInv ==
  /\ ParserTypeOK
  /\ ReadsInside
  /\ at # "idle" => host \in Hosts /\ qlen = HeaderLen + Len(Question(host))
  /\ at \in { "idle", "waiting", "header" } => read_ndx = 0
  /\ at \in { "name", "rdata" } => left > 0
  /\ sent.by = "server" /\ at \in { "header", "name", "rdata", "done" } => Arrived
  /\ sent.by = "server" /\ at \in { "name", "rdata" } => InRecord
  /\ ResultIsTheAnswer

\* Every datagram is parsed to an end: no name sends the parser round in
\* circles.
ParseEnds == (at = "header") ~> (at = "done")
=============================================================================
