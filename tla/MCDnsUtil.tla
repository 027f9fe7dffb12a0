----------------------------- MODULE MCDnsUtil -----------------------------
(* Short names, answers of a few records, and what strangers might send. *)
EXTENDS DnsUtil

a == 97

\* "a", "a.aa" and a name whose question does not fit any more
MCHosts == { << a >>, << a, Dot, a, a >>, [i \in 1..68 |-> IF i = 34 THEN Dot ELSE a] }

\* The ways in which a record's name is written: a pointer to the question,
\* in full, and a label before a pointer
MCNames == { << 192, 12 >>, Qname(<< a, Dot, a, a >>), << 1, a, 192, 12 >> }

A(name, n) == [ name |-> name, type |-> 1, class |-> 1, data |-> << 10, 0, 0, n >> ]
Cname(name) == [ name |-> name, type |-> 5, class |-> 1, data |-> << 1, a, 192, 12 >> ]
Malformed == [ name |-> << 192, 12 >>, type |-> 1, class |-> 1, data |-> << 10, 0, 0, 1, 1 >> ]
Chaos == [ name |-> << 192, 12 >>, type |-> 1, class |-> 3, data |-> << 10, 0, 0, 3 >> ]

MCRecords == { A(n, i) : n \in MCNames, i \in 1..2 } \cup { Cname(n) : n \in MCNames } \cup { Malformed, Chaos }

MCAnswers ==
  UNION { [1..n -> MCRecords] : n \in 0..2 }
    \cup { << Cname(<< 192, 12 >>), A(<< 192, 12 >>, 1), A(<< 192, 12 >>, 2), A(<< 192, 12 >>, 3) >> }

\* What strangers send: the question of either name, any number of answers, and
\* behind them anything of up to three bytes, pointers to the question and to themselves among it,
MCTails == UNION { [1..n -> { 0, 1, 192, 19, 22 }] : n \in 0..3 }

\* or a record whose length is a lie; and bytes that are no header at all.
MCLies ==
  { << 192, 12 >> \o Field(type) \o Field(1) \o << 0, 0, 0, 9 >> \o Field(len) \o [i \in 1..n |-> 7] :
      type \in { 1, 5 }, len \in { 0, AddrLen, 5, 65535 }, n \in { 0, AddrLen, 5 } }

MCStrays ==
  { Header(n) \o Question(h) \o s :
      n \in { 0, 1, 2, 65535 }, h \in { g \in MCHosts : Len(g) < 68 }, s \in MCTails \cup MCLies }
    \cup UNION { [1..n -> { 0, 255 }] : n \in 1..HeaderLen - 3 }
=============================================================================
