------------------------------- MODULE Startup -------------------------------
(***************************************************************************)
(* The main thread of a1/server.c up to its accept loop: the options, the  *)
(* list of ids, the table of clients made of it (ClientTable), the socket. *)
(* There is one thread; what makes it hard is the order of the options,    *)
(* the differences between their long and short forms, and the hash table. *)
(***************************************************************************)
EXTENDS ClientTable, Integers

CONSTANTS
  IdLists,     \* arguments of the ids options, as atoi() reads them
  Ports,       \* arguments of the port options, as atoi() reads them
  HashValues,  \* bound: values of the hash function
  MaxArgs      \* bound: options on the command line

ASSUME StartupAssumption ==
  /\ IdLists \subseteq Seq(Int) /\ \A l \in IdLists : Len(l) <= MaxClients
  /\ Ports \subseteq Int
  /\ HashValues \subseteq Nat
  /\ MaxArgs \in Nat

VARIABLES
  argv,      \* the options of the command line
  optind,    \* how many of them getopt_long() has returned
  ids,       \* client_ids, or NULL
  port,      \* port
  spilled,   \* an id was written behind the end of its buffer
  hash,      \* the hash function on the ids
  table,     \* clients
  added,     \* i of the loop that fills the table
  status     \* "options", "table", "socket", "bind", "listen", "accept" or "exit"

vars == <<argv, optind, ids, port, spilled, hash, table, added, status>>

UINT16_MAX == 65535
\* client_ids = NULL: no list that was accepted holds a 0.
Null == <<0>>

Option ==
  [name : {"client_ids", "c"}, arg : IdLists]
    \cup [name : {"port", "p"}, arg : Ports]
    \cup {[name |-> "?", arg |-> 0]}

Init ==
  /\ argv \in UNION {[1..n -> Option] : n \in 0..MaxArgs}
  /\ optind = 0
  /\ ids = Null /\ port = -1
  /\ spilled = FALSE
  /\ hash = <<>>
  /\ table = NoTable /\ added = 0
  /\ status = "options"

Exit == status' = "exit"

-----------------------------------------------------------------------------
(* The options. *)

Given == argv[optind + 1]
Reading == status = "options" /\ optind < Len(argv)

\* Mutant: what is not a number passes as the id 0.
LegalOrZero(i) == i >= 0 /\ i <= UINT16_MAX

\* atoi() gives 0 for what is not a number.
Legal(i) == i > 0 /\ i <= UINT16_MAX

\* Mutant: calloc() is told bytes as well, and makes room for five of them.
CapacityBytes(i) == 5

\* The bytes l_ids has when the id at index i is written: calloc() made room
\* for five ids, realloc() is told a number of ids where bytes are meant.
Capacity(i) == IF i < 5 THEN 10 ELSE 5 * (i \div 5) + 5

\* parse_client_ids()
ParseFails(l) == \E k \in 1..Len(l) : ~Legal(l[k])
\* An id at index i takes the bytes 2 * i and 2 * i + 1.
Spills(l) == \E i \in 0..(Len(l) - 1) : 2 * i + 2 > Capacity(i)

\* Mutant: the ids of a repeated option are added to those there are.
TakeIdsAgain ==
  /\ ids' = IF ids = Null THEN Given.arg ELSE ids \o Given.arg
  /\ spilled' = (spilled \/ Spills(Given.arg))

TakeIds ==
  /\ ids' = Given.arg
  /\ spilled' = (spilled \/ Spills(Given.arg))

\* Two ids at least: only -c insists, --client_ids complains and goes on.
ReadIds ==
  /\ Reading /\ Given.name \in {"client_ids", "c"}
  /\ optind' = optind + 1
  /\ IF ParseFails(Given.arg)
     THEN Exit /\ UNCHANGED <<ids, spilled>>
     ELSE /\ TakeIds
          /\ IF Given.name = "c" /\ Len(Given.arg) < 2 THEN Exit ELSE UNCHANGED status
  /\ UNCHANGED <<argv, port, hash, table, added>>

\* Only --port rejects what is not positive.
PortRefused ==
  \/ Given.arg > UINT16_MAX
  \/ Given.name = "port" /\ Given.arg <= 0

ReadPort ==
  /\ Reading /\ Given.name \in {"port", "p"}
  /\ optind' = optind + 1
  /\ port' = Given.arg
  /\ IF PortRefused THEN Exit ELSE UNCHANGED status
  /\ UNCHANGED <<argv, ids, spilled, hash, table, added>>

ReadUnknown ==
  /\ Reading /\ Given.name = "?"
  /\ Exit
  /\ UNCHANGED <<argv, optind, ids, port, spilled, hash, table, added>>

\* HASH_JEN, as any function of an id.
HashFunctions(S) == [S -> HashValues]

\* Without options the usage is printed; without ids there is an error.  The
\* hash function, whatever it is, meets the ids.
OptionsEnd ==
  /\ status = "options" /\ optind = Len(argv)
  /\ IF ids = Null
     THEN Exit /\ UNCHANGED hash
     ELSE /\ status' = "table"
          /\ hash' \in HashFunctions(Range(ids))
  /\ UNCHANGED <<argv, optind, ids, port, spilled, table, added>>

-----------------------------------------------------------------------------
(* The table, the socket and the threads. *)

\* create_client() and client_hash_add_client() for the next id.
CreateClient ==
  /\ status = "table" /\ added < Len(ids)
  /\ added' = added + 1
  /\ table' = AddClient(table, added', ids[added'], hash[ids[added']])
  /\ UNCHANGED <<argv, optind, ids, port, spilled, hash, status>>

TableDone ==
  /\ status = "table" /\ added = Len(ids)
  /\ status' = "socket"
  /\ UNCHANGED <<argv, optind, ids, port, spilled, hash, table, added>>

Opening == <<"socket", "bind", "listen", "accept">>

\* socket(), bind() and listen(): a failure ends the program.
OpenStep ==
  /\ \E k \in 1..3 : status = Opening[k] /\ status' \in {Opening[k + 1], "exit"}
  /\ UNCHANGED <<argv, optind, ids, port, spilled, hash, table, added>>

\* accept() fails: the program ends, with all its threads.
AcceptFails ==
  /\ status = "accept"
  /\ Exit
  /\ UNCHANGED <<argv, optind, ids, port, spilled, hash, table, added>>

Next ==
  \/ ReadIds \/ ReadPort \/ ReadUnknown \/ OptionsEnd
  \/ CreateClient \/ TableDone \/ OpenStep \/ AcceptFails

Spec == Init /\ [][Next]_vars

-----------------------------------------------------------------------------
(* Properties. *)

IsTable(t) ==
  t \in [head : Pointer, tail : Pointer, items : Nat,
         next : [Clients -> Pointer], prev : [Clients -> Pointer],
         hhNext : [Clients -> Pointer], hhPrev : [Clients -> Pointer],
         id : [Clients -> Nat], hashv : [Clients -> Nat],
         buckets : [0..(t.num - 1) -> [head : Pointer, count : Nat, mult : Nat]],
         num : Nat, ineff : Nat, noexpand : BOOLEAN]

\* The variables hold what the declarations above say.
TypeOK ==
  /\ optind \in 0..Len(argv)
  /\ ids = Null \/ ids \in Seq(1..UINT16_MAX)
  /\ port \in Int
  /\ spilled \in BOOLEAN
  /\ table = NoTable \/ IsTable(table)
  /\ added \in 0..MaxClients
  /\ status \in Range(Opening) \cup {"options", "table", "exit"}

Listening == status \in {"listen", "accept"}

\* The first client that was created for an id.
FirstFor(id) == Min({k \in 1..added : ids[k] = id} \cup {MaxClients + 1})

\* Whatever the hash function does, and whenever the buckets were doubled: a
\* lookup finds the one client of every id added so far, and nothing for the
\* ids that were not.
LookupIsExact ==
  ids # Null /\ hash # <<>> =>
    \A id \in Range(ids) :
      Find(table, id, hash[id]) =
        IF id \in {ids[k] : k \in 1..added} THEN FirstFor(id) ELSE 0

\* The walk of the sender meets every client of the table once, in the order
\* of the command line, whatever happened to the buckets; the buckets hold the
\* same clients, and both lists are right in both directions.
WalkIsComplete ==
  table # NoTable =>
    LET w == Walk(table)
        chains == {Chain(table, b) : b \in 0..(table.num - 1)}
    IN /\ w = SelectSeq([k \in 1..added |-> k], LAMBDA k : FirstFor(ids[k]) = k)
       /\ table.items = Len(w) /\ table.tail = Last(w)
       /\ \A k \in 1..Len(w) : table.prev[w[k]] = IF k = 1 THEN 0 ELSE w[k - 1]
       /\ UNION {Range(s) : s \in chains} = Range(w)
       /\ \A s \in chains : \A k \in 1..Len(s) :
            table.hhPrev[s[k]] = IF k = 1 THEN 0 ELSE s[k - 1]
       /\ \A b \in 0..(table.num - 1) : table.buckets[b].count = Len(Chain(table, b))

IdOptions == {k \in 1..Len(argv) : argv[k].name \in {"client_ids", "c"}}

\* The server that listens serves the ids of the last ids option and no
\* others, all of them legal: no mixture of two lists, and no list that was
\* refused.
ServesLastList ==
  Listening =>
    /\ IdOptions # {}
    /\ {table.id[c] : c \in Range(Walk(table))} = Range(argv[Max(IdOptions)].arg)
    /\ \A k \in IdOptions : ~ParseFails(argv[k].arg)

\* Up to five ids stay within their buffer.
FiveIdsFit == spilled => \E k \in IdOptions : Len(argv[k].arg) > 5

=============================================================================
