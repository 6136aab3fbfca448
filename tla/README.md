# Verification of fehQlibs

TLA+ specifications of fehQlibs, the C libraries behind ucspi-tcp6, djbdnscurve6
and s/qmail: a DNS stub resolver (`dnsstub/`), buffered I/O, the constant
database, dynamic strings, deadlines, the environment, and the small modules
around them. The models are translated from the C code; TLC checks them on small
instances, and TLAPS proves the main results for every value of the constants.

`PROJECT.json` lists the components with their status, the runs, the lines every
definition models, the mutants that show that no property is empty, the hazards
of the code with the properties that watch them, and the theorems.

## 1. The system

The library has no threads and no main loop of its own. What makes it hard is
the world it talks to: name servers that answer late, wrongly or not at all,
system calls that do part of the work or fail, allocations that fail, clocks
that move between two looks at them, other processes that take what a poll has
announced, and callers that may call again in any state. Much of the state is
static: the resolver's transaction, its caches, the global `ipv4socket`,
`environ`, `optind`, the space of `alloc`.

| Component | Source | State it keeps | What makes it correct | Modules |
|---|---|---|---|---|
| DNS query engine | `dnsstub/dns_transmit.c` | `struct dns_transmit`: query, packet, socket, `tcpstate`, `udploop`, `curserver`, `pos`, deadline, scope | accepts only an answer to the current question, leaks nothing on any path, makes finitely many attempts in one order | `DnsTransmit`, `DnsLookup` |
| DNS resolve loop | `dns_resolve.c` | the static `dns_resolve_tx` | drives a pending query only, returns its answer, terminates | `DnsResolve` |
| DNS configuration | `dns_rcip.c`, `dns_rcrw.c`, `dns_ipq.c` | cached servers, scopes and rules with a number of uses and an expiry time | what is handed out is fresh, of one source and of one load; names are qualified by it | `ConfCache`, `DnsConf`, `DnsQualify` |
| DNS front ends | `dns_ip.c`, `dns_name.c`, `dns_mx.c`, `dns_txt.c`, `dns_cname.c` | `q` of each file, the transaction left by the last call | read all records and no others, give back what they use; short of memory, addresses and texts fail as a whole | `DnsFront` |
| DNS names | `dns_packet.c`, `dns_domain.c`, `dns_dfd.c`, `dns_dtda.c`, `dns_nd.c` | none | stop on pointers that go round, stay in the packet, come back from text | `DnsNames` |
| Server order | `dns_sortip.c`, `dns_random.c` | key, counter, words left | lose no server; no word twice | `DnsSort` |
| Write and read buffers, lines | `buffer.c`, `getln.c` | `struct buffer`: bytes `x`, held `p`, room `n` | a queue of bytes: nothing lost, repeated or reordered | `BufferOut`, `ByteQueue`, `BufferIn`, `Getln`, `BufferPair` |
| Constant database | `cdbmake.c`, `cdbread.c` | hash pairs in lists, file position; state of a search | a search finds the records added, in order; a file cut short by a crash shows nothing wrong | `CdbMake`, `CdbRead` |
| Dynamic strings, memory | `stralloc.c`, `alloc.c` | a string with its size; a static space given away from its end | no write behind what is allocated, whatever wraps but the length 2^32 - 1; blocks apart | `Stralloc`, `Alloc` |
| Files, descriptors | `readclose.c`, `fd.c` | a string that grows; the table of the process | the whole file or an error; a copy or nothing | `ReadClose`, `Descriptors` |
| Waiting, time | `iopause.c`, `timeout.c`, `timeoutconn.c`, `tai.c`, `taia.c` | deadlines | no false timeout, no spinning, no wait behind the deadline that the kernel does not ask for | `Deadlines`, `Taia` |
| Environment, programs, options | `env.c`, `pathexec.c`, `getoptb.c` | `environ` with its copy; queued assignments; `optind`, `optpos` | change as asked or not at all; a word taken once | `Env`, `Getopt` |
| Sockets | `socket_*.c` | `ipv4socket` | the right host in the right form, as long as no lookup changes `ipv4socket` | `Sockets` |
| Addresses, numbers, bytes | `ip4.c`, `ip6.c`, `fmt.c`, `scan.c`, `uint*p.c`, `base64.c`, `byte.c`, `str.c`, `case.c` | none | what is written is read again | `IpText`, `Numbers`, `Packed`, `Strings` |

Interactions: `dns_resolve` gets servers from `dns_resolvconfip`, then loops over
`dns_transmit_io`, `iopause` and `dns_transmit_get`; the front ends call it, parse
`dns_resolve_tx.packet` and free it; `dns_ip4_qualify` tries them for each name
the rules give. `getln`, `cdbmake` and `logmsg` run on buffers; `buffer_0`
flushes `buffer_1` before it reads. `openreadclose` grows a `stralloc` before
each read. `timeoutread` and its like wait with `iopause`; `pathexec` works on
`env.c`'s array. `thisudp` and `thistcp` set `ipv4socket`, which `socket_bind`
and `socket_connect` of every other part of the program look at.

## 2. Plan

All of the plan made in the beginning is carried out:

| Step | Modules | Abstract specification | Theorems |
|---|---|---|---|
| 1 | `DnsTransmit`, `DnsLookup`, `DnsResolve` | `DnsLookup` | invariants and refinement of the engine; the loop around it |
| 2 | `BufferOut`, `BufferIn`, `Getln`, `BufferPair` | `ByteQueue` | all safety properties and the refinement |
| 3 | `CdbMake`, `CdbRead` | | positions of the writer; searches find the records added, and nothing else |
| 4 | `ConfCache`, `DnsConf`, `DnsQualify` | | the cache of servers and what a load finds; how names are qualified |
| 5 | `DnsNames`, `DnsFront`, `DnsSort` | reference definitions in the MC modules | how names in packets are read; what the calls leave allocated, and addresses given as text; the order of servers |
| 6 | `IpText`, `Numbers`, `Packed`, `Taia`, `Strings` | reference definitions in `MCValues` | sums, differences, order and packed bytes of times |
| 7 | `Deadlines`, `Stralloc`, `ReadClose`, `Alloc`, `Env`, `Getopt`, `Descriptors`, `Sockets` | | deadlines, strings, contents of files, blocks of memory, addresses of sockets, descriptors, environment, programs, options |

What has no proof is what most functions on texts compute (names, addresses,
numbers) and liveness; section 6 says why.

Each model is written to be proved about: constants with named assumptions, one
action per operation, recursive functions instead of RECURSIVE operators, and
invariants as conjunctions of named parts. A module `X_proofs` has the theorems
about the modules of its part of the table: `Dns`, `Buffers`, `Cdb`, `Conf` and
`Qualify`, `Front`, `System`. `Loops` has the lemmas on loops and sequences they
share. An `MC` module is the instance for TLC.

## 3. Modules and code

### DnsTransmit (`dnsstub/dns_transmit.c`)

The variables of the group `struct` are the fields of `struct dns_transmit` that
the code branches on. `due` says that the clock has passed `d->deadline`; a caller
may look with an older stamp, so `GetEarly` is allowed even when `due` holds.
`open`, `blocks` and `sent` are the process's descriptors, its live heap blocks
and what the server has received on this connection; `asked` is the query last
sent; `question`, `turn` and `result` are what the caller knows.

| Action | Code |
|---|---|
| `Start` | `dns_transmit_start`, `dns_transmit_start6` (238-269), frees and the first attempt included |
| `Free` | `dns_transmit_free` |
| `GetEarly`, `GetTimeout` | `dns_transmit_get` without revents |
| `GetUdp` (`UdpRecvFails` ... `UdpAnswer`) | `dns_transmit_get`, the UDP part, with `irrelevant`, `serverwantstcp`, `serverfailed` |
| `GetTcp` (`TcpFails`, `TcpConnected`, `TcpWrite`, `TcpLength1`, `TcpLength2`, `TcpReadSome`, `TcpReadLast`) | `dns_transmit_get`, tcpstate 1 to 5 |
| `Tick` | the clock |

`thisudp` and `thistcp` loop over servers until one attempt is under way. The model
makes such a loop one step: `ThisUdp` picks the attempt the loop stops at, and
everything the attempts before it left behind (`scope_id`) is computed from the
attempts visited. A message is a record of the fields `irrelevant` and its like
compare; it may carry any id, name, type, TC bit and rcode, and may be malformed,
so late, duplicated, reordered and wrong answers are all among the choices. The
kernel hands out the lowest free descriptor, so a leaked one is never reused
unnoticed.

Some definitions come with a *faulty variant* beside them, such as
`SocketForget`: the same code with one plausible mistake. No specification uses
them. Each is there to show that a property is not empty: put in the place of the
original it makes TLC report the property as violated (`mutants` in
`PROJECT.json`).

### DnsLookup

What one struct promises: a question is asked in attempts that only move forward
(UDP before TCP, then rounds, then servers) and ends in a complete, successful
answer to that question, or in failure. `DnsTransmit` maps its counters to the
attempt and its return codes to the phase (`phaseBar`, `attemptBar`,
`answerBar`). `turn` separates a new question from one more attempt at the old
one; without it a step back could pass for a new lookup.

### DnsResolve (`dnsstub/dns_resolve.c`)

`DnsResolve` puts the loop around the engine: `Stamp` (`taia_now`), `Pause`
(`iopause`), `GetStep` (`dns_transmit_get` and its switch), with the stamp taken
before the wait and used after it. `MCDnsRetries` adds a record of the timeouts
waited out.

### BufferOut, ByteQueue (`buffer.c`)

`Put`, `PutAlign`, `PutFlush` and `Flush` run up to the first write; then every
call of `op` is a step (`WriteSome`, `WriteNothing`, `WriteFails`) and `Continue`
says where the function goes on once `allwrite` returns 0. The i-th byte handed
over is the number i. `ByteQueue` is a queue of bytes between caller and file, which
forgets bytes in one way only: a write fails, and the call it fails in returns -1.

### BufferIn, Getln (`buffer.c`, `getln.c`)

`Feed`, `Get`, `BGet` and `PeekSeek` are whole calls, each with at most one read,
whose outcome is any part of what was asked for, the end, or an error. The space
`rx` is modelled, so the move of a short read to the end of the space is too.
`Getln` composes the loop of `sgetln` and the end of `getln` from these calls.

### BufferPair (`buffer.c`)

`buffer_copy` from the standard input to the standard output, with
`buffer_0_read`: the flush of `buffer_1` runs through `BufferOut` write by write
before `BufferIn` reads.

### CdbMake, CdbRead (`cdbmake.c`, `cdbread.c`)

The file is a function from offsets to items: the lengths of a record, its key,
its data, a hash slot, half an entry of the header. The write buffer is the queue
that `ByteQueue` makes of it: items leave it one by one at any time, so the file
can be cut short between any two (`Fail`: an error or the end of the process).
`Add` and `Finish` are `cdb_make_add` and the whole table construction of
`cdb_make_finish`; positions are computed modulo `Mod`, the offset of the
descriptor is not. `CdbRead` searches the file slot by slot (`FindStart`,
`FindTable`, `FindOn`, `Probe`) with reads that may fail, once its writer is done
or gone. The writer starts on an empty file, as its users do (they make a
temporary file and rename it); `cdb_make_start` itself does not truncate.

### DnsConf, DnsQualify, ConfCache (`dns_rcip.c`, `dns_rcrw.c`, `dns_ipq.c`)

`ConfCache` is what the two caches have in common: `ok`, `uses`, `deadline` (`Usable`,
`Hit`, `Miss`). `DnsConf` reads a text of tokens (addresses, names of interfaces,
blanks, ends of lines) the way `init` does, line by line and word by word (`LoadStep`);
the terminators the parser of addresses writes into its text are written there: the
environment is found changed by the next load, a name behind the cut is lost and one in
front of it gets the scope of another, and the line behind an IPv6 address of
`/etc/resolv.conf` is lost. `PlainEnv` and `PlainFile` are the texts in which none of
this can happen. `DnsQualify` builds the rules from the rule file, `LOCALDOMAIN`,
`/etc/resolv.conf` and the host name (`RulesOf`), applies them (`Applied`), and runs the
loop over alternatives behind a plus sign in the buffer it builds them in (`Call`,
`Lookup`, `Alternative`). The servers, the files and the clock change between calls
(`Change`, `RulesBetween`).

### DnsNames, DnsFront, DnsSort

`DnsNames` has the functions on names over bytes: `GetName` (with `GetByte`, a turn of
its loops), `SkipName`, `PacketCopy`, `FromDot`, `ToDot`, `DomainSuffix`, `Name4Domain`,
`Name6Domain`; limits are constants, so that names of a few bytes reach them.
`NamesSpec` receives a message byte by byte, and names are read from every place in it;
the reference is `Expansion`, which goes from label to label. `DnsFront` has the readers
of packets (`Answers`, with the record types as cases) and the calls (`MakesName`,
`Asking`, `Answered`, ...), with what each leaves allocated: `q` of its file, the packet
and query of `dns_resolve_tx`. `DnsSort` has the shuffles with their draws, and
`dns_random` as the counter and the words left; the words themselves are any numbers.

### IpText, Numbers, Packed, Taia, Strings

Pure algorithms as operators. Widths are constants (`ULong`, `UInt`, `Byte`,
`Base`), and sums and products wrap as in C. What `ip6_fmt` reads behind its
array is the parameter `beyond`. `Taia` and `Strings` work on a memory, so that
outputs may overlap inputs, in the order the code writes them. `Taia` takes one time
(`held`) and holds it against all others.

### Deadlines (`timeout.c`, `timeoutconn.c`, `iopause.c`)

The clock, the peer and other processes are actions of their own (`Tick`,
`PeerActs`, `Another`) between any two steps of a call: `Stamp`, the wait with its
rounding to milliseconds and its cap, the poll that fails, the look at the
result, the read or write, the end of a connect. A connect that fails makes its
socket writable as well. On a descriptor that blocks a connect waits in the kernel
(`connecting`, `ConnectEnds`), a write of more than there is room for fills the room and
waits for more (`FillsRoom`), and so does a read of what is gone; a signal may end such a
wait (`Interrupted`). `timeoutconn` itself hands back a descriptor that blocks.

### Stralloc, ReadClose, Alloc

`Stralloc` has every call with sizes modulo `SizeT` and lengths modulo `UInt`, and
an allocation that may fail at any call; `end` is how far a call has written. A caller's
text may have any length a `size_t` counts; `stralloc_cat` and `stralloc_copy` cut it to
an `unsigned int`, whose n + 1 may be 0. Once a call has written behind the memory of its
string nothing more is looked at (`InRoom`).
`ReadClose` puts the loop of `readclose_append` on it: `Open`, `AppendFile`,
`Grow`, `Read`. `Alloc` gives blocks from the end of a static space, then from
`malloc`; `alloc_free` tells them apart by their place.

### Env, Getopt, Descriptors, Sockets

`Env` has `env_get`, `put`, `put2`, `unset`, `clear` and `init` over a sequence of
strings, with the room of the array and the number of allocated strings. Its second part
is `pathexec.c`: assignments are queued (`Queue`), applied in one pass (`Assigned`), and
PATH is searched with the errors `execve` may give (`Search`). `Getopt` is `subgetopt`,
a character at a time, with `optind` and `optpos` kept between calls. `Descriptors` is
`fd_copy` and `fd_move` over a table. `Sockets` keeps what an address means (its first
12 bytes and its last 4) while the calls choose a family by the address or by
`ipv4socket`; `Lookup` is a resolver call that changes `ipv4socket` in between. A
program that does not want the interface passes a null pointer to `SocketRecv`,
`SocketAccept` and `SocketLocal`; `SocketRemote` writes it in any case.

## 4. What is checked

| Run | Bounds | Shows |
|---|---|---|
| `dns_transmit` | two servers with an empty slot between them, two questions of which one goes straight to TCP, two ids, two rcodes, `ByteBase` 2 | the invariants of the engine, and that it implements `DnsLookup` |
| `dns_resolve` | two servers, one id | the loop waits only on a pending query, returns its result, and ends |
| `storage`, buffers | read space 3, write space 2, direct-write size 3, input of 8 with three separators, calls of up to 4 and 6 bytes | a write buffer implements `ByteQueue`, so bytes are lost only in a call that reports a failed write; the input arrives whole, in order and in lines; a copy is in order; what the calls return is true |
| `storage`, databases | four keys in two tables, two with one hash and one that collides with them after the wrap-around, up to three records, 132 positions | searches return what was added, in order; crashes show all or nothing |
| `dns_config` | room for three servers, two calls or one second a load, six environments, five files; rules with every operator, two alternatives | what is handed out is fresh, of one source, and complete with its scopes when the text is one the parser does not spoil; turns advance; names are qualified by the rules of one load |
| `dns_messages` | packets of up to 6 of five bytes, texts of 5 of seven characters, names of 6 bytes; packets of up to three records; calls of all front ends | names are read as their pointers spell them; answers are read whole, but for names cut short when memory is; calls leave nothing behind |
| `values` | words of 16 bits, numbers of 12 bits, texts of 5 characters, lists of 4, strings in 5 bytes of memory | what is written is read again, in every form, with brackets and prefixes, and in every overlap |
| `system` | see below | deadlines, times, strings, files, environments, programs, options, descriptors, memory, addresses |

In `dns_config`, `dns_messages`, `values` and `system` the variable `part`, and in
`storage` `unit` and `part`, are chosen at the start and never change: components that
share no state in the code each run by themselves, in one run. (In `dns_config` the two
caches share the variables of `ConfCache`, of which each behaviour uses one.) A property
of several named parts is stated as their conjunction (`TimelyAndTrue` is
`TimeoutIsLate`, `FewPolls` and `ConnectedMeansEstablished`); each part has its own
comment where it is defined.

Five runs show the code doing something else than the repository says (see
`findings`):

* `dns_transmit_pos` (`PosIsSent`): when a TCP connect succeeds at once, `thistcp`
  enters tcpstate 2 without setting `pos` to 0. The comment on tcpstate 2 says that
  `pos` bytes have been sent; the run has a second connection written to from the
  `pos` of the first. `PosBound` cuts off the writes from behind the query, which
  `querylen - pos` as an unsigned number makes possible.
* `dns_transmit_scope` (`ScopeOfServer`): `scope_id` is looked up only while it is
  0 and never reset, so with two LLU servers the second is asked with the scope of
  the first.
* `dns_retries` (`AllIntervals`): the README of `dnsstub` says {1, 2, 4, 8, 16}
  seconds; recursive queries, the only ones `dns_resolve` makes, begin with 2.
* `dns_config_file` (`FileServersUsed`): the parser of an IPv6 address without an
  interface writes its terminator over the blank of the next `nameserver` line, so
  that of two IPv6 servers in `/etc/resolv.conf` the second is skipped.
* `dns_config_env` (`EnvServersUsed`): the example of `man/dnsstub.3:37-43`,
  `DNSCACHEIP="10.0.1.53 fe80::1%lo0 ::1"`. Asked for the first word, `ip6_ifscan`
  finds the `%` of the second, cuts the text there and behind `lo0`, and returns `lo0`:
  `10.0.1.53` gets the scope of `lo0`, which is that of `fe80::1`, and `::1` is lost.

### Bounds

* Ids, rcodes and types: an answer matches the query or not, is accepted or not;
  one value each way suffices. Two ids let a late answer differ from the query.
* `ByteBase` 2 makes a packet length of two "bytes" range from 0 to 3, with
  `MinReply` among them; the proofs hold for every base.
* Servers: the loops skip empty slots and stop at the last; three slots with the
  middle one empty have all these cases. The proofs hold for every `QUERY_MAXNS`.
* Buffers: the cases differ by how an argument compares with the free room, the
  space and the direct-write size; sizes of 2 and 3 bytes have all of them, and
  calls are longer than the space.
* Databases: with three records a table has 6 slots, so that an entry goes around the
  end and meets one that sits there by its own hash; `HPList` 2 makes a second
  list; `Mod` 132 makes positions overflow in a record (two or more long ones),
  only in the tables, or not at all by a few bytes.
* `dns_config`: a cache of one second and two uses runs out in both ways within
  `MaxNow` 3; there are lists longer than the room of `MaxNs` 3, texts with an interface
  for every address of IPv6, for one of them and for none, and blanks at every place.
* `dns_messages`: six bytes hold two pointers that point at each other, or a
  label and a pointer behind it; `LoopMax` 9 and `NameMax` 6 are both reached.
  Texts of five characters hold an escape of three digits and a dot.
* `values`: groups of an address are 0 or all ones in every order, with and
  without `::` and a dotted end; the counter of the stream has words of three
  values and goes all the way round; 4096 numbers with a word of 12 bits (int: 8)
  overflow in every way the readers can.
* `system`: words of a time are 16 with a base of 4 and bytes of 2, so that every
  pair of times is tried, with every carry, borrow and wrap; waits are capped at two
  milliseconds, of timeouts of up to two seconds, so that a wait has several
  polls; one poll may fail. Sizes of strings wrap at 8 and lengths at 6, texts of up to
  7 bytes include the one whose n + 1 is 0 (5) and one that is cut (7), and the growth of
  an eighth and one wraps before and after the sum does. Files have up to
  three bytes, reads two. Environments hold names twice and strings without a
  value; room grows by one, so that it grows at every other string. Command lines
  have up to three words of three characters. Memory of 6 with blocks of 2 is full
  after three.

### Fairness

`Terminates` (`dns_resolve`) assumes weak fairness of `Stamp`, `Pause` and
`GetStep` (the process runs; `iopause` returns at the latest when its time is over,
which is what `Pause` needs `due` for) and of `Clock` (time passes). It also
assumes finitely many datagrams that change nothing (`NoiseBound`): the code looks
at the deadline only when the socket is not ready, so a sender of endless useless
datagrams could hold one attempt for ever.

`CallReturns` (`system`) assumes weak fairness of `Step`, the program's own steps,
and of `Tick`; nothing of the peer, of other processes or of the descriptor, and not
that a signal comes (`Interrupted`). A call on a descriptor that does not block returns.
One on a descriptor that blocks returns, or is in the kernel (`InKernel`) with a
descriptor that is not usable, where nothing looks at the deadline: a connect that has
no answer, a write of more bytes than there is room for, which needs no second process
and which `timeoutconn` prepares by its `ndelay_off`, or a read of what another process
has taken since the poll. Nothing limits how often a poll that fails at once is repeated
before the deadline; `FewPolls` counts the quiet ones.

`TurnsAdvance` and `ResultsTellTruth` are action properties and need no fairness.

`CHECK_DEADLOCK FALSE` stands where a program ends: the reader of lines at the
end of its input, the copier when `MaxGiven` is used up, the maker of a database
that nobody searches, the texts, lists and command lines that have been worked off.

## 5. What is proved

`Dns_proofs` proves for all constants that meet `ConstantsAssumption` (a
list of servers and scopes of any length, any sets of names, types, ids, rcodes
and descriptors, any base of the length prefix):

    Inv == TypeOK, NothingLeaks, ResultShape, QueryAsksQuestion,
           AnswerIsForQuestion and ReadsStayInPacket
    THEOREM Invariance == Spec => []Inv

The parts hold each other up. That nothing leaks needs `ResultShape`, which says
what the struct holds in each phase, or a path that overwrites a pointer could not
be told from one that fills an empty one; that an accepted answer is for the
question needs `QueryAsksQuestion`, since `irrelevant` compares with `d->query`
and `d->qtype` and not with what the caller asked; that `packetlen` stays a
two-byte number in tcpstate 4, as `TypeOK` says, needs `ReadsStayInPacket`. The argument
goes by function rather than by action: `ThisUdpOutcome` and `ThisTcpOutcome`
say once what the two loops over servers leave behind, `OutcomeInv` that this
re-establishes `Inv`, and the lemmas on actions cite them. `ScopeAfterType` and
`FirstAttempt` rest on `Least`, that a non-empty set of numbers has a least
element.

It also proves `Refinement` (`Spec => LookupSpec`): the initial
states map to initial states (`InitRefines`), and under `Inv` every step maps to a
step or a stutter (`StepRefines`). The measure is in `NextAttemptRefines`: every way
to give up an attempt yields a later one in the order of `DnsLookup`, or failure.

Its last part carries this to the loop of `dns_resolve`. Every step of the
loop is one of the engine or leaves the engine alone (`LoopDrivesEngine`), so
`EngineDriven` has `LookupSpec` for the loop as well. `ResolveAnswers` is
`CallGetsItsAnswer`: the loop waits on a pending query only, and a call returns the
answer to its own question. `LoopInv` adds to `Inv` what `rc` still says of the
packet after the caller has freed it or a wait has failed, and that a packet only
partly read carries no message.

`Buffers_proofs` proves all safety properties of the buffers in the run `storage` for
any sizes of the buffers, any lengths of calls and partial results, and any separators.
One idea carries it: the bytes in a buffer are consecutive numbers. `OutInv` says that
what a write buffer has not written are the last bytes given; `InInv` (`Holds`) that a
read buffer holds the last bytes taken; `LineInv` that the lines so far, put together,
are the bytes got, and that the line in the making has no separator; `CopyInv` that what
the copier has sent, is sending and has in its buffer follow on each other. From these
come `BuffersBounded`, `InputKept`, `LinesRight`, `CopyRight`, `ResultsTrue`, and
`QueueRefined`, that a write buffer implements `ByteQueue`: bytes are dropped with a
failed write, and the call says so.

`System_proofs` proves `CallsAreTimely` (`TimelyAndTrue`): no timeout is early or
without a last look, a call makes a bounded number of quiet polls, and a descriptor
handed back as connected was connected. The times of the code are unsigned and in
parts; the lemmas on quotients and remainders show that adding, subtracting and
comparing them is the same for ticks as long as no time reaches the width of a
word (`DeadlinesAssumption`, which also says that a millisecond is a number of
ticks). `TimeInv` then counts: a deadline and a stamp are ticks `D` and `n`, and the
polls made so far fit into the time that has passed (`Waited`).

`Conf_proofs` proves three properties of the cached name servers, for any texts of
`DNSCACHEIP` and `/etc/resolv.conf`, any room and any time to live.
`ServersAsConfigured` (`ServersInOrder`): what a load finds are servers that one source
names, in its order, and, when the text is plain, all of them with their scopes, up to
the room there is. The parser writes terminators into the text it reads, so the
invariant compares the text with the one the load began with (`Cleaned`): a terminator
can hide a server and never makes one. `FoundInv` says that the servers found are those
of places already passed. For completeness `CompleteInv` adds that in a plain text
terminators are written only where the load has been, and that the servers found are all
those of the places passed (`PlainEnvInv`, `PlainFileInv`), one more with each word or
line (`OneMoreAll`, `LineFinds`), so that at the end there are all (`AllFoundInv`).
`ServersAreFresh` (`FreshValues`): nothing older than its time to live, no load for more
calls than allowed, which needs `FreshInv`: the uses left and those served add up, and
the deadline is that of the load. `TurnsGoOn` (`TurnsAdvance`): every turn of the loops
leaves less to see, but for the words the code tries again. `ConfAssumption` keeps
terminators, blanks and newlines apart from addresses.

`Cdb_proofs` proves `PositionsAreOffsets` (`PosIsOffset`): as long as nothing has
failed, the position of the writer in 32 bits is the offset its next byte gets, for
any records, hashes, lists, tables and width. `PosInv` adds that the queue holds
items and the lists entries. A sum that fits has not wrapped (`FitsMeans`), neither
in a record (`RecordIs`) nor slot by slot in the tables (`SlotsFit`); that the tables
come out as slots of eight bytes is `SlotsAreItems`, which goes through the loops of
`cdb_make_finish`.

`Cdb_proofs` also proves what the writer and the reader make of each other, for any
keys and hashes (one key at most is empty, and `None` is no key):

* `NthRecordIsFound` (`NthRecord`): in a database finished without an error the n-th
  answer of a search is the n-th record added under its key, and a search that ends
  has given all of them.
* `SearchesStaySound` (`SearchesAreSound`): whatever fails or is left unfinished, a
  search gives records of its own key only, each once, and an unfinished database
  gives nothing or what a finished one would.

The invariant is `CdbInv == PosInv /\ MakeInv /\ ReadInv`. `MakeInv` says for every
stage of the writer what lies where: a file cut short has either nothing of the
header, or everything the header can point at. `ReadInv` says that the answers are
the records of the key whose slots the search has passed. Between the two are the
tables (`TableHolds`): every record has one entry, the slots that a search passes in
front of it are taken (`Sits`), so that no free slot ends a search before it, and
entries of one hash come in the order their records were added (`InOrder`), as the
writer fills the tables oldest first. Answers that are increasing, and are the places of
the records of a key, are the list the property speaks of (`UnderIs`).

`Qualify_proofs` proves `NamesAreQualified` (`QualifiedAsConfigured`) for any sources,
names, lifetimes and outcomes of the lookups: a name is looked up by the rules of one
source that was read completely, and its alternatives are tried in the order of
the configuration. The loop of `dns_ip4_qualify` builds each alternative in the
buffer that still holds those to come, so `WalkInv` says which part of the buffer is
as it was (in front of the plus sign and behind the place of the next alternative)
and that the pieces tried and those behind make the whole (`NextPiece`).
`RulesInv` says that rules in the cache are those of their source.

`Front_proofs` proves `CallsKeepNothing` (`CallsLeaveNothing`) for any packets, texts,
room for answers and failures: every block in use can be reached, an answer leaves
none behind, and a text that is an address is its own answer. `FrontInv` adds to
these what a call that waits has asked. Two facts about functions are needed: the
readers of packets give a number as their result whatever is in the packet
(`PacketIsRead`), and the scan of `dns_ip4` finds the four bytes `ip4_scan` finds in
every text that `ip4_scan` reads to its end. `FrontAssumption` gives texts, packets
and words their widths.

It proves `NamesInPackets` (`NamesAreRead`) for any message and any sizes of a byte, a
name and the loop: `dns_packet_getname` finds a name exactly if following the pointers
from label to label (`Expansion`) comes to an end, the name fits and the turns
suffice; then it is that name, and `dns_packet_skipname` stops at the same place.
`Reached` relates the two walks: after some labels and pointers the loop has taken
one turn for each of their bytes and pointers (`Cost`) and has read what is
written so far (`OnWith`), or it has run out of room or turns and fails (`Fails`). Its
steps are a label (`LabelStep`; the bytes one by one in `LabelGoesOn`, a label
without room in `LabelFails`), a pointer, the end and a place that is no name.
`Behind` says where the first pointer leaves the reader.

It also proves `ServersAreShuffledFairly` (`SortIsFair`) for lists of up to 16
servers, as the code's arrays have, and words of any width. A turn of the loops exchanges
two places, so an order stays one (`ExchangeOrders`), and since a place the loop has
left behind never changes again (`Settled`), the order tells the draws
(`DrawsTold`): there are as many orders as sequences of draws, all equally likely if
the words are. `SortInv` counts the words drawn by the counter of `dns_random`, whose
digits carry like those of a number (`IncrementCounts`).

`System_proofs` proves about the small parts:

* No call on a dynamic string and no read of a file writes behind what is allocated
  (`RoomForWrites`), for all widths of the words, all sizes and all lengths of texts but
  the one whose n + 1 an `unsigned int` counts as 0 (2^32 - 1, and what is cut to it): there
  the code asks for no room and writes, and the property says so. The invariant
  `RoomInv` adds that the string is one of `Strallocs`: its length is within its
  size, and an unallocated one is empty. `ReadyFine` and `ReadyPlusFine` say what
  making room leaves, whether the sum, the growth or neither wraps; each call has a
  lemma (`CopyBFine`, `CatBFine`, ...) that cites them.
* A call on a string gives what was asked or leaves it alone (`AskedDone`), an
  action property that follows from the same lemmas.
* What a successful read of a file leaves is the file (`FileRead`): `FileInv` says of
  every stage what part of the file the string has and that the descriptor is open
  exactly in between.
* Blocks in use lie apart in aligned room (`AllocKeepsApart`), for every alignment,
  space and width: `AllocInv` says that the space left is a multiple of the alignment
  and lies below every block, which rests on `RoundedUp` and `Multiples`, arithmetic
  on remainders. It speaks of programs until a length whose rounding wraps; the code
  marks this with `XXX: could overflow`, and `wrapped` ends the promise.
* `AddressesFit` for any addresses and scopes (`AddressesAreRight`). `SocketInv` ties
  `ipv4socket`, the family of the socket and the form of the address together as long
  as no lookup came between (`stale`) and IPv6 was there (`fellback`); after a lookup the
  only thing that can go wrong is that `bind` or `connect` takes an IPv6 address for the
  IPv4 address in its last 4 bytes.
* `CopyOrKeep` for any table of descriptors (`DescriptorsMove`).

* A change of the environment is made as asked or not at all (`EnvironmentKept`), for
  any environment, also one with several strings of a name. `EnvInv` counts the room
  of the array and the strings `env.c` owns; the loop of `env_unset` is followed string
  by string from the last one.
* A program gets the environment its caller has put together, and a search along
  PATH that finds none reports an error it met (`ProgramsAreRun`). `ProgramInv` says
  what has been tried and what is remembered of it (`Searching`); `LastSays` that the
  last assignment of a name counts.
* The options and arguments handed out are all characters of the words taken, each
  once and in order (`OptionsRead`). `OptionInv` says that the results so far, put
  together, are the words before `optind` and the characters before `optpos`.

* Sums, differences, order and packed bytes of times are those of the numbers they
  stand for (`TimesAreInOrder`), wherever the result is stored (`CellsDoNotMatter`).
  Every part of a result, with the carry or borrow out of it, is what the parts and the
  carry into it make (`SumCarries`, `DifferenceBorrows`), and such parts make the number
  up to a multiple of the whole range (`ValueIs`). Numbers are in the order of their
  digits (`DigitOrder`), be these the parts of a time or bytes (`BytesInOrder`).
  `TaiaAssumption` says that two billions fit into a word, a word into eight bytes and
  a billion into four.

`Loops` has what these proofs share: sets of numbers have least members, recursive
functions over an interval exist and keep a type, sums and concatenations of
sequences can be taken apart at either end.

Constants are assumed distinct where the code has distinct values: `Null` is none
of the addresses, queries or packets, `Malformed` is no reply. Lengths of texts are those
a `size_t` counts.

## 6. What is only model-checked, and what is left out

Only model-checked:

* Liveness (`Terminates`, `CallReturns`), which the provers cannot reach.
* What functions on texts and records compute for every input, which is an induction over
  data with a reference definition on the other side: names and answers
  (`NamesComeBack`, `AnswersAreRead`), numbers, addresses and strings
  (`ValuesComeBack`, `AddressesComeBack`). The library's rules of induction take an operator
  as a parameter, which the provers cannot instantiate. Where a proof above needs to
  know of a recursion only that it keeps a type, or one fact at every step, it is done
  with least counterexamples (`LeastNat`): the lines of `getln`, the slots of
  `cdbmake`, the strings of the environment, the readers of packets, the turns of a
  shuffle and of `dns_packet_getname`.

Abstractions:

* Allocation in the resolver is a block that exists or not; sizes matter only for
  `packet`. In `DnsFront` memory is short when `out` outgrows its room; an
  allocation that fails inside `dns_packet_getname` looks like a bad name, as in
  the code; what `q` holds after a packet that could not be read is any of the
  possibilities.
* Interrupted reads and writes that the code repeats at once appear as stuttering. A
  signal that ends a wait in the kernel (`Interrupted`) ends its call.
* The clock never goes back and `gettimeofday` does not fail; timeouts are not
  negative; polls end within modelled time.
* Texts are followed by a terminator; a name behind `%` that is no interface has
  index 0. Base64 texts to decode are whole fours with at most two pads.
* `stralloc_cat` of a string to itself is left out. Sequences of options are
  those of `getoptb.c`; the text of its complaint is not modelled.
* A crash in the middle of a four-byte number of a cdb header, and files that
  `cdbmake.c` did not make, are left out. The words `dns_random` makes of key and
  counter are any words. Ports of sockets are two packed bytes (`Packed`).
* `str_append` (`str.c:133`), which copies as many bytes as a pointer has, is left out.

Not modelled: `wait.c` and `sig.c` (single system calls repeated on EINTR),
`logmsg.c`, `errstr.c` and `prot.c` (output, a table of texts, two system calls),
the wrappers of one system call each (options of sockets, open, seek, lock,
`fd_coe`), the double of `taia_approx`, the build with `select`, and build scripts.

Differences between text and code that were met while modelling and have no run,
because the model follows the code and a reader of the page decides which is meant:

| Code | Says otherwise |
|---|---|
| with alternatives `dns_ip4_qualify` and `dns_ip6_qualify` return 0 whether an answer was found or not (`dns_ipq.c:67-69`) | `dnsstub/README:76-82`, which counts the answers |
| `dns_domain_todot_cat` returns a negative `DNS_MEM`, tested for 0 (`dns_cname.c:37`, `dns_name.c:37`, `dns_mx.c:41`): short of memory these calls may give a name without its end as success | the callers' tests; `man/dns.3:236-240` |
| the front ends return the number of records read, of any type (`dns_ip.c:80-83`, `dns_mx.c:45`, `dns_txt.c:52`, `dns_cname.c:40`) | `man/dns.3:61`, `96`, `109`, `137` (0) and `222-229` (the number of answers) |
| `dns_txt` puts a newline behind every record but the last, also behind those that are no TXT (`dns_txt.c:53`) | `man/dns.3:178-180`: the concatenation of the TXT records |
| `dns_resolvconfip` uses 16 servers at most (`dns_rcip.c:38`) | `man/dnsstub.3:29-31,40`: up to 32 |
| a blocking write waits for room past the deadline (`timeout.c:60`), a blocking connect for its answer (`timeoutconn.c:22,52,82`) | `man/timeout.3:22-32`, `man/timeoutconn.3:18-20` |
| `scan_ulong` does not stop at an overflow; `scan_xlong` works on an int | `man/scan.3:33-37`, `47-50` |
| `ip6_scan` counts one less for a final `::` (`ip6.c:216`), so that `ip6_scanbracket` (`ip6.c:257`) does not read `[fe80::]` | `man/ip6.3:48-53`, `91-94` |
| `ip6_fmt` shortens the first run of zeros, not the longest, and writes a single last group of zeros as `::` when what lies behind its array is 0 (`ip6.c:49`) | `include/ip.h:65-68` |
| the bit strings of prefixes have a bit more in a last, partial byte (`ip4.c:156`) | `man/ip4.3:59-65` |
| `timeoutread` returns the count, or -1 | `man/timeout.3` |
| a failing `stralloc_catlong0` may leave its sign | `man/stralloc.3:147-150` |
| a text of 2^32 - 1 bytes finds no room made for it and is written all the same (`stralloc.c:29,72`); of longer ones `stralloc_cat` and `stralloc_copy` take what an `unsigned int` counts and return 1 (`stralloc.c:23,43`) | `man/stralloc.3:147-154` |
| `socket_remote` writes the scope without a look at its pointer (`socket_info.c:50,56`) | `man/socket_info.3:37`, whose example passes 0 |
| `subgetopt` ends at any word that begins with `--` and skips it whole, such as `--a` (`getoptb.c:68-71`); `OptionsAreWords` leaves these letters out | its use of `--` for the end of the options |
| `env_del` puts the last string in the place of the removed one, so that which of two strings of one name counts may change | `env.c:36-62` |
| `str_copyb` counts in rounds of four bytes (`str.c:30`) | `man/str.3` |
| `case_diffrs` is 0 when one string is the end of the other (`case.c:43-60`) | its name |
| `socket_bind` looks at `ipv4socket` alone: a mapped address is bound as IPv6 unless it is set (`socket_bind.c:69`) | `man/socket_bind.3` |
| `socket_recv` and `socket_send` return counts | their man pages |
| `logmsg` sets `errno` to 0 before it asks for its text (`logmsg.c:37,72,85`) | the use of `error_str` |
