------------------------------ MODULE DnsConf ------------------------------
(***************************************************************************)
(* dns_resolvconfip, dnsstub/dns_rcip.c: the name servers a program uses,  *)
(* from DNSCACHEIP or /etc/resolv.conf.  A text is a sequence of tokens:   *)
(* an address, an interface name, a keyword, or one of the characters that *)
(* the code looks for.  The parser writes terminators into the text it     *)
(* reads: into the environment itself, and over the lines that follow.     *)
(***************************************************************************)
EXTENDS ConfCache, Sequences, SequencesExt

CONSTANTS
  V4, V6,      \* addresses
  Any4, Local4, \* 0.0.0.0 and 127.0.0.1, members of V4
  Local6,      \* ::1, a member of V6
  Zero,        \* a slot of ip filled with zeros
  IfName,      \* names of interfaces
  NUL, SP, NL, PCT,  \* the characters \0, blank, newline, %
  NS,          \* the word nameserver at the start of a line
  MaxNs,       \* servers used (16)
  EnvTexts,    \* values of DNSCACHEIP, with what follows in memory
  FileTexts,   \* contents of resolv.conf
  Unset, Unreadable, \* no such variable or file; a file that cannot be read
  Short        \* memory may be short

Addr == V4 \cup V6

\* what a text is made of
Tokens == (UNION {Range(t) : t \in EnvTexts \cup FileTexts}) \cup {NUL, NL}

ASSUME ConfAssumption ==
  /\ MaxNs \in Nat \ {0} /\ {Any4, Local4} \subseteq V4 /\ Local6 \in V6 /\ V4 \cap V6 = {} /\ Short \in BOOLEAN
  /\ {NUL, SP, NL, PCT} \cap (Addr \cup IfName \cup {NS}) = {}
  /\ NUL \notin {SP, NL, PCT} /\ SP \notin {NL, PCT} /\ NL # PCT
  /\ EnvTexts \cup FileTexts \subseteq Seq(Tokens)
  /\ \A text \in FileTexts : \A p \in DOMAIN text : text[p] = NS /\ p > 1 => text[p - 1] = NL

VARIABLES
  pc,      \* where init is: "idle", "env", "file", "lines", "done"
  env,     \* the memory from the value of DNSCACHEIP on
  x,       \* init: x, from 1
  file,    \* resolv.conf
  data,    \* its copy, which the parser cuts up
  i,       \* init: i, the start of a line, from 1
  k,       \* init: k, and iplen / 16
  ip, sid, \* the static ip and scopes
  ret,     \* value returned: 0 or -1
  handed,  \* the servers a successful call copied out
  good,    \* those of the last load that was completed
  named,   \* the texts it was made from
  lacked   \* history: memory has been short in it

confvars == <<ccvars, pc, env, x, file, data, i, k, ip, sid, ret, handed, good, named, lacked>>

NoServers == [ip |-> [s \in 1 .. MaxNs |-> Zero], sid |-> [s \in 1 .. MaxNs |-> NUL]]

At(mem, p) == IF p \in DOMAIN mem THEN mem[p] ELSE NUL

\* str_chr: how far c, or else the terminator, is from p
StrChr(mem, p, c) ==
  CHOOSE d \in 0 .. Len(mem) + 1 :
    At(mem, p + d) \in {c, NUL} /\ \A e \in 0 .. d - 1 : At(mem, p + e) \notin {c, NUL}

Cut(mem, p) == IF p \in DOMAIN mem THEN [mem EXCEPT ![p] = NUL] ELSE mem

\* the index of the interface whose name is the string at p, or 0 (NUL)
IfIdx(mem, p) ==
  IF At(mem, p) \in IfName /\ At(mem, p + 1) = NUL THEN At(mem, p) ELSE NUL

\* ip6_ifscan: the text as it leaves it, the length of the address or 0, and the
\* scope found.  str_chr also stops at the terminator, so that a text without %
\* is cut, too, at the first blank of what lies behind it.  When ifname cannot
\* grow the result is 0, before or after each of the cuts.
IfScan(mem, p) ==
  LET j == StrChr(mem, p, PCT)
      a == p + j + 1
      blank == StrChr(mem, a, SP)
      e == IF blank # 0 THEN blank ELSE StrChr(mem, a, NL)
      cut == IF e # 0 THEN Cut(mem, a + e) ELSE mem
      end == IF j = 0 THEN mem ELSE Cut(cut, p + j)
      found == [mem |-> end,
                n |-> IF At(end, p) \in Addr THEN 1 ELSE 0,
                scope |-> IF j = 0 THEN NUL ELSE IfIdx(cut, a),
                short |-> FALSE]
      left == IF j = 0 THEN {mem} ELSE {mem, cut, end}
  IN  {found} \cup {[mem |-> m, n |-> 0, scope |-> NUL, short |-> TRUE] : m \in IF Short THEN left ELSE {}}

\* a server is stored
Put(a, scope) ==
  /\ ip' = [ip EXCEPT ![k + 1] = a] /\ sid' = [sid EXCEPT ![k + 1] = scope]
  /\ k' = k + 1

NoPut == UNCHANGED <<ip, sid, k>>

Fail == pc' = "idle" /\ ret' = -1 /\ UNCHANGED <<handed, good>>

\* byte_copy(s,ip), byte_copy(scope,scopes)
Serve(servers) == pc' = "idle" /\ ret' = 0 /\ handed' = servers

-----------------------------------------------------------------------------
\* a call, when the cache can be used
CallHit ==
  /\ pc = "idle" /\ Hit
  /\ Serve([ip |-> ip, sid |-> sid])
  /\ UNCHANGED <<now, env, x, file, data, i, k, ip, sid, good, named, lacked>>

\* a call that begins to load: sid is cleared, ip is not
CallMiss ==
  /\ pc = "idle" /\ Miss
  /\ sid' = NoServers.sid /\ k' = 0 /\ x' = 1
  /\ pc' = IF env = Unset THEN "file" ELSE "env"
  /\ named' = [env |-> env, file |-> file] /\ lacked' = FALSE
  /\ UNCHANGED <<now, env, file, data, i, ip, ret, handed, good>>

EnvBlank ==
  /\ pc = "env" /\ k < MaxNs /\ At(env, x) = SP
  /\ x' = x + 1
  /\ UNCHANGED <<ccvars, pc, env, file, data, i, k, ip, sid, ret, handed, good, named, lacked>>

\* faulty variant of EnvWord: the address is not stepped over
EnvWordStays ==
  /\ pc = "env" /\ k < MaxNs /\ At(env, x) \notin {SP, NUL}
  /\ \E r \in IfScan(env, x) :
       /\ env' = r.mem /\ lacked' = (lacked \/ r.short)
       /\ IF r.n # 0 THEN Put(env[x], r.scope) ELSE NoPut
  /\ UNCHANGED <<ccvars, pc, x, file, data, i, ret, handed, good, named>>

\* a word that is no address is tried again for ever
EnvWord ==
  /\ pc = "env" /\ k < MaxNs /\ At(env, x) \notin {SP, NUL}
  /\ \E r \in IfScan(env, x) :
       /\ env' = r.mem /\ lacked' = (lacked \/ r.short)
       /\ x' = x + r.n
       /\ IF r.n # 0 THEN Put(env[x], r.scope) ELSE NoPut
  /\ UNCHANGED <<ccvars, pc, file, data, i, ret, handed, good, named>>

EnvEnd ==
  /\ pc = "env" /\ (k = MaxNs \/ At(env, x) = NUL)
  /\ pc' = IF k = 0 THEN "file" ELSE "done"
  /\ UNCHANGED <<ccvars, env, x, file, data, i, k, ip, sid, ret, handed, good, named, lacked>>

\* openreadclose: a file that is missing is none; reading it may fail, and so may
\* the newline appended to it
File ==
  /\ pc = "file"
  /\ \/ Fail /\ UNCHANGED <<data, i>>
     \/ /\ file = Unset /\ pc' = "done"
        /\ UNCHANGED <<data, i, ret, handed, good>>
     \/ /\ file \notin {Unset, Unreadable} /\ pc' = "lines"
        /\ data' = Append(file, NL) /\ i' = 1
        /\ UNCHANGED <<ret, handed, good>>
  /\ UNCHANGED <<ccvars, env, x, file, k, ip, sid, named, lacked>>

\* the newlines the loop has still to see
Ends == {j \in DOMAIN data : j >= i /\ data[j] = NL}
LineEnd == CHOOSE j \in Ends : \A e \in Ends : j <= e

\* where the address of a nameserver line begins
ServerAt == CHOOSE p \in i + 1 .. LineEnd : data[p] # SP /\ \A q \in i + 1 .. p - 1 : data[q] = SP

IsServerLine == data[i] = NS /\ i < LineEnd /\ data[i + 1] = SP

\* faulty variant of TakeServer: the interface is forgotten
TakeServerAlone(text) ==
  IF At(text, ServerAt) \in V4
  THEN Put(IF At(text, ServerAt) = Any4 THEN Local4 ELSE At(text, ServerAt), NUL) /\ data' = text /\ UNCHANGED lacked
  ELSE \E r \in IfScan(text, ServerAt) :
         /\ data' = r.mem /\ lacked' = (lacked \/ r.short)
         /\ IF r.n # 0 THEN Put(At(text, ServerAt), NUL) ELSE NoPut

\* what a nameserver line does while there is room: text is data with the line terminated
TakeServer(text) ==
  IF At(text, ServerAt) \in V4
  THEN Put(IF At(text, ServerAt) = Any4 THEN Local4 ELSE At(text, ServerAt), NUL) /\ data' = text /\ UNCHANGED lacked
  ELSE \E r \in IfScan(text, ServerAt) :
         /\ data' = r.mem /\ lacked' = (lacked \/ r.short)
         /\ IF r.n # 0 THEN Put(At(text, ServerAt), r.scope) ELSE NoPut

Line ==
  /\ pc = "lines" /\ Ends # {}
  /\ IF IsServerLine /\ k < MaxNs THEN TakeServer(Cut(data, LineEnd)) ELSE NoPut /\ UNCHANGED <<data, lacked>>
  /\ i' = LineEnd + 1
  /\ UNCHANGED <<ccvars, pc, env, x, file, ret, handed, good, named>>

LinesEnd ==
  /\ pc = "lines" /\ Ends = {}
  /\ pc' = "done"
  /\ UNCHANGED <<ccvars, env, x, file, data, i, k, ip, sid, ret, handed, good, named, lacked>>

\* what init leaves in ip: ::1 when nothing was found, and zeros behind the last
Filled ==
  [s \in 1 .. MaxNs |-> IF s <= k THEN ip[s] ELSE IF k = 0 /\ s = 1 THEN Local6 ELSE Zero]

LoadEnds ==
  /\ pc = "done" /\ Loaded
  /\ ip' = Filled /\ good' = [ip |-> Filled, sid |-> sid]
  /\ Serve([ip |-> Filled, sid |-> sid])
  /\ UNCHANGED <<now, env, x, file, data, i, k, sid, named, lacked>>

\* between two calls time passes, and somebody changes the file
Between ==
  /\ pc = "idle"
  /\ \/ Pass /\ UNCHANGED file
     \/ file' \in FileTexts \cup {Unset, Unreadable} /\ UNCHANGED ccvars
  /\ UNCHANGED <<pc, env, x, data, i, k, ip, sid, ret, handed, good, named, lacked>>

ConfInit ==
  /\ CacheInit
  /\ pc = "idle" /\ x = 1 /\ data = <<>> /\ i = 1 /\ k = 0 /\ ret = 0
  /\ env \in EnvTexts \cup {Unset} /\ file \in FileTexts \cup {Unset, Unreadable}
  /\ ip = NoServers.ip /\ sid = NoServers.sid
  /\ handed = NoServers /\ good = NoServers
  /\ named = [env |-> Unset, file |-> Unset] /\ lacked = FALSE

LoadStep == EnvBlank \/ EnvWord \/ EnvEnd \/ File \/ Line \/ LinesEnd \/ LoadEnds

ConfNext == CallHit \/ CallMiss \/ LoadStep \/ Between

ConfSpec == ConfInit /\ [][ConfNext]_confvars
-----------------------------------------------------------------------------
(***************************************************************************)
(* Properties                                                              *)
(***************************************************************************)
Servers == [1 .. MaxNs -> Addr \cup {Zero}]
Scopes == [1 .. MaxNs -> IfName \cup {NUL}]

ConfTypeOK ==
  /\ CacheTypeOK
  /\ pc \in {"idle", "env", "file", "lines", "done"}
  /\ k \in 0 .. MaxNs /\ ret \in {0, -1}
  /\ ip \in Servers /\ sid \in Scopes
  /\ {handed, good} \subseteq [ip : Servers, sid : Scopes]

\* While ok is set the static arrays hold what the last load that came to its
\* end found, although a load that fails has already cleared the scopes or
\* stored some servers (dns_rcip.c:34, 42, 99-107).
CacheIsLastLoad == ok => [ip |-> ip, sid |-> sid] = good

\* the places of a value of DNSCACHEIP that name a server: its addresses, up to its end
EnvPlaces(text) == {p \in DOMAIN text : text[p] \in Addr /\ \A m \in 1 .. p - 1 : text[m] # NUL}

\* the words of a file behind the keyword and blanks, and those of them that are addresses
ServerWords(text) ==
  {p \in 3 .. Len(text) + 1 :
     /\ \E h \in 1 .. p - 2 : text[h] = NS /\ \A m \in h + 1 .. p - 1 : text[m] = SP
     /\ At(text, p) # SP}
FilePlaces(text) == {p \in ServerWords(text) : At(text, p) \in Addr}

\* what is meant by them: in the file 0.0.0.0 means 127.0.0.1, and a scope is the word
\* behind %
Meant(a) == IF a = Any4 THEN Local4 ELSE a
Meaning(text) == [p \in DOMAIN text |-> Meant(text[p])]
NoScope(text) == [p \in DOMAIN text |-> NUL]
ScopeOf(text) ==
  [p \in DOMAIN text |->
     IF /\ text[p] \in V6 /\ At(text, p + 1) = PCT
        /\ At(text, p + 2) \in IfName /\ At(text, p + 3) \in {SP, NL, NUL}
     THEN At(text, p + 2) ELSE NUL]

\* the first n servers are those named at some of the places, in the order of the text
InOrder(servers, n, places, address) ==
  \E f \in [1 .. n -> places] :
    /\ \A s \in 1 .. n : servers[s] = address[f[s]]
    /\ \A s, t \in 1 .. n : s < t => f[s] < f[t]

\* the first n servers, with their scopes, are those of all the places, in the order of the
\* text; only when there is no more room are places left over, and they are the last
AllInOrder(servers, scopes, n, places, address, scope) ==
  \E f \in [1 .. n -> places] :
    /\ \A s \in 1 .. n : servers[s] = address[f[s]] /\ scopes[s] = scope[f[s]]
    /\ \A s, t \in 1 .. n : s < t => f[s] < f[t]
    /\ \A p \in places : \/ \E s \in 1 .. n : f[s] = p
                         \/ n = MaxNs /\ \A s \in 1 .. n : f[s] < p

EnvServers(servers, n, text) == text # Unset /\ InOrder(servers, n, EnvPlaces(text), text)
FileServers(servers, n, text) ==
  text \notin {Unset, Unreadable} /\ InOrder(servers, n, FilePlaces(text), Meaning(text))

\* behind the n-th server there is nothing
EndsAt(servers, n) == \A s \in n + 1 .. MaxNs : servers.ip[s] = Zero /\ servers.sid[s] = NUL

\* A successful call hands out at least one server, and servers of one source
\* only, in its order, or ::1 (dns_rcip.c:25-85).
ServersOfOneSource ==
  pc = "idle" /\ ok =>
    \E n \in 1 .. MaxNs :
      /\ EndsAt(good, n)
      /\ \/ n = 1 /\ good.ip[1] = Local6 /\ good.sid[1] = NUL
         \/ EnvServers(good.ip, n, named.env)
         \/ FileServers(good.ip, n, named.file)

EnvNames(text) == text # Unset /\ EnvPlaces(text) # {}
FileNames(text) == text \notin {Unset, Unreadable} /\ FilePlaces(text) # {}

\* a value that names servers and no interface, and no interface in memory behind it
PlainEnv(text) == EnvNames(text) /\ \A p \in DOMAIN text : text[p] \notin IfName \cup {PCT}

\* a file that gives an interface for every address of IPv6, so that the terminators of the
\* parser stay within the line
PlainWord(text, p) ==
  \/ At(text, p) \in V4 \cup {NL, NUL}
  \/ At(text, p) \in V6 /\ At(text, p + 1) = PCT
PlainFile(text) == FileNames(text) /\ \A p \in ServerWords(text) : PlainWord(text, p)

\* memory does not matter when no line asks for ip6_ifscan
OnlyV4(text) == \A p \in ServerWords(text) : At(text, p) \in V4 \cup {NL, NUL}

EnvAll(servers, n, text) ==
  AllInOrder(servers.ip, servers.sid, n, EnvPlaces(text), text, NoScope(text))
FileAll(servers, n, text) ==
  AllInOrder(servers.ip, servers.sid, n, FilePlaces(text), Meaning(text), ScopeOf(text))

\* No server that is named is lost and none has another's scope, up to the number there is
\* room for, when the text of DNSCACHEIP names no interface; and, when it names no server,
\* when the file gives an interface for every address of IPv6 and memory suffices, or has
\* addresses of IPv4 only.  Other texts may lose both: there the terminators of ip6_ifscan
\* fall on what is still to be read (dns_rcip.c:38-47, 55-76, ip6.c:270-288).
ServersComplete ==
  pc = "idle" /\ ok =>
    /\ PlainEnv(named.env) => \E n \in 1 .. MaxNs : EndsAt(good, n) /\ EnvAll(good, n, named.env)
    /\ ~EnvNames(named.env) /\ PlainFile(named.file) /\ (lacked => OnlyV4(named.file)) =>
         \E n \in 1 .. MaxNs : EndsAt(good, n) /\ FileAll(good, n, named.file)

\* The servers handed out are those of one source, in its order, all of them and with
\* their scopes as far as the text is one the parser does not spoil while it reads, and what
\* the cache keeps is what its last load found, whatever a later one leaves half done
\* (dns_rcip.c:25-114, ip6.c:270-288).
ServersInOrder == ConfTypeOK /\ CacheIsLastLoad /\ ServersOfOneSource /\ ServersComplete

\* what a load under way has still to see
FileLeft == IF file \in {Unset, Unreadable} THEN 0 ELSE Len(file) + 1
Left ==
  CASE pc = "env"   -> Len(env) - x + FileLeft + 6
    [] pc = "file"  -> FileLeft + 4
    [] pc = "lines" -> Len(data) - i + 3
    [] OTHER        -> 1

\* Every turn of the loops of a load leaves it less to see, but for a word of
\* DNSCACHEIP that gives no address, or is met with memory short, and is tried
\* again: dns_resolvconfip comes back unless it has met such a word
\* (dns_rcip.c:38-47, 52-78).
TurnsAdvance ==
  [][pc # "idle" /\ pc' # "idle" => \/ Left' < Left
                                    \/ EnvWord /\ k' = k]_confvars

\* the servers named at places of a text, each with its scope
Named(text, places, address) ==
  LET order == SelectSeq([p \in DOMAIN text |-> p], LAMBDA p : p \in places)
  IN  [w \in DOMAIN order |-> <<address[order[w]], ScopeOf(text)[order[w]]>>]
Pad(names) == [s \in 1 .. MaxNs |-> IF s \in DOMAIN names THEN names[s] ELSE <<Zero, NUL>>]

\* dnsstub/README:21-23: without DNSCACHEIP "the stub-resolver will use the
\* system-wide - /etc/resolv.conf": the servers it names, each with its scope.
FileServersUsed ==
  pc = "idle" /\ ok /\ ~EnvNames(named.env) /\ FileNames(named.file) =>
    \A s \in 1 .. MaxNs :
      <<good.ip[s], good.sid[s]>> = Pad(Named(named.file, FilePlaces(named.file), Meaning(named.file)))[s]

\* man/dnsstub.3:37-43: the variable "may include up to 32 name server IP addresses
\* separated by white spaces", as in "10.0.1.53 fe80::1%lo0 ::1": each with its scope.
EnvServersUsed ==
  pc = "idle" /\ ok /\ EnvNames(named.env) =>
    \A s \in 1 .. MaxNs :
      <<good.ip[s], good.sid[s]>> = Pad(Named(named.env, EnvPlaces(named.env), named.env))[s]
=============================================================================
