----------------------------- MODULE MdnsCache -----------------------------
(***************************************************************************)
(* How receivers become known: mDNS packets, the cache that collects their *)
(* records (airdrop_mdns.c), the endpoints it publishes into the peer      *)
(* table, the questions it asks and the endpoint that is connected to      *)
(* (receive_mdns_packet, send_resolution_questions, probe_airdrop_tcp and  *)
(* mdns_task of awdl_netif.c).                                             *)
(*                                                                         *)
(* A receiver that is switched off and on may come back with another       *)
(* instance name, port, host name or address: its next life.  Packets hold *)
(* some of the records of one life, get lost, are repeated and come late.  *)
(* A packet that cannot be parsed is dropped as a whole and leaves no      *)
(* trace, so it is left out.  Every receiver is an AWDL peer already; its  *)
(* entry in the peer table is found by its address.                        *)
(***************************************************************************)
EXTENDS Naturals, FiniteSets, Sequences, SequencesExt

CONSTANTS
    Instances, Names, Addresses, Ports,
    Receivers,
    Splits,         \* the types of records that go into a packet together
    Lives,          \* receiver -> its lives in order
    MaxServices,    \* ESPDROP_MDNS_MAX_SERVICES
    MaxHosts,       \* ESPDROP_MDNS_MAX_HOSTS
    Rounds,         \* AWDL_MDNS_QUERY_ATTEMPTS
    Budget,         \* AWDL_MDNS_RESOLVE_BUDGET
    Reads,          \* packets read after each question
    None

Life == [instance : Instances, target : Names, ipv6 : Addresses, port : Ports]

ASSUME MdnsAssumption ==
    /\ IsFiniteSet(Receivers)
    /\ Lives \in [Receivers -> Seq(Life)] /\ \A r \in Receivers : Lives[r] # <<>>
    /\ 0 \notin Ports
    /\ Splits \subseteq SUBSET {"PTR", "SRV", "TXT", "AAAA"} \ {{}}
    /\ \A n \in {MaxServices, MaxHosts, Rounds, Budget, Reads} : n \in Nat \ {0}
    /\ None \notin Names \cup Addresses

\* Receivers are told apart by each of their names and by their addresses, as
\* mDNS and AWDL see to.
ASSUME ReceiversDiffer ==
    \A q, r \in Receivers : q # r =>
        \A k \in DOMAIN Lives[q], l \in DOMAIN Lives[r] :
            /\ Lives[q][k].instance # Lives[r][l].instance
            /\ Lives[q][k].target # Lives[r][l].target
            /\ Lives[q][k].ipv6 # Lives[r][l].ipv6

VARIABLES
    life,                   \* number of the life each receiver is in
    services, hosts,        \* mdns_cache, in array order
    peers,                  \* address -> endpoint in the peer table
    quiet,                  \* receivers only send what they are asked for
    round, step, slots,     \* where mdns_task is, reads left
    socket,                 \* packets waiting, of quiet receivers
    heard                   \* history: all records that came in

cacheVars == <<services, hosts, peers, heard>>
taskVars == <<quiet, round, step, slots, socket>>
vars == <<life, cacheVars, taskVars>>

Now(r) == Lives[r][life[r]]

Service == [instance : Instances, target : Names \cup {None}, port : Ports \cup {0},
            ipv6 : Addresses \cup {None},
            has_ptr : BOOLEAN, has_srv : BOOLEAN, has_txt : BOOLEAN]

TypeOK ==
    /\ life \in [Receivers -> Nat] /\ \A r \in Receivers : life[r] \in DOMAIN Lives[r]
    /\ services \in Seq(Service) /\ Len(services) <= MaxServices
    /\ hosts \in Seq(Names \X Addresses) /\ Len(hosts) <= MaxHosts
    /\ peers \in [Addresses -> (Instances \X Ports) \cup {None}]
    /\ quiet \in BOOLEAN /\ round \in 1 .. Rounds + 1
    /\ step \in {"browse", "browsed", "asked", "listen"} /\ slots \in 0 .. Reads

Init ==
    /\ life = [r \in Receivers |-> 1]
    /\ services = <<>> /\ hosts = <<>>
    /\ peers = [a \in Addresses |-> None]
    /\ quiet \in BOOLEAN
    \* The others may say anything at any time: their questions got lost.
    /\ round = IF quiet THEN 1 ELSE Rounds + 1
    /\ step = IF quiet THEN "browse" ELSE "listen"
    /\ slots = 0 /\ socket = <<>> /\ heard = {}

-----------------------------------------------------------------------------
(***************************************************************************)
(* Records and packets.                                                    *)
(***************************************************************************)

PTR(e) == <<"PTR", e.instance>>
SRV(e) == <<"SRV", e.instance, e.target, e.port>>
TXT(e) == <<"TXT", e.instance>>
AAAA(e) == <<"AAAA", e.target, e.ipv6>>
Records(e) == {PTR(e), SRV(e), TXT(e), AAAA(e)}

\* What a receiver sends in each of its lives: some of its records, the
\* address first or last.
Packets ==
    [r \in Receivers |-> [l \in DOMAIN Lives[r] |->
        LET e == Lives[r][l]
            some(S, x) == IF x[1] \in S THEN <<x>> ELSE <<>>
        IN  {some(S, PTR(e)) \o some(S, SRV(e)) \o some(S, TXT(e)) \o some(S, AAAA(e)) :
                S \in Splits}
            \cup {some(S, AAAA(e)) \o some(S, PTR(e)) \o some(S, TXT(e)) \o some(S, SRV(e)) :
                S \in Splits}]]

-----------------------------------------------------------------------------
(***************************************************************************)
(* The cache: services and hosts in the order in which they were first     *)
(* heard of.                                                               *)
(***************************************************************************)

NewService(instance) ==
    [instance |-> instance, target |-> None, port |-> 0, ipv6 |-> None,
     has_ptr |-> FALSE, has_srv |-> FALSE, has_txt |-> FALSE]

has_ipv6(s) == s.ipv6 # None

\* espdrop_airdrop_service_complete
service_complete(s) ==
    s.has_ptr /\ s.has_srv /\ s.has_txt /\ has_ipv6(s) /\ s.port # 0

Holds(list, instance) == \E i \in DOMAIN list : list[i].instance = instance

\* find_service with create: the service is entered if it is not there; a full
\* table keeps what it has.
find_service(list, instance) ==
    IF Holds(list, instance) \/ Len(list) >= MaxServices THEN list
    ELSE Append(list, NewService(instance))

\* Mutant: the names are not compared.
AddressIn_any(list, name) == IF list = <<>> THEN None ELSE Head(list)[2]

\* Where hosts have a name, and the first address they give for it.
PlacesOf(list, name) == {i \in DOMAIN list : list[i][1] = name}
AddressIn(list, name) ==
    IF PlacesOf(list, name) = {} THEN None ELSE list[Min(PlacesOf(list, name))][2]

\* What a record says of its service.
Noted(s, x) ==
    CASE x[1] = "PTR" -> [s EXCEPT !.has_ptr = TRUE]
      [] x[1] = "SRV" -> [s EXCEPT !.has_srv = TRUE, !.target = x[3], !.port = x[4]]
      [] x[1] = "TXT" -> [s EXCEPT !.has_txt = TRUE]

\* A record of a packet, which goes into the service it is about, or the hosts.
parse_record(result, x) ==
    IF x[1] = "AAAA"
    THEN [result EXCEPT !.hosts =
            IF Len(@) < MaxHosts THEN Append(@, <<x[2], x[3]>>) ELSE @]
    ELSE LET found == find_service(result.services, x[2])
         IN  [result EXCEPT !.services = [i \in DOMAIN found |->
                IF found[i].instance = x[2] THEN Noted(found[i], x) ELSE found[i]]]

\* espdrop_airdrop_mdns_parse: record after record, then the addresses of the
\* targets, from this packet alone.
Parse(packet) ==
    LET result[i \in 0 .. Len(packet)] ==
            IF i = 0 THEN [services |-> <<>>, hosts |-> <<>>]
            ELSE parse_record(result[i - 1], packet[i])
        read == result[Len(packet)]
    IN  [services |-> [i \in DOMAIN read.services |-> [read.services[i] EXCEPT
                !.ipv6 = AddressIn(read.hosts, read.services[i].target)]],
         hosts |-> read.hosts]

\* A host of a packet replaces the one of the same name or takes a free place.
merge_host(list, host) ==
    IF PlacesOf(list, host[1]) # {} THEN [list EXCEPT ![Min(PlacesOf(list, host[1]))] = host]
    ELSE IF Len(list) < MaxHosts THEN Append(list, host)
    ELSE list

merge_hosts(list, incoming) ==
    LET merged[i \in 0 .. Len(incoming)] ==
            IF i = 0 THEN list ELSE merge_host(merged[i - 1], incoming[i])
    IN  merged[Len(incoming)]

\* What the packet says of a service replaces what the cache has.
Updated(t, s) ==
    [instance |-> t.instance,
     target |-> IF s.has_srv THEN s.target ELSE t.target,
     port |-> IF s.has_srv THEN s.port ELSE t.port,
     ipv6 |-> IF has_ipv6(s) THEN s.ipv6 ELSE t.ipv6,
     has_ptr |-> t.has_ptr \/ s.has_ptr, has_srv |-> t.has_srv \/ s.has_srv,
     has_txt |-> t.has_txt \/ s.has_txt]

merge_service(list, s) ==
    LET found == find_service(list, s.instance)
    IN  [i \in DOMAIN found |->
            IF found[i].instance = s.instance THEN Updated(found[i], s) ELSE found[i]]

merge_services(list, incoming) ==
    LET merged[i \in 0 .. Len(incoming)] ==
            IF i = 0 THEN list ELSE merge_service(merged[i - 1], incoming[i])
    IN  merged[Len(incoming)]

\* Mutant: only the services of the packet in hand are given addresses.
resolve_none(list, known) == list

\* A service without an address takes that of its target; one that has an
\* address keeps it.
resolve(list, known) ==
    [i \in DOMAIN list |->
        IF list[i].has_srv /\ ~has_ipv6(list[i])
        THEN [list[i] EXCEPT !.ipv6 = AddressIn(known, list[i].target)] ELSE list[i]]

-----------------------------------------------------------------------------
(***************************************************************************)
(* Packets come in.                                                        *)
(***************************************************************************)

Complete(list, a) == {i \in DOMAIN list : service_complete(list[i]) /\ list[i].ipv6 = a}

\* Mutant: of several services at an address the first is kept.
publish_first(table, list) ==
    [a \in Addresses |->
        IF Complete(list, a) = {} THEN table[a]
        ELSE <<list[Min(Complete(list, a))].instance, list[Min(Complete(list, a))].port>>]

\* publish_complete_service of one after the other, each into the entry of the
\* peer with its address: the last one stays.
publish(table, list) ==
    [a \in Addresses |->
        IF Complete(list, a) = {} THEN table[a]
        ELSE <<list[Max(Complete(list, a))].instance, list[Max(Complete(list, a))].port>>]

\* receive_mdns_packet: espdrop_airdrop_mdns_merge into the cache, then all
\* complete services are published again, whoever the packet was from.
receive_mdns_packet(packet) ==
    LET parsed == Parse(packet)
        known == merge_hosts(hosts, parsed.hosts)
        merged == resolve(merge_services(services, parsed.services), known)
    IN  /\ services' = merged /\ hosts' = known
        /\ peers' = publish(peers, merged)
        /\ heard' = heard \cup ToSet(packet)

\* A packet comes in while the task listens.
Receive(packet) ==
    /\ ~quiet /\ step = "listen"
    /\ receive_mdns_packet(packet)
    /\ UNCHANGED <<life, taskVars>>

\* Or none does.
HearNothing == step = "listen" /\ UNCHANGED vars

\* A receiver is switched off and on.
Restart(r) ==
    /\ ~quiet /\ life[r] < Len(Lives[r])
    /\ life' = [life EXCEPT ![r] = @ + 1]
    /\ UNCHANGED <<cacheVars, taskVars>>

\* apply_mif_to_peer: a MIF that carries the whole service is an endpoint too.
apply_mif_to_peer(r) ==
    /\ ~quiet
    /\ peers' = [peers EXCEPT ![Now(r).ipv6] = <<Now(r).instance, Now(r).port>>]
    /\ UNCHANGED <<life, services, hosts, heard, taskVars>>

-----------------------------------------------------------------------------
(***************************************************************************)
(* Questions.                                                              *)
(***************************************************************************)

Missing(s) ==
    (IF s.has_srv THEN <<>> ELSE <<<<"SRV", s.instance>>>>)
    \o (IF s.has_txt THEN <<>> ELSE <<<<"TXT", s.instance>>>>)
    \o (IF s.has_srv /\ ~has_ipv6(s) THEN <<<<"AAAA", s.target>>>> ELSE <<>>)

\* Mutant: what is known is asked for again.
send_resolution_again ==
    SubSeq(FlattenSeq([i \in DOMAIN services |->
                <<<<"SRV", services[i].instance>>>> \o Missing(services[i])]), 1, Budget)

\* The first questions that the cache has.
send_resolution_questions ==
    LET all == FlattenSeq([i \in DOMAIN services |-> Missing(services[i])])
    IN  SubSeq(all, 1, IF Len(all) < Budget THEN Len(all) ELSE Budget)

\* What a receiver has to say to a question: a packet with the record asked for.
AnswerOf(r, question) ==
    LET known == {x \in Records(Now(r)) : SubSeq(x, 1, 2) = question}
    IN  IF known = {} THEN <<>> ELSE <<<<CHOOSE x \in known : TRUE>>>>

\* The packets that the receivers answer with, in this order.
AnswersTo(order, questions) ==
    FlattenSeq([i \in DOMAIN questions |->
        FlattenSeq([j \in DOMAIN order |-> AnswerOf(order[j], questions[i])])])

\* mdns_task asks for all instances.
Browse(order) ==
    /\ step = "browse"
    /\ step' = "browsed" /\ slots' = Reads
    /\ socket' = socket \o [i \in DOMAIN order |-> <<PTR(Now(order[i]))>>]
    /\ UNCHANGED <<life, cacheVars, quiet, round>>

\* Then for what is missing.
Resolve(order) ==
    /\ step = "browsed" /\ slots = 0
    /\ step' = "asked" /\ slots' = Reads
    /\ socket' = socket \o AnswersTo(order, send_resolution_questions)
    /\ UNCHANGED <<life, cacheVars, quiet, round>>

\* After each question packets are read; the last reads wait in vain.
Read ==
    /\ slots > 0
    /\ IF socket = <<>> THEN slots' = 0 /\ UNCHANGED <<cacheVars, socket>>
       ELSE /\ receive_mdns_packet(Head(socket))
            /\ socket' = Tail(socket) /\ slots' = slots - 1
    /\ UNCHANGED <<life, quiet, round, step>>

\* The round ends (probe_airdrop_tcp finds no file); after the last one the
\* task only listens.
EndRound ==
    /\ step = "asked" /\ slots = 0
    /\ round' = round + 1
    /\ step' = IF round = Rounds THEN "listen" ELSE "browse"
    /\ UNCHANGED <<life, cacheVars, quiet, slots, socket>>

-----------------------------------------------------------------------------
(***************************************************************************)
(* The connection.  When it is opened (the request, its two once-flags, the*)
(* age of the entry) is RelaySession's.                                    *)
(***************************************************************************)

\* Where probe_airdrop_tcp would connect for the target with this address: the
\* first cached service at the address that the entry in the peer table names,
\* and otherwise the entry itself.
probe_airdrop_tcp(a) ==
    LET matched == {i \in Complete(services, a) : services[i].instance = peers[a][1]}
    IN  IF matched = {} THEN peers[a]
        ELSE <<services[Min(matched)].instance, services[Min(matched)].port>>

\* It was sent in this or in an earlier life of a receiver.
ReceiveFrom(r) ==
    \E l \in 1 .. life[r] : \E packet \in Packets[r][l] : Receive(packet)

Next ==
    \/ \E r \in Receivers : ReceiveFrom(r) \/ Restart(r) \/ apply_mif_to_peer(r)
    \/ \E order \in SetToSeqs(Receivers) : Browse(order) \/ Resolve(order)
    \/ Read \/ EndRound \/ HearNothing

Spec == Init /\ [][Next]_vars

-----------------------------------------------------------------------------
(***************************************************************************)
(* Properties.                                                             *)
(***************************************************************************)

\* This receiver has had this service at one time and this address at the same
\* or another.
HasBeenAt(r, instance, port, ipv6) ==
    \E k, l \in 1 .. life[r] :
        /\ Lives[r][k].instance = instance /\ Lives[r][k].port = port
        /\ Lives[r][l].ipv6 = ipv6

\* However records are spread over packets, whatever is repeated or late and
\* even when the tables are full: a service, a port and an address that are
\* published or connected to are those of one receiver, never one receiver's
\* service at another's address.
EndpointOfOneReceiver ==
    /\ \A s \in ToSet(services) : service_complete(s) =>
        \E r \in Receivers : HasBeenAt(r, s.instance, s.port, s.ipv6)
    /\ \A a \in Addresses : peers[a] # None =>
        LET e == probe_airdrop_tcp(a)
        IN  \E r \in Receivers :
                HasBeenAt(r, peers[a][1], peers[a][2], a) /\ HasBeenAt(r, e[1], e[2], a)

\* Once PTR, SRV and TXT of an instance and the address of its host have come
\* in, in whatever packets and order, the service is complete and can be
\* connected to, unless one of the two tables was full of others.
CompleteOnceHeard ==
    \A i \in Instances :
        (\A type \in {"PTR", "SRV", "TXT"} : \E x \in heard : x[1] = type /\ x[2] = i) =>
            \/ Len(services) = MaxServices /\ ~Holds(services, i)
            \/ \E s \in ToSet(services) : s.instance = i /\
                \/ service_complete(s)
                \/ \A x \in heard : x[1] = "AAAA" => x[2] # s.target
                \/ Len(hosts) = MaxHosts /\ AddressIn(hosts, s.target) = None

\* The cache has the service and the address of the life a receiver is in, and
\* has not first heard of an earlier one after it.
Known(r) ==
    \E i \in Complete(services, Now(r).ipv6) :
        /\ services[i].instance = Now(r).instance
        /\ \A k \in 1 .. life[r] - 1 :
            /\ Lives[r][k].instance # Now(r).instance
            /\ \A j \in DOMAIN services :
                services[j].instance = Lives[r][k].instance => j < i

\* A receiver that came back with another instance and port is connected to as
\* it is now, once it is known: its earlier service stays in the cache and is
\* published with every packet, and late packets still speak of it, but the
\* connection is not opened to what it was.
ConnectsToCurrent ==
    \A r \in Receivers : Known(r) /\ peers[Now(r).ipv6] # None =>
        probe_airdrop_tcp(Now(r).ipv6) = <<Now(r).instance, Now(r).port>>

\* Two receivers that send nothing but the one record they are asked for are
\* both resolved when the last round ends: questions are few, and none is
\* wasted on what is known.
ResolvedByAsking ==
    quiet /\ step = "listen" /\ 3 * Cardinality(Receivers) <= Rounds * Budget =>
        \A r \in Receivers : \E s \in ToSet(services) :
            s.instance = Now(r).instance /\ service_complete(s)
=============================================================================
