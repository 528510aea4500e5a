----------------------------- MODULE PairingUri -----------------------------
(***************************************************************************)
(* The pairing link of the desktop's QR code: PairingInfo::uri and         *)
(* PairingInfo::from_uri of ale-core/src/remote.rs.                        *)
(*                                                                         *)
(* A link is what the url crate makes of its text: scheme, host, path,     *)
(* fragment and the decoded key/value pairs of its query, in order.  A     *)
(* text that is no URL at all is a link with another scheme.  uri()        *)
(* percent-encodes each value and query_pairs() decodes it again, so that  *)
(* the pairs of Uri are the values themselves.  A value is valid (an IP    *)
(* address, a uuid, six digits, a name that is not blank nor longer than   *)
(* 128 bytes) or it is not: the sets below hold the valid ones.            *)
(***************************************************************************)
EXTENDS Naturals, SequencesExt

CONSTANTS
    Hosts, SessionIds, PairingCodes, Names,
    Infos, Links        \* bound: the infos and the links that QrScan!UriReads tries

MaxPort == 65535    \* u16
DesktopName == "Desktop"
Fields == {"host", "port", "sid", "code", "name"}

ASSUME NamesAssumption == DesktopName \in Names

PairingLink(query) ==
    [scheme |-> "ale-my-eyes", host |-> "pair", path |-> "", fragment |-> FALSE, query |-> query]

Uri(info) ==
    LET order == <<"host", "port", "sid", "code", "name">>
    IN PairingLink([n \in 1 .. Len(order) |-> <<order[n], info[order[n]]>>])

-----------------------------------------------------------------------------

IsPairingLink(link) ==
    /\ link.scheme = "ale-my-eyes"
    /\ link.host = "pair"
    /\ link.path = ""
    /\ ~link.fragment

\* One turn of the loop over query_pairs: what was given so far, and whether the
\* loop still runs.  The port is read as a u16 on the spot, the rest after the loop.
NothingRead == [ok |-> TRUE, given |-> {}]
Repeats(read, key) == \E pair \in read.given : pair[1] = key
ReadsPairAgain(read, pair) ==       \* as if a field given twice were not looked for
    IF read.ok /\ pair[1] \in Fields /\ (pair[1] = "port" => pair[2] \in 1 .. MaxPort)
    THEN [read EXCEPT !.given = {p \in @ : p[1] # pair[1]} \cup {pair}]
    ELSE [read EXCEPT !.ok = FALSE]
ReadsPair(read, pair) ==
    LET key == pair[1]
        accepted == /\ key \in Fields
                    /\ ~Repeats(read, key)
                    /\ key = "port" => pair[2] \in 1 .. MaxPort
    IN IF read.ok /\ accepted THEN [read EXCEPT !.given = @ \cup {pair}]
       ELSE [read EXCEPT !.ok = FALSE]

ReadPairs(query) ==
    LET read[n \in 0 .. Len(query)] ==
            IF n = 0 THEN NothingRead ELSE ReadsPair(read[n - 1], query[n])
    IN read[Len(query)]
\* What is known of the fields after the loop: a desktop without a name has the default one.
Named(read) ==
    read.given \cup (IF Repeats(read, "name") THEN {} ELSE {<<"name", DesktopName>>})

\* The info a link stands for: none, or the only one.
FromUri(link) ==
    LET read == ReadPairs(link.query)
        Given(key, valid) == {value \in valid : <<key, value>> \in Named(read)}
        port == {pair[2] : pair \in {p \in Named(read) : p[1] = "port"}}
    IN IF IsPairingLink(link) /\ read.ok
       THEN [host : Given("host", Hosts), port : port, sid : Given("sid", SessionIds),
             code : Given("code", PairingCodes), name : Given("name", Names)]
       ELSE {}

-----------------------------------------------------------------------------

\* The query q holds the pairs of the query r, each once, in any order.
Rearranges(q, r) == ToSet(q) = ToSet(r) /\ Len(q) = Len(r)
StandsFor(link, info) ==
    LET whole == Uri(info).query
    IN /\ IsPairingLink(link)
       /\ \/ Rearranges(link.query, whole)
          \/ info.name = DesktopName /\ Rearranges(link.query, Front(whole))

\* What a link is to be read as, of the infos there are.
Meant(link) == {info \in Infos : StandsFor(link, info)}
=============================================================================
