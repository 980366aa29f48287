--------------------------- MODULE ImageFetchProofs ---------------------------
(***************************************************************************)
(* Proofs about ImageFetch, for every value of its constants: every        *)
(* request, on every hop and over every connection, is within the policy;  *)
(* an accepted image is whole; a refusal is true (internal/imagedownload,  *)
(* client.go and image.go).                                                *)
(***************************************************************************)
EXTENDS ImageFetch, SequenceTheorems, TLAPS

-----------------------------------------------------------------------------
(* Types.  No run needs them; the proofs do.                               *)

Labels == {"idle", "transport", "build", "send", "dial", "sent", "replied", "head",
           "svg", "tail", "close", "ended"}
Errors == {"none", "bad-url", "blocked", "timeout", "network", "redirect-limit",
           "http-status", "too-large", "encoding", "type", "truncated", "storage"}
Addresses == UNION {UNION {ToSet(ips) : ips \in Answers[name]} :
                      name \in DOMAIN Answers}
Conns == [host : {u.host : u \in Urls}, ip : Addresses,
          via : Workers \cup {NoTransport}]
Magics == {r.body.magic : r \in Resps} \cup {"none", "image/svg+xml"}

Fetches == [at : Labels, item : Urls \cup {NoUrl}, url : Urls \cup {NoUrl},
            hop : Nat, via : Workers \cup {NoTransport}, ips : Seq(Addresses),
            conn : Conns \cup {NoConn}, resp : Resps \cup {NoResponse},
            open : BOOLEAN, pos : Int, n : Int, det : Magics, err : Errors]

Types == /\ transport \in Workers \cup {NoTransport}
         /\ idle \subseteq Conns
         /\ fetch \in [Workers -> Fetches]

-----------------------------------------------------------------------------
(* The inductive invariant, as a predicate on one fetch.                   *)

\* The list was refused as a whole unless all its addresses are public.
Vetted(host, ips) ==
  \E list \in Answers[host.name] : /\ ToSet(ips) \subseteq ToSet(list)
                                   /\ ToSet(list) \subseteq Public

\* A connection was made for its host to an address of a vetted list.
Good(c) == c \in Conns /\ Vetted(c.host, <<c.ip>>)

Permitted(u) == u \in Urls /\ ValidateURL(u) = "none"

\* What the head left: a body that has one, not cut inside it.
HeadOf(b) == Min({SniffBytes, b.sends})
HeadRead(f) ==
  LET b == f.resp.body
  IN  /\ f.n = HeadOf(b) /\ HeadOf(b) > 0
      /\ ~(b.sends < SniffBytes /\ b.ends \in {"timeout", "reset"})

\* An SVG whose root element ends behind the head.
LongSvg(b) == b.magic = "image/svg+xml" /\ b.root > SniffBytes

\* What the root check may have read past the count.
RootRead(f) ==
  LET b == f.resp.body
  IN  /\ f.pos \in f.n..b.sends
      /\ f.pos = f.n \/ LongSvg(b)

\* What AcceptedWhole and RefusalsAreTrue say of one fetch.
Whole(f) ==
  LET b == f.resp.body
  IN  /\ b.ends = "eof" /\ f.pos = b.sends
      /\ f.pos <= MaxImageBytes \/ (LongSvg(b) /\ f.pos = MaxImageBytes + 1)
      /\ f.resp.length <= f.pos /\ f.det = b.magic
      /\ ~Conflicts(f.resp.type, b.magic)
Truthful(f) ==
  LET b == f.resp.body
  IN  /\ f.err = "too-large" => b.sends > MaxImageBytes
      /\ f.err \in {"network", "timeout"} => b.ends # "eof"
      /\ f.err = "truncated" => LongSvg(b)
      /\ f.err = "type" => \/ b.sends = 0
                           \/ b.magic = "none"
                           \/ Conflicts(f.resp.type, b.magic)
                           \/ /\ b.magic = "image/svg+xml"
                              /\ b.root > Min({b.sends, SVGPrologBytes + 1})
      /\ f.err = "none" => f.n = f.pos \/ LongSvg(b)

Requesting == {"transport", "build", "send", "dial", "sent", "replied"}
Connected == {"sent", "replied", "head", "svg", "tail", "close"}
Answered == Connected \ {"sent"}

FetchOK(f) ==
  /\ f.at \notin {"idle", "ended"} => Permitted(f.item)
  /\ f.at \in Requesting => Permitted(f.url) /\ f.hop <= MaxRedirects
  /\ f.at = "dial" => f.ips # <<>> /\ Vetted(f.url.host, f.ips)
  /\ f.at \in Connected => Good(f.conn)
  /\ f.at \in Answered => f.resp \in Resps
  /\ f.at = "svg" => /\ HeadRead(f) /\ f.pos = f.n
                     /\ f.resp.body.magic \in {"none", "image/svg+xml"}
  /\ f.at = "tail" => /\ HeadRead(f) /\ RootRead(f)
                      /\ f.det = f.resp.body.magic
  /\ f.at = "close" => Truthful(f) /\ (f.err = "none" => Whole(f))

IInv == /\ Types
        /\ \A c \in idle : Good(c)
        /\ \A w \in Workers : FetchOK(fetch[w])

-----------------------------------------------------------------------------
(* Fetches.                                                                *)

(* The smaller of two numbers.                                             *)
LEMMA MinOfTwo ==
  ASSUME NEW a \in Int, NEW b \in Int
  PROVE  Min({a, b}) = IF a <= b THEN a ELSE b
  BY DEF Min

(* The larger one.                                                         *)
LEMMA MaxOfTwo ==
  ASSUME NEW a \in Int, NEW b \in Int
  PROVE  Max({a, b}) = IF a <= b THEN b ELSE a
  BY DEF Max

(* The limits are natural numbers.                                         *)
LEMMA LimitsTyped ==
  /\ MaxRedirects \in Nat /\ MaxImageBytes \in Nat /\ SniffBytes \in Nat
  /\ SVGPrologBytes \in Nat /\ 0 < SniffBytes
  /\ SniffBytes <= SVGPrologBytes /\ SVGPrologBytes < MaxImageBytes
  BY FetchAssumption

(* What is known of a response.                                            *)
LEMMA RespTyped ==
  ASSUME NEW r \in Resps
  PROVE  /\ r.body.sends \in Nat /\ r.body.root \in Nat /\ r.length \in Int
         /\ r.body.ends = "short" <=> r.body.sends < r.length
         /\ r.body.magic \in Magics
  BY FetchAssumption DEF Magics

(* A worker without a fetch, and a fetch that has ended, are in order.     *)
LEMMA EndedOK ==
  ASSUME NEW err \in Errors
  PROVE  /\ NoFetch \in Fetches /\ FetchOK(NoFetch)
         /\ Ended(err) \in Fetches /\ FetchOK(Ended(err))
<1>1. <<>> \in Seq(Addresses)
  BY EmptySeq
<1>2. NoFetch \in Fetches
  BY <1>1 DEF NoFetch, Fetches, Labels, Magics, Errors
<1>3. NoFetch.at = "idle"
  BY DEF NoFetch
<1>4. Ended(err) \in Fetches /\ Ended(err).at = "ended"
  BY <1>2 DEF Ended, Fetches, Labels
<1>5. ASSUME NEW f, f.at \in {"idle", "ended"} PROVE FetchOK(f)
  BY <1>5 DEF FetchOK, Requesting, Connected, Answered
<1> QED
  BY <1>2, <1>3, <1>4, <1>5

(* A step that puts one fetch in order and keeps good connections keeps    *)
(* the invariant.                                                          *)
LEMMA StepKeeps ==
  ASSUME IInv, NEW w \in Workers, NEW g \in Fetches, FetchOK(g),
         fetch' = [fetch EXCEPT ![w] = g],
         transport' \in Workers \cup {NoTransport},
         \A c \in idle' : c \in idle \/ Good(c)
  PROVE  IInv'
<1>1. fetch \in [Workers -> Fetches] /\ \A c \in idle : Good(c)
  BY DEF IInv, Types
<1>2. \A c : Good(c)' <=> Good(c)
  BY DEF Good, Vetted
<1>3. \A c \in idle' : Good(c)
  BY <1>1
<1>4. idle' \subseteq Conns
  BY <1>3 DEF Good
<1>5. fetch' \in [Workers -> Fetches]
  BY <1>1
<1>6. \A v \in Workers : FetchOK(fetch'[v])
  BY <1>1 DEF IInv
<1> QED
  BY <1>2, <1>3, <1>4, <1>5, <1>6 DEF IInv, Types

(* Fails ends the fetch.                                                   *)
LEMMA FailsKeeps ==
  ASSUME IInv, NEW w \in Workers, NEW err \in Errors, Fails(w, err),
         transport' = transport, \A c \in idle' : c \in idle \/ Good(c)
  PROVE  IInv'
<1>1. Ended(err) \in Fetches /\ FetchOK(Ended(err))
  BY EndedOK
<1> QED
  BY <1>1, StepKeeps DEF Fails, IInv, Types

-----------------------------------------------------------------------------
(* client.go: the request.                                                 *)

(* An item begins with the address of the client.                          *)
LEMMA StartGetKeeps ==
  ASSUME IInv, NEW w \in Workers, NEW u \in Items[w], StartGet(w, u)
  PROVE  IInv'
<1>1. u \in Urls
  BY AddressAssumption DEF Urls
<1>2. CASE ValidateURL(u) # "none"
  BY <1>2, FailsKeeps DEF StartGet, Fails, Errors
<1>3. CASE ValidateURL(u) = "none"
  <2> DEFINE g == [NoFetch EXCEPT !.at = "transport", !.item = u, !.url = u]
  <2>1. g \in Fetches /\ g.at = "transport" /\ g.item = u /\ g.url = u /\ g.hop = 0
    <3>1. NoFetch \in Fetches /\ NoFetch.hop = 0
      BY EndedOK DEF Errors, NoFetch
    <3> QED
      BY <1>1, <3>1 DEF Fetches, Labels
  <2>2. FetchOK(g)
    <3> HIDE DEF g
    <3> QED
      BY <1>1, <1>3, <2>1, LimitsTyped
         DEF FetchOK, Requesting, Connected, Answered, Permitted
  <2>3. fetch' = [fetch EXCEPT ![w] = g] /\ UNCHANGED <<transport, idle>>
    BY <1>3 DEF StartGet
  <2> HIDE DEF g
  <2> QED
    BY <2>1, <2>2, <2>3, StepKeeps DEF IInv, Types
<1> QED
  BY <1>2, <1>3

(* Taking or building a transport moves the fetch on and notes whose it is. *)
LEMMA TransportStep ==
  ASSUME Types, NEW w \in Workers, ReadTransport(w) \/ BuildTransport(w)
  PROVE  \E l \in {"transport", "build", "send"}, v \in Workers \cup {NoTransport} :
           fetch' = [fetch EXCEPT ![w] = [fetch[w] EXCEPT !.at = l, !.via = v]]
<1>1. CASE ReadTransport(w)
  <2> DEFINE l == IF transport = NoTransport THEN "build" ELSE "send"
  <2>1. l \in {"transport", "build", "send"}
    OBVIOUS
  <2>2. transport \in Workers \cup {NoTransport}
    BY DEF Types
  <2>3. fetch' = [fetch EXCEPT ![w] = [fetch[w] EXCEPT !.at = l, !.via = transport]]
    BY <1>1, Zenon DEF ReadTransport
  <2> HIDE DEF l
  <2> QED
    BY <2>1, <2>2, <2>3, Zenon
<1>2. CASE BuildTransport(w)
  <2>1. fetch' = [fetch EXCEPT ![w] = [fetch[w] EXCEPT !.at = "transport"]]
    BY <1>2, Zenon DEF BuildTransport
  <2>2. /\ fetch[w].via \in Workers \cup {NoTransport}
        /\ [fetch[w] EXCEPT !.at = "transport"] =
             [fetch[w] EXCEPT !.at = "transport", !.via = fetch[w].via]
    <3>1. fetch[w] \in Fetches
      BY DEF Types
    <3> QED
      BY <3>1 DEF Fetches
  <2>3. "transport" \in {"transport", "build", "send"}
    OBVIOUS
  <2> QED
    BY <2>1, <2>2, <2>3, Zenon
<1> QED
  BY <1>1, <1>2

(* The worker takes the transport there is, or builds one.                 *)
LEMMA TransportKeeps ==
  ASSUME IInv, NEW w \in Workers, ReadTransport(w) \/ BuildTransport(w)
  PROVE  IInv'
<1> DEFINE f == fetch[w]
           g(l, v) == [f EXCEPT !.at = l, !.via = v]
<1>1. f \in Fetches /\ FetchOK(f) /\ f.at \in {"transport", "build"}
  BY DEF IInv, Types, ReadTransport, BuildTransport
<1>2. PICK l \in {"transport", "build", "send"}, v \in Workers \cup {NoTransport} :
        /\ fetch' = [fetch EXCEPT ![w] = g(l, v)]
        /\ transport' \in Workers \cup {NoTransport} /\ UNCHANGED idle
  <2>1. Types
    BY DEF IInv
  <2>2. transport' \in Workers \cup {NoTransport} /\ UNCHANGED idle
    BY <2>1 DEF Types, ReadTransport, BuildTransport
  <2> QED
    BY <2>1, <2>2, TransportStep, Zenon
<1>3. /\ g(l, v) \in Fetches /\ g(l, v).at = l /\ g(l, v).item = f.item
      /\ g(l, v).url = f.url /\ g(l, v).hop = f.hop
  <2>1. f \in Fetches /\ l \in Labels
    BY <1>1 DEF Labels
  <2> HIDE DEF f
  <2> QED
    BY <2>1 DEF Fetches
<1>4. FetchOK(g(l, v))
  <2> HIDE DEF f, g
  <2> QED
    BY <1>1, <1>3 DEF FetchOK, Requesting, Connected, Answered
<1> HIDE DEF f, g
<1> QED
  BY <1>2, <1>3, <1>4, StepKeeps

(* A kept connection was made for its host under the same policy, whoever  *)
(* made it.                                                                *)
LEMMA ReuseKeeps ==
  ASSUME IInv, NEW w \in Workers, Reuse(w)
  PROVE  IInv'
<1> DEFINE f == fetch[w]
<1>1. f \in Fetches /\ FetchOK(f) /\ f.at = "send"
  BY DEF IInv, Types, Reuse
<1>2. PICK c \in idle :
        /\ idle' = idle \ {c} /\ transport' = transport
        /\ fetch' = [fetch EXCEPT ![w] = [f EXCEPT !.at = "sent", !.conn = c]]
  BY DEF IInv, Types, Reuse
<1> DEFINE g == [f EXCEPT !.at = "sent", !.conn = c]
<1>3. c \in Conns /\ Good(c)
  BY DEF IInv, Types
<1>4. /\ g \in Fetches /\ g.at = "sent" /\ g.item = f.item /\ g.url = f.url
      /\ g.hop = f.hop /\ g.conn = c
  <2>1. f \in Fetches /\ "sent" \in Labels
    BY <1>1 DEF Labels
  <2> HIDE DEF f
  <2> QED
    BY <1>3, <2>1 DEF Fetches
<1> HIDE DEF f, g
<1>5. FetchOK(g)
  BY <1>1, <1>3, <1>4 DEF FetchOK, Requesting, Connected, Answered
<1>6. fetch' = [fetch EXCEPT ![w] = g]
  BY <1>2 DEF f, g
<1> QED
  BY <1>2, <1>4, <1>5, <1>6, StepKeeps DEF IInv, Types

(* A list that the resolver returned for a permitted address is a list of  *)
(* addresses.                                                              *)
LEMMA ListTyped ==
  ASSUME NEW u, Permitted(u), NEW ips \in Answers[u.host.name]
  PROVE  ips \in Seq(Addresses)
<1>1. u.host.name \in DOMAIN Answers
  BY AddressAssumption DEF Permitted
<1>2. ips \in Seq(ToSet(ips)) /\ ToSet(ips) \subseteq Addresses
  BY <1>1, AddressAssumption DEF Addresses
<1> QED
  BY <1>2, SeqMonotonic

(* resolveOnce goes on to the dial only with a list that is public as a    *)
(* whole.                                                                  *)
LEMMA ResolveKeeps ==
  ASSUME IInv, NEW w \in Workers, Resolve(w)
  PROVE  IInv'
<1> DEFINE f == fetch[w]
           host == f.url.host
<1>1. f \in Fetches /\ FetchOK(f) /\ f.at = "send"
      /\ UNCHANGED <<transport, idle>>
  BY DEF IInv, Types, Resolve
<1>2. CASE \E err \in {"timeout", "network", "blocked"} : Fails(w, err)
  BY <1>1, <1>2, FailsKeeps DEF Errors
<1>3. ASSUME NEW ips \in Answers[host.name],
             ResolveHost(host, ips).err = "none",
             fetch' = [fetch EXCEPT ![w].at = "dial",
                                    ![w].ips = ResolveHost(host, ips).ips]
      PROVE  IInv'
  <2> DEFINE g == [f EXCEPT !.at = "dial", !.ips = ips]
  <2>1. /\ ResolveHost(host, ips).ips = ips /\ ips # <<>>
        /\ ToSet(ips) \subseteq Public
    BY <1>3 DEF ResolveHost, AllowedIP
  <2>2. fetch' = [fetch EXCEPT ![w] = g]
    BY <1>3, <2>1 DEF IInv, Types
  <2>3. Permitted(f.url) /\ f.hop <= MaxRedirects /\ Permitted(f.item)
    BY <1>1 DEF FetchOK, Requesting
  <2>4. ips \in Seq(Addresses)
    BY <2>3, ListTyped
  <2>5. /\ g \in Fetches /\ g.at = "dial" /\ g.item = f.item /\ g.url = f.url
        /\ g.hop = f.hop /\ g.ips = ips
    BY <1>1, <2>4 DEF Fetches, Labels
  <2>6. Vetted(g.url.host, g.ips)
    BY <2>1, <2>5 DEF Vetted
  <2> HIDE DEF f, g, host
  <2>7. FetchOK(g)
    BY <2>1, <2>3, <2>5, <2>6 DEF FetchOK, Requesting, Connected, Answered
  <2> QED
    BY <1>1, <2>2, <2>5, <2>7, StepKeeps DEF IInv, Types
<1>4. ASSUME NEW ips \in Answers[host.name]
      PROVE  ResolveHost(host, ips).err \in {"none", "blocked"}
  BY DEF ResolveHost
<1> QED
  BY <1>2, <1>3, <1>4 DEF Resolve

(* A list of one address names only addresses of the list.                 *)
LEMMA VettedParts ==
  ASSUME NEW host, NEW ips \in Seq(Addresses), ips # <<>>, Vetted(host, ips)
  PROVE  /\ Head(ips) \in Addresses /\ Vetted(host, <<Head(ips)>>)
         /\ Tail(ips) \in Seq(Addresses) /\ Vetted(host, Tail(ips))
         /\ Len(ips) \in Nat /\ Len(ips) > 0 /\ (Len(ips) > 1 => Tail(ips) # <<>>)
<1>1. /\ Len(ips) \in Nat /\ Len(ips) > 0 /\ DOMAIN ips = 1..Len(ips)
      /\ Head(ips) = ips[1] /\ Head(ips) \in Addresses
  BY LenProperties, EmptySeq, HeadTailProperties
<1>2. /\ Tail(ips) \in Seq(Addresses) /\ Len(Tail(ips)) = Len(ips) - 1
      /\ DOMAIN Tail(ips) = 1..(Len(ips) - 1)
      /\ \A i \in 1..(Len(ips) - 1) : Tail(ips)[i] = ips[i + 1]
  BY <1>1, HeadTailProperties, LenProperties
<1>3. ToSet(<<Head(ips)>>) \subseteq ToSet(ips)
  BY <1>1 DEF ToSet
<1>4. ToSet(Tail(ips)) \subseteq ToSet(ips)
  BY <1>1, <1>2 DEF ToSet
<1>5. Len(ips) > 1 => Tail(ips) # <<>>
  <2>1. Len(ips) > 1 => Len(Tail(ips)) # 0
    BY <1>1, <1>2
  <2>2. Len(<<>>) = 0
    BY EmptySeq
  <2> QED
    BY <2>1, <2>2, Zenon
<1>6. PICK list \in Answers[host.name] : /\ ToSet(ips) \subseteq ToSet(list)
                                        /\ ToSet(list) \subseteq Public
  BY DEF Vetted
<1>7. Vetted(host, <<Head(ips)>>) /\ Vetted(host, Tail(ips))
  BY <1>3, <1>4, <1>6 DEF Vetted
<1> QED
  BY <1>1, <1>2, <1>5, <1>7

(* dialTLS tries the addresses of the vetted list in turn.                 *)
LEMMA DialKeeps ==
  ASSUME IInv, NEW w \in Workers, Dial(w)
  PROVE  IInv'
<1> DEFINE f == fetch[w]
           c == [host |-> f.url.host, ip |-> Head(f.ips), via |-> f.via]
<1>1. f \in Fetches /\ FetchOK(f) /\ f.at = "dial"
      /\ UNCHANGED <<transport, idle>>
  BY DEF IInv, Types, Dial
<1>2. /\ f.ips \in Seq(Addresses) /\ f.ips # <<>> /\ Vetted(f.url.host, f.ips)
      /\ Permitted(f.url) /\ f.hop <= MaxRedirects /\ Permitted(f.item)
      /\ f.via \in Workers \cup {NoTransport}
  BY <1>1 DEF FetchOK, Fetches, Requesting
<1>3. /\ Head(f.ips) \in Addresses /\ Vetted(f.url.host, <<Head(f.ips)>>)
      /\ Tail(f.ips) \in Seq(Addresses) /\ Vetted(f.url.host, Tail(f.ips))
      /\ Len(f.ips) > 1 => Tail(f.ips) # <<>>
  BY <1>2, VettedParts
<1>4. CASE fetch' = [fetch EXCEPT ![w].at = "sent", ![w].ips = <<>>, ![w].conn = c]
  <2> DEFINE g == [f EXCEPT !.at = "sent", !.ips = <<>>, !.conn = c]
  <2>1. fetch' = [fetch EXCEPT ![w] = g]
    BY <1>4 DEF IInv, Types
  <2>2. c \in Conns /\ c.host = f.url.host /\ c.ip = Head(f.ips)
    BY <1>2, <1>3 DEF Conns, Permitted
  <2>3. Good(c)
    BY <1>3, <2>2 DEF Good
  <2>4. <<>> \in Seq(Addresses)
    BY EmptySeq
  <2> HIDE DEF c
  <2>5. /\ g \in Fetches /\ g.at = "sent" /\ g.item = f.item /\ g.url = f.url
        /\ g.hop = f.hop /\ g.conn = c
    BY <1>1, <2>2, <2>4 DEF Fetches, Labels
  <2> HIDE DEF f, g
  <2>6. FetchOK(g)
    BY <1>2, <2>3, <2>5 DEF FetchOK, Requesting, Connected, Answered
  <2> QED
    BY <1>1, <2>1, <2>5, <2>6, StepKeeps DEF IInv, Types
<1>5. CASE Len(f.ips) > 1 /\ fetch' = [fetch EXCEPT ![w].ips = Tail(@)]
  <2> DEFINE g == [f EXCEPT !.ips = Tail(f.ips)]
  <2>1. fetch' = [fetch EXCEPT ![w] = g]
    BY <1>5 DEF IInv, Types
  <2>2. /\ g \in Fetches /\ g.at = "dial" /\ g.item = f.item /\ g.url = f.url
        /\ g.hop = f.hop /\ g.ips = Tail(f.ips)
    BY <1>1, <1>3 DEF Fetches
  <2>3. Vetted(g.url.host, g.ips) /\ g.ips # <<>>
    BY <1>3, <1>5, <2>2
  <2> HIDE DEF f, g, c
  <2>4. FetchOK(g)
    BY <1>2, <2>2, <2>3 DEF FetchOK, Requesting, Connected, Answered
  <2> QED
    BY <1>1, <2>1, <2>2, <2>4, StepKeeps DEF IInv, Types
<1>6. CASE \E err \in {"network", "timeout"} : Fails(w, err)
  BY <1>1, <1>6, FailsKeeps DEF Errors
<1> QED
  BY <1>4, <1>5, <1>6 DEF Dial

(* A response, or none.                                                    *)
LEMMA ReplyKeeps ==
  ASSUME IInv, NEW w \in Workers,
         NoReply(w) \/ \E r \in Responses[w] : Reply(w, r)
  PROVE  IInv'
<1>1. CASE NoReply(w)
  BY <1>1, FailsKeeps DEF NoReply, Errors
<1>2. ASSUME NEW r \in Responses[w], Reply(w, r) PROVE IInv'
  <2> DEFINE f == fetch[w]
             g == [f EXCEPT !.at = "replied", !.resp = r, !.open = TRUE]
  <2>1. f \in Fetches /\ FetchOK(f) /\ f.at = "sent"
        /\ UNCHANGED <<transport, idle>>
    BY <1>2 DEF IInv, Types, Reply
  <2>2. fetch' = [fetch EXCEPT ![w] = g]
    BY <1>2 DEF IInv, Types, Reply
  <2>3. r \in Resps
    BY DEF Resps
  <2>4. /\ g \in Fetches /\ g.at = "replied" /\ g.item = f.item /\ g.url = f.url
        /\ g.hop = f.hop /\ g.conn = f.conn /\ g.resp = r
    BY <2>1, <2>3 DEF Fetches, Labels
  <2> HIDE DEF f, g
  <2>5. FetchOK(g)
    BY <2>1, <2>3, <2>4 DEF FetchOK, Requesting, Connected, Answered
  <2> QED
    BY <2>1, <2>2, <2>4, <2>5, StepKeeps DEF IInv, Types
<1> QED
  BY <1>1, <1>2

(* Closing a body keeps at most the connection it came over.               *)
LEMMA ClosedKeeps ==
  ASSUME IInv, NEW w \in Workers, fetch[w].at \in Answered, NEW read,
         Closed(w, read)
  PROVE  \A c \in idle' : c \in idle \/ Good(c)
<1>1. Good(fetch[w].conn)
  BY DEF IInv, FetchOK, Answered
<1>2. idle' \subseteq idle \cup {fetch[w].conn}
  BY DEF Closed
<1> QED
  BY <1>1, <1>2

(* The next hop is within the limit and the policy.                        *)
LEMMA RedirectKeeps ==
  ASSUME NEW f \in Fetches, FetchOK(f), f.at = "replied"
  PROVE  Redirected(f) \in Fetches /\ FetchOK(Redirected(f))
<1> DEFINE u == f.resp.location
<1>1. /\ f.resp \in Resps /\ f.hop \in Nat /\ Permitted(f.item)
      /\ f.via \in Workers \cup {NoTransport} /\ f.item \in Urls
  BY DEF FetchOK, Fetches, Answered, Connected, Permitted
<1>2. CASE u = NoUrl \/ f.hop >= MaxRedirects \/ ValidateURL(u) # "none"
  BY <1>2, EndedOK DEF Redirected, Errors
<1>3. CASE u # NoUrl /\ ~(f.hop >= MaxRedirects) /\ ValidateURL(u) = "none"
  <2>1. Redirected(f) = [NoFetch EXCEPT !.at = "send", !.item = f.item,
                                        !.via = f.via, !.url = u, !.hop = f.hop + 1]
    BY <1>3 DEF Redirected
  <2>2. Permitted(u)
    <3>1. u \in {r.location : r \in Resps}
      BY <1>1
    <3> HIDE DEF u
    <3> QED
      BY <1>3, <3>1 DEF Urls, Permitted
  <2> HIDE DEF u
  <2> DEFINE k == f.hop + 1
             g == [NoFetch EXCEPT !.at = "send", !.item = f.item, !.via = f.via,
                                  !.url = u, !.hop = k]
  <2>3. k \in Nat /\ k <= MaxRedirects
    BY <1>1, <1>3, LimitsTyped
  <2>4. NoFetch \in Fetches
    BY EndedOK DEF Errors
  <2>5. Redirected(f) = g
    BY <2>1
  <2> HIDE DEF k
  <2>6. /\ g \in Fetches /\ g.at = "send" /\ g.item = f.item /\ g.url = u
        /\ g.hop = k
    BY <1>1, <2>2, <2>3, <2>4 DEF Fetches, Labels, Permitted
  <2> HIDE DEF g
  <2>7. FetchOK(g)
    BY <1>1, <2>2, <2>3, <2>6 DEF FetchOK, Requesting, Connected, Answered
  <2> QED
    BY <2>5, <2>6, <2>7
<1> QED
  BY <1>2, <1>3

(* Get: a redirect, a refusal, or a body to consume.                       *)
LEMMA ClassifyKeeps ==
  ASSUME IInv, NEW w \in Workers, Classify(w)
  PROVE  IInv'
<1> DEFINE f == fetch[w]
<1>1. f \in Fetches /\ FetchOK(f) /\ f.at = "replied" /\ transport' = transport
      /\ f.at \in Answered
  BY DEF IInv, Types, Classify, Answered, Connected
<1>2. CASE Closed(w, DrainBytes) /\ fetch' = [fetch EXCEPT ![w] = Redirected(@)]
  <2>1. Redirected(f) \in Fetches /\ FetchOK(Redirected(f))
    BY <1>1, RedirectKeeps
  <2>2. \A c \in idle' : c \in idle \/ Good(c)
    BY <1>1, <1>2, ClosedKeeps
  <2>3. fetch' = [fetch EXCEPT ![w] = Redirected(f)]
    BY <1>2
  <2> QED
    BY <1>1, <2>1, <2>2, <2>3, StepKeeps DEF IInv, Types
<1>3. CASE /\ Refusal(f.resp) # "none" /\ Closed(w, DrainBytes)
           /\ Fails(w, Refusal(f.resp))
  <2>1. Refusal(f.resp) \in Errors
    BY DEF Refusal, Errors
  <2>2. \A c \in idle' : c \in idle \/ Good(c)
    BY <1>1, <1>3, ClosedKeeps
  <2> QED
    BY <1>1, <1>3, <2>1, <2>2, FailsKeeps
<1>4. CASE /\ fetch' = [fetch EXCEPT ![w].at = "head", ![w].url = NoUrl,
                        ![w].hop = 0]
           /\ UNCHANGED idle
  <2> DEFINE g == [f EXCEPT !.at = "head", !.url = NoUrl, !.hop = 0]
  <2>1. fetch' = [fetch EXCEPT ![w] = g]
    BY <1>4 DEF IInv, Types
  <2>2. /\ g \in Fetches /\ g.at = "head" /\ g.item = f.item /\ g.conn = f.conn
        /\ g.resp = f.resp
    BY <1>1 DEF Fetches, Labels
  <2> HIDE DEF f, g
  <2>3. FetchOK(g)
    BY <1>1, <2>2 DEF FetchOK, Requesting, Connected, Answered
  <2> QED
    BY <1>1, <1>4, <2>1, <2>2, <2>3, StepKeeps DEF IInv, Types
<1> QED
  BY <1>2, <1>3, <1>4 DEF Classify

-----------------------------------------------------------------------------
(* image.go: the body.                                                     *)

(* The length of the head.                                                 *)
LEMMA HeadTyped ==
  ASSUME NEW r \in Resps
  PROVE  LET b == r.body
         IN  /\ HeadOf(b) = IF SniffBytes <= b.sends THEN SniffBytes ELSE b.sends
             /\ HeadOf(b) \in Nat /\ HeadOf(b) <= SniffBytes /\ HeadOf(b) <= b.sends
<1>1. r.body.sends \in Nat /\ SniffBytes \in Nat
  BY RespTyped, LimitsTyped
<1>2. HeadOf(r.body) = IF SniffBytes <= r.body.sends THEN SniffBytes
                       ELSE r.body.sends
  BY <1>1, MinOfTwo DEF HeadOf
<1> QED
  BY <1>1, <1>2

\* What a step of ConsumeBody makes of a fetch that it leaves in order.
Consumed(f, g) ==
  /\ f.at \in {"head", "svg", "tail"} /\ g.at \in {"svg", "tail", "close"}
  /\ g.item = f.item /\ g.conn = f.conn /\ g.resp = f.resp
  /\ g.at = "svg" => /\ HeadRead(g) /\ g.pos = g.n
                     /\ g.resp.body.magic \in {"none", "image/svg+xml"}
  /\ g.at = "tail" => HeadRead(g) /\ RootRead(g) /\ g.det = g.resp.body.magic
  /\ g.at = "close" => Truthful(g) /\ (g.err = "none" => Whole(g))

(* Such a step keeps the invariant.                                        *)
LEMMA BodyKeeps ==
  ASSUME IInv, NEW w \in Workers, NEW g \in Fetches, Consumed(fetch[w], g),
         fetch' = [fetch EXCEPT ![w] = g], UNCHANGED <<transport, idle>>
  PROVE  IInv'
<1> DEFINE f == fetch[w]
<1>1. FetchOK(f) /\ f.at \in {"head", "svg", "tail"} /\ Consumed(f, g)
  BY DEF IInv, Consumed
<1> HIDE DEF f
<1>2. Permitted(f.item) /\ Good(f.conn) /\ f.resp \in Resps
  BY <1>1 DEF FetchOK, Connected, Answered
<1>3. Permitted(g.item) /\ Good(g.conn) /\ g.resp \in Resps
  BY <1>1, <1>2 DEF Consumed
<1>4. FetchOK(g)
  BY <1>1, <1>3 DEF FetchOK, Requesting, Connected, Answered, Consumed
<1> QED
  BY <1>4, StepKeeps DEF IInv, Types

(* The fetch of a worker that consumes a body.                             *)
LEMMA BodyTyped ==
  ASSUME IInv, NEW w \in Workers, fetch[w].at \in {"head", "svg", "tail"}
  PROVE  /\ fetch[w] \in Fetches /\ fetch[w].resp \in Resps
         /\ FetchOK(fetch[w]) /\ Body(w) = fetch[w].resp.body
  BY DEF IInv, Types, FetchOK, Answered, Connected, Body

\* A fetch g that is f with new values where a step of ConsumeBody has them.
Changed(f, g, at, pos) ==
  /\ g \in Fetches /\ g.at = at /\ g.pos = pos
  /\ g.item = f.item /\ g.conn = f.conn /\ g.resp = f.resp

(* The labels and errors that they set.                                    *)
LEMMA Known ==
  /\ {"svg", "tail", "close"} \subseteq Labels
  /\ {"none", "timeout", "network", "too-large", "type", "truncated", "storage"}
       \subseteq Errors
  BY DEF Labels, Errors

(* ReadHead: a head cut off by an error, none, or one whose kind is known  *)
(* or left to the root check.                                              *)
LEMMA HeadKeeps ==
  ASSUME IInv, NEW w \in Workers, fetch[w].at = "head",
         fetch' = [fetch EXCEPT ![w] = ReadHead(w)], UNCHANGED <<transport, idle>>
  PROVE  IInv'
<1> DEFINE f == fetch[w]
           b == f.resp.body
           hn == HeadOf(b)
           cut == b.sends < SniffBytes /\ b.ends \in {"timeout", "reset"}
<1>1. f \in Fetches /\ f.resp \in Resps /\ Body(w) = b /\ f.at = "head"
  BY BodyTyped
<1>2. /\ hn \in Nat /\ hn \in Int /\ hn <= b.sends /\ b.sends \in Nat
      /\ b.magic \in Magics /\ (hn = 0 => b.sends = 0)
  BY <1>1, HeadTyped, RespTyped, LimitsTyped
<1>3. CASE cut
  <2> DEFINE g == [f EXCEPT !.at = "close", !.err = ReadError(w), !.pos = hn,
                   !.n = hn]
  <2>1. ReadHead(w) = g
    BY <1>1, <1>3 DEF ReadHead, Ends, HeadOf
  <2>2. ReadError(w) \in {"timeout", "network"} /\ b.ends # "eof"
    BY <1>1, <1>3 DEF ReadError
  <2>3. Changed(f, g, "close", hn) /\ g.err \in {"timeout", "network"}
    <3>1. ReadError(w) \in Errors /\ "close" \in Labels
      BY <2>2, Known
    <3>2. f \in Fetches /\ hn \in Int
      BY <1>1, <1>2
    <3> HIDE DEF f, b, hn, cut
    <3> QED
      BY <2>2, <3>1, <3>2 DEF Fetches, Changed
  <2> HIDE DEF g
  <2>4. Truthful(g) /\ g.err # "none"
    BY <2>2, <2>3 DEF Truthful, Changed
  <2>5. Consumed(f, g)
    BY <1>1, <2>3, <2>4 DEF Consumed, Changed
  <2> QED
    BY <2>1, <2>3, <2>5, BodyKeeps DEF Changed
<1>4. CASE ~cut /\ hn = 0
  <2> DEFINE g == [f EXCEPT !.at = "close", !.err = "type", !.pos = 0, !.n = 0]
  <2>1. ReadHead(w) = g
    BY <1>1, <1>4 DEF ReadHead, Ends, HeadOf
  <2>2. Changed(f, g, "close", 0) /\ g.err = "type"
    <3>1. "close" \in Labels /\ "type" \in Errors /\ 0 \in Int
      BY Known
    <3>2. f \in Fetches
      BY <1>1
    <3> HIDE DEF f, b, hn, cut
    <3> QED
      BY <3>1, <3>2 DEF Fetches, Changed
  <2> HIDE DEF g
  <2>3. Truthful(g)
    BY <1>2, <1>4, <2>2 DEF Truthful, Changed
  <2>4. Consumed(f, g)
    BY <1>1, <2>2, <2>3 DEF Consumed, Changed
  <2> QED
    BY <2>1, <2>2, <2>4, BodyKeeps DEF Changed
<1>5. CASE ~cut /\ hn # 0 /\ b.magic \in {"none", "image/svg+xml"}
  <2> DEFINE g == [f EXCEPT !.at = "svg", !.pos = hn, !.n = hn]
  <2>1. ReadHead(w) = g
    BY <1>1, <1>5 DEF ReadHead, HeadOf
  <2>2. Changed(f, g, "svg", hn) /\ g.n = hn
    <3>1. "svg" \in Labels
      BY Known
    <3>2. f \in Fetches /\ hn \in Int
      BY <1>1, <1>2
    <3> HIDE DEF f, b, hn, cut
    <3> QED
      BY <3>1, <3>2 DEF Fetches, Changed
  <2> HIDE DEF g
  <2>3. HeadRead(g)
    BY <1>2, <1>5, <2>2 DEF HeadRead, Changed
  <2>4. Consumed(f, g)
    BY <1>1, <1>5, <2>2, <2>3 DEF Consumed, Changed
  <2> QED
    BY <2>1, <2>2, <2>4, BodyKeeps DEF Changed
<1>6. CASE ~cut /\ hn # 0 /\ b.magic \notin {"none", "image/svg+xml"}
  <2> DEFINE g == [f EXCEPT !.at = "tail", !.pos = hn, !.n = hn, !.det = b.magic]
  <2>1. ReadHead(w) = g
    BY <1>1, <1>6 DEF ReadHead, HeadOf
  <2>2. Changed(f, g, "tail", hn) /\ g.n = hn /\ g.det = b.magic
    <3>1. "tail" \in Labels
      BY Known
    <3>2. f \in Fetches /\ hn \in Int /\ b.magic \in Magics
      BY <1>1, <1>2
    <3> HIDE DEF f, b, hn, cut
    <3> QED
      BY <3>1, <3>2 DEF Fetches, Changed
  <2> HIDE DEF g
  <2>3. HeadRead(g) /\ RootRead(g)
    BY <1>2, <1>6, <2>2 DEF HeadRead, RootRead, Changed
  <2>4. Consumed(f, g)
    BY <1>1, <2>2, <2>3 DEF Consumed, Changed
  <2> QED
    BY <2>1, <2>2, <2>4, BodyKeeps DEF Changed
<1> QED
  BY <1>3, <1>4, <1>5, <1>6

(* The root check: no SVG, or an SVG whose root element ends where the     *)
(* decoder got to.                                                         *)
LEMMA SvgKeeps ==
  ASSUME IInv, NEW w \in Workers, fetch[w].at = "svg", NEW g \in SvgRootCheck(w),
         fetch' = [fetch EXCEPT ![w] = g], UNCHANGED <<transport, idle>>
  PROVE  IInv'
<1> DEFINE f == fetch[w]
           b == f.resp.body
           hn == HeadOf(b)
           last == Min({b.sends, SVGPrologBytes + 1})
<1>1. /\ f \in Fetches /\ f.resp \in Resps /\ Body(w) = b /\ f.at = "svg"
      /\ HeadRead(f) /\ f.pos = f.n /\ b.magic \in {"none", "image/svg+xml"}
  BY BodyTyped DEF FetchOK
<1>2. /\ hn \in Nat /\ hn <= b.sends /\ b.sends \in Nat /\ b.root \in Nat
      /\ hn = IF SniffBytes <= b.sends THEN SniffBytes ELSE b.sends
      /\ SniffBytes \in Nat /\ SVGPrologBytes \in Nat
  BY <1>1, HeadTyped, RespTyped, LimitsTyped
<1>3. last \in Nat /\ last <= b.sends
  <2>1. b.sends \in Int /\ SVGPrologBytes + 1 \in Int
    BY <1>2
  <2>2. last = IF b.sends <= SVGPrologBytes + 1 THEN b.sends ELSE SVGPrologBytes + 1
    BY <2>1, MinOfTwo
  <2> QED
    BY <1>2, <2>2
<1>4. f.n = hn /\ f.pos = hn
  BY <1>1 DEF HeadRead
<1>5. CASE b.magic = "none" \/ b.root > last
  <2>1. PICK q \in f.pos..Max({f.pos, last}) : g = Ends(w, "type", q, f.n)
    BY <1>1, <1>5 DEF SvgRootCheck
  <2>2. g = [f EXCEPT !.at = "close", !.err = "type", !.pos = q, !.n = f.n]
    BY <2>1 DEF Ends
  <2>3. q \in Int /\ f.n \in Int
    BY <1>2, <1>3, <1>4, MaxOfTwo
  <2>4. Changed(f, g, "close", q) /\ g.err = "type"
    <3>1. "close" \in Labels /\ "type" \in Errors /\ f \in Fetches
      BY <1>1, Known
    <3> HIDE DEF f, b, hn, last
    <3> QED
      BY <2>2, <2>3, <3>1 DEF Fetches, Changed
  <2>5. Truthful(g)
    BY <1>1, <1>5, <2>4 DEF Truthful, Changed
  <2>6. Consumed(f, g)
    BY <1>1, <2>4, <2>5 DEF Consumed, Changed
  <2> QED
    BY <2>4, <2>6, BodyKeeps DEF Changed
<1>6. CASE b.magic = "image/svg+xml" /\ b.root <= last
  <2>1. PICK q \in IF b.root <= f.pos THEN {f.pos} ELSE b.root..last :
          g = [f EXCEPT !.at = "tail", !.pos = q, !.det = "image/svg+xml"]
    <3>1. ~(b.magic = "none" \/ b.root > last)
      BY <1>2, <1>3, <1>6
    <3> QED
      BY <1>1, <3>1 DEF SvgRootCheck
  <2>2. q \in Int /\ hn <= q /\ q <= b.sends /\ (q = hn \/ b.root > SniffBytes)
    BY <1>2, <1>3, <1>4, <1>6
  <2>3. Changed(f, g, "tail", q) /\ g.n = f.n /\ g.det = "image/svg+xml"
    <3>1. "tail" \in Labels /\ "image/svg+xml" \in Magics /\ f \in Fetches
      BY <1>1, Known DEF Magics
    <3> HIDE DEF f, b, hn, last
    <3> QED
      BY <2>1, <2>2, <3>1 DEF Fetches, Changed
  <2>4. HeadRead(g)
    BY <1>1, <2>3 DEF HeadRead, Changed
  <2>5. RootRead(g)
    BY <1>2, <1>4, <1>6, <2>2, <2>3 DEF RootRead, LongSvg, Changed
  <2>6. Consumed(f, g)
    BY <1>1, <1>6, <2>3, <2>4, <2>5 DEF Consumed, Changed
  <2> QED
    BY <2>3, <2>6, BodyKeeps DEF Changed
<1> QED
  BY <1>1, <1>2, <1>3, <1>5, <1>6

(* The copy ends with a refusal that is true of the body, or has all of it. *)
LEMMA TailKeeps ==
  ASSUME IInv, NEW w \in Workers, fetch[w].at = "tail", NEW h,
         \/ h = ReadTail(w, FALSE) /\ Body(w).sends <= MaxImageBytes + 1
         \/ h = ReadTail(w, TRUE) /\ Body(w).sends > MaxImageBytes,
         fetch' = [fetch EXCEPT ![w] = h], UNCHANGED <<transport, idle>>
  PROVE  IInv'
<1> DEFINE f == fetch[w]
           b == f.resp.body
           length == f.resp.length
           pos == Min({b.sends, MaxImageBytes + 1})
           n == f.n + (pos - f.pos)
           g(err) == [f EXCEPT !.at = "close", !.err = err, !.pos = pos, !.n = n]
<1>1. /\ f \in Fetches /\ f.resp \in Resps /\ Body(w) = b /\ f.at = "tail"
      /\ HeadRead(f) /\ RootRead(f) /\ f.det = b.magic
  BY BodyTyped DEF FetchOK
<1>2. /\ b.sends \in Nat /\ length \in Int /\ MaxImageBytes \in Nat
      /\ HeadOf(b) = IF SniffBytes <= b.sends THEN SniffBytes ELSE b.sends
      /\ SniffBytes \in Nat
      /\ b.ends = "short" <=> b.sends < length
  BY <1>1, HeadTyped, RespTyped, LimitsTyped
<1>3. /\ f.n = HeadOf(b) /\ f.n \in Nat /\ f.pos \in Nat /\ f.n <= f.pos
      /\ f.pos <= b.sends /\ (f.pos = f.n \/ LongSvg(b))
  BY <1>1, <1>2 DEF HeadRead, RootRead
<1>4. /\ pos \in Nat /\ n \in Int
      /\ pos = IF b.sends <= MaxImageBytes + 1 THEN b.sends ELSE MaxImageBytes + 1
  BY <1>2, <1>3, MinOfTwo
<1>5. ASSUME NEW err \in Errors, Truthful(g(err)), err = "none" => Whole(g(err)),
             h = g(err)
      PROVE  IInv'
  <2>1. Changed(f, g(err), "close", pos) /\ g(err).err = err
    <3>1. "close" \in Labels /\ f \in Fetches /\ err \in Errors
      BY <1>1, <1>5, Known
    <3>2. pos \in Int /\ n \in Int
      BY <1>4
    <3> HIDE DEF f, b, length, pos, n
    <3> QED
      BY <3>1, <3>2 DEF Fetches, Changed
  <2> HIDE DEF g
  <2>2. Consumed(f, g(err))
    BY <1>1, <1>5, <2>1 DEF Consumed, Changed
  <2> QED
    BY <1>5, <2>1, <2>2, BodyKeeps DEF Changed
<1>6. \A err \in Errors : /\ g(err).pos = pos /\ g(err).n = n /\ g(err).err = err
                          /\ g(err).resp = f.resp /\ g(err).det = f.det
  <2>1. f \in Fetches
    BY <1>1
  <2> HIDE DEF f, b, length, pos, n
  <2> QED
    BY <2>1 DEF Fetches
<1>7. {"none", "timeout", "network", "too-large", "type", "truncated"}
        \subseteq Errors
  BY Known
<1> DEFINE ended == h = ReadTail(w, FALSE) /\ b.sends <= MaxImageBytes + 1
           cut == h = ReadTail(w, TRUE) /\ b.sends > MaxImageBytes
<1>8. ended \/ cut
  BY <1>1
<1>9. ASSUME ended PROVE pos = b.sends
  BY <1>2, <1>4, <1>9
<1>10. n = pos \/ LongSvg(b)
  BY <1>3, <1>4
<1>11. n <= pos
  BY <1>3, <1>4
<1>12. CASE cut \/ (ended /\ ReadError(w) = "none" /\ n > MaxImageBytes)
  <2>1. h = g("too-large")
    BY <1>1, <1>12 DEF ReadTail, Ends
  <2>2. b.sends > MaxImageBytes
    <3>1. CASE cut
      BY <3>1
    <3>2. CASE ended /\ n > MaxImageBytes
      <4>1. pos = b.sends
        BY <1>9, <3>2
      <4> HIDE DEF b, pos, n
      <4> QED
        BY <1>2, <1>4, <1>11, <3>2, <4>1
    <3> QED
      BY <1>12, <3>1, <3>2
  <2>3. Truthful(g("too-large"))
    <3> HIDE DEF g, pos, n, f
    <3> QED
      BY <1>6, <1>7, <2>2 DEF Truthful
  <2> HIDE DEF g
  <2> QED
    BY <1>5, <1>7, <2>1, <2>3
<1>13. CASE ended /\ ReadError(w) # "none"
  <2>1. h = g(ReadError(w))
    BY <1>1, <1>13 DEF ReadTail, Ends
  <2>2. ReadError(w) \in {"timeout", "network"} /\ b.ends # "eof"
    BY <1>1, <1>13 DEF ReadError
  <2>3. Truthful(g(ReadError(w)))
    <3> HIDE DEF g, pos, n, f
    <3> QED
      BY <1>6, <1>7, <2>2 DEF Truthful
  <2> HIDE DEF g
  <2> QED
    BY <1>5, <1>7, <1>13, <2>1, <2>2, <2>3
<1>14. ASSUME ReadError(w) = "none" PROVE b.ends = "eof"
  BY <1>1, <1>14 DEF ReadError
<1>15. CASE /\ ended /\ ReadError(w) = "none" /\ n <= MaxImageBytes
            /\ length > 0 /\ n < length
  <2>1. h = g("truncated")
    BY <1>1, <1>2, <1>4, <1>15 DEF ReadTail, Ends
  <2>2. LongSvg(b)
    BY <1>2, <1>4, <1>9, <1>10, <1>14, <1>15
  <2>3. Truthful(g("truncated"))
    <3> HIDE DEF g, pos, n, f
    <3> QED
      BY <1>6, <1>7, <2>2 DEF Truthful
  <2> HIDE DEF g
  <2> QED
    BY <1>5, <1>7, <2>1, <2>3
<1>16. CASE /\ ended /\ ReadError(w) = "none" /\ n <= MaxImageBytes
            /\ ~(length > 0 /\ n < length) /\ Conflicts(f.resp.type, f.det)
  <2>1. h = g("type")
    BY <1>1, <1>2, <1>4, <1>16 DEF ReadTail, Ends
  <2>2. Truthful(g("type"))
    <3> HIDE DEF g, pos, n, f
    <3> QED
      BY <1>1, <1>6, <1>7, <1>16 DEF Truthful
  <2> HIDE DEF g
  <2> QED
    BY <1>5, <1>7, <2>1, <2>2
<1>17. CASE /\ ended /\ ReadError(w) = "none" /\ n <= MaxImageBytes
            /\ ~(length > 0 /\ n < length) /\ ~Conflicts(f.resp.type, f.det)
  <2>1. h = g("none")
    BY <1>1, <1>2, <1>4, <1>17 DEF ReadTail, Ends
  <2>2. b.ends = "eof" /\ pos = b.sends /\ length <= pos
    BY <1>2, <1>4, <1>9, <1>11, <1>14, <1>17
  <2>3. pos <= MaxImageBytes \/ (LongSvg(b) /\ pos = MaxImageBytes + 1)
    BY <1>2, <1>4, <1>10, <1>17
  <2>4. Truthful(g("none"))
    <3> HIDE DEF g, pos, n, f
    <3> QED
      BY <1>6, <1>7, <1>10 DEF Truthful
  <2>5. Whole(g("none"))
    <3> HIDE DEF g, pos, n, f
    <3> QED
      BY <1>1, <1>6, <1>7, <1>17, <2>2, <2>3 DEF Whole
  <2> HIDE DEF g
  <2> QED
    BY <1>5, <1>7, <2>1, <2>4, <2>5
<1>18. n > MaxImageBytes \/ n <= MaxImageBytes
  <2> HIDE DEF n
  <2> QED
    BY <1>2, <1>4
<1> HIDE DEF ended, cut, f, b, length, pos, n
<1> QED
  BY <1>8, <1>12, <1>13, <1>15, <1>16, <1>17, <1>18, Zenon

(* ConsumeBody, and the sink that breaks it off.                           *)
LEMMA ConsumeKeeps ==
  ASSUME IInv, NEW w \in Workers, Consume(w)
  PROVE  IInv'
  BY HeadKeeps, SvgKeeps, TailKeeps DEF Consume

(* The storage fails under the body.                                       *)
LEMMA SinkKeeps ==
  ASSUME IInv, NEW w \in Workers, SinkFails(w)
  PROVE  IInv'
<1> DEFINE f == fetch[w]
           g == [f EXCEPT !.at = "close", !.err = "storage"]
<1>1. f \in Fetches /\ f.at \in {"head", "svg", "tail"}
  BY BodyTyped DEF SinkFails
<1>2. fetch' = [fetch EXCEPT ![w] = g] /\ UNCHANGED <<transport, idle>>
  BY DEF SinkFails, IInv, Types
<1>3. Changed(f, g, "close", f.pos) /\ g.err = "storage"
  <2>1. "close" \in Labels /\ "storage" \in Errors
    BY Known
  <2> HIDE DEF f
  <2> QED
    BY <1>1, <2>1 DEF Fetches, Changed
<1> HIDE DEF g
<1>4. Consumed(f, g)
  BY <1>1, <1>3 DEF Consumed, Changed, Truthful
<1> QED
  BY <1>2, <1>3, <1>4, BodyKeeps DEF Changed

-----------------------------------------------------------------------------
(* The specification.                                                      *)

(* Closing the body ends the fetch, or starts it again from zero.          *)
LEMMA CloseKeeps ==
  ASSUME IInv, NEW w \in Workers, Close(w)
  PROVE  IInv'
<1> DEFINE f == fetch[w]
           read == IF f.err = "storage" THEN -1 ELSE f.pos
           g == [NoFetch EXCEPT !.at = "transport", !.item = f.item, !.url = f.item]
<1>1. /\ f \in Fetches /\ FetchOK(f) /\ f.at = "close" /\ f.at \in Answered
      /\ Closed(w, read) /\ transport' = transport
  BY DEF IInv, Types, Close, Answered, Connected
<1>2. \A c \in idle' : c \in idle \/ Good(c)
  BY <1>1, ClosedKeeps
<1>3. f.err \in Errors /\ Permitted(f.item)
  BY <1>1 DEF Fetches, FetchOK
<1>4. CASE Fails(w, f.err)
  BY <1>1, <1>2, <1>3, <1>4, FailsKeeps
<1>5. CASE fetch' = [fetch EXCEPT ![w] = g]
  <2>1. /\ g \in Fetches /\ g.at = "transport" /\ g.item = f.item
        /\ g.url = f.item /\ g.hop = 0
    <3>1. NoFetch \in Fetches /\ NoFetch.hop = 0
      BY EndedOK DEF Errors, NoFetch
    <3>2. f.item \in Urls
      BY <1>3 DEF Permitted
    <3> HIDE DEF f
    <3> QED
      BY <3>1, <3>2 DEF Fetches, Labels
  <2> HIDE DEF g
  <2>2. FetchOK(g)
    BY <1>3, <2>1, LimitsTyped DEF FetchOK, Requesting, Connected, Answered
  <2> QED
    BY <1>1, <1>2, <1>5, <2>1, <2>2, StepKeeps DEF IInv, Types
<1> QED
  BY <1>4, <1>5 DEF Close

(* The worker is free for its next address.                                *)
LEMMA EndKeeps ==
  ASSUME IInv, NEW w \in Workers, EndFetch(w)
  PROVE  IInv'
  BY EndedOK, StepKeeps DEF EndFetch, IInv, Types, Errors

(* A kept connection goes.                                                 *)
LEMMA DropKeeps ==
  ASSUME IInv, Drop
  PROVE  IInv'
<1>1. idle' \subseteq idle /\ UNCHANGED <<transport, fetch>>
  BY DEF Drop
<1>2. \A c : Good(c)' <=> Good(c)
  BY DEF Good, Vetted
<1> QED
  BY <1>1, <1>2 DEF IInv, Types

(* No fetch, no connection, no transport.                                  *)
LEMMA InitInv == Init => IInv
  BY EndedOK DEF Init, IInv, Types, Errors

(* Every step keeps the invariant.                                         *)
LEMMA NextInv == IInv /\ [Next]_vars => IInv'
<1> SUFFICES ASSUME IInv, [Next]_vars PROVE IInv'
  OBVIOUS
<1>1. ASSUME NEW w \in Workers, NEW u \in Items[w], StartGet(w, u) PROVE IInv'
  BY <1>1, StartGetKeeps
<1>2. ASSUME NEW w \in Workers, ReadTransport(w) \/ BuildTransport(w) PROVE IInv'
  BY <1>2, TransportKeeps
<1>3. ASSUME NEW w \in Workers, Reuse(w) PROVE IInv'
  BY <1>3, ReuseKeeps
<1>4. ASSUME NEW w \in Workers, Resolve(w) PROVE IInv'
  BY <1>4, ResolveKeeps
<1>5. ASSUME NEW w \in Workers, Dial(w) PROVE IInv'
  BY <1>5, DialKeeps
<1>6. ASSUME NEW w \in Workers, NoReply(w) \/ \E r \in Responses[w] : Reply(w, r)
      PROVE  IInv'
  BY <1>6, ReplyKeeps
<1>7. ASSUME NEW w \in Workers, Classify(w) PROVE IInv'
  BY <1>7, ClassifyKeeps
<1>8. ASSUME NEW w \in Workers, Consume(w) PROVE IInv'
  BY <1>8, ConsumeKeeps
<1>9. ASSUME NEW w \in Workers, SinkFails(w) PROVE IInv'
  BY <1>9, SinkKeeps
<1>10. ASSUME NEW w \in Workers, Close(w) PROVE IInv'
  BY <1>10, CloseKeeps
<1>11. ASSUME NEW w \in Workers, EndFetch(w) PROVE IInv'
  BY <1>11, EndKeeps
<1>12. CASE UNCHANGED vars
  <2>1. \A c : Good(c)' <=> Good(c)
    BY DEF Good, Vetted
  <2> QED
    BY <1>12, <2>1 DEF IInv, Types, vars
<1> QED
  BY <1>1, <1>2, <1>3, <1>4, <1>5, <1>6, <1>7, <1>8, <1>9, <1>10, <1>11, <1>12,
     DropKeeps DEF Next

(* A request is sent by Reuse or Dial only.                                *)
LEMMA SentSteps ==
  ASSUME IInv, Next, NEW w \in Workers,
         fetch'[w].at = "sent", fetch[w].at # "sent"
  PROVE  Reuse(w) \/ Dial(w)
<1>1. fetch \in [Workers -> Fetches]
  BY DEF IInv, Types
<1>2. ASSUME NEW v \in Workers, NEW g, fetch' = [fetch EXCEPT ![v] = g]
      PROVE  v = w /\ g.at = "sent"
  BY <1>1, <1>2
<1>3. ASSUME NEW v \in Workers, NEW err, Fails(v, err) PROVE FALSE
  BY <1>2, <1>3 DEF Fails, Ended, NoFetch
<1>4. ASSUME NEW v \in Workers, NEW u \in Items[v], StartGet(v, u) PROVE FALSE
  <2> DEFINE h == [NoFetch EXCEPT !.at = "transport", !.item = u, !.url = u]
  <2>1. fetch' = [fetch EXCEPT ![v] = Ended("bad-url")] \/ fetch' = [fetch EXCEPT ![v] = h]
    BY <1>4 DEF StartGet
  <2>2. h.at # "sent" /\ Ended("bad-url").at # "sent"
    BY DEF Ended, NoFetch
  <2> HIDE DEF h
  <2> QED
    BY <1>2, <2>1, <2>2
<1>5. ASSUME NEW v \in Workers, ReadTransport(v) \/ BuildTransport(v) PROVE FALSE
  <2>1. PICK l \in {"transport", "build", "send"}, x \in Workers \cup {NoTransport} :
          fetch' = [fetch EXCEPT ![v] = [fetch[v] EXCEPT !.at = l, !.via = x]]
    BY <1>5, TransportStep DEF IInv
  <2>2. fetch[v] \in Fetches
    BY <1>1
  <2>3. [fetch[v] EXCEPT !.at = l, !.via = x].at # "sent"
    BY <2>2 DEF Fetches
  <2> QED
    BY <1>2, <2>1, <2>3
<1>6. ASSUME NEW v \in Workers, Reuse(v) \/ Dial(v) PROVE Reuse(w) \/ Dial(w)
  <2>1. \A x \in Workers : x # v => fetch'[x] = fetch[x]
    BY <1>1, <1>6 DEF Reuse, Dial, Fails
  <2> QED
    BY <1>6, <2>1
<1>7. ASSUME NEW v \in Workers, Resolve(v) \/ NoReply(v) PROVE FALSE
  BY <1>1, <1>3, <1>7 DEF Resolve, NoReply, Fetches
<1>8. ASSUME NEW v \in Workers, NEW r, Reply(v, r) PROVE FALSE
  BY <1>1, <1>8 DEF Reply, Fetches
<1>9. ASSUME NEW v \in Workers, Classify(v) PROVE FALSE
  <2>1. Redirected(fetch[v]).at # "sent"
    BY DEF Redirected, Ended, NoFetch
  <2>2. fetch' # [fetch EXCEPT ![v] = Redirected(@)]
    BY <1>1, <2>1
  <2>3. ~ fetch' = [fetch EXCEPT ![v].at = "head", ![v].url = NoUrl, ![v].hop = 0]
    BY <1>1 DEF Fetches
  <2> QED
    BY <1>3, <1>9, <2>2, <2>3 DEF Classify
<1>10. ASSUME NEW v \in Workers, Consume(v) PROVE FALSE
  <2>1. fetch[v] \in Fetches
    BY <1>1
  <2>2. ReadHead(v).at # "sent"
    BY <2>1 DEF ReadHead, Ends, Fetches
  <2>3. \A g \in SvgRootCheck(v) : g.at # "sent"
    BY <2>1 DEF SvgRootCheck, Ends, Fetches
  <2>4. \A refused \in BOOLEAN : ReadTail(v, refused).at # "sent"
    BY <2>1 DEF ReadTail, Ends, Fetches
  <2> QED
    BY <1>2, <1>10, <2>2, <2>3, <2>4 DEF Consume
<1>11. ASSUME NEW v \in Workers, SinkFails(v) PROVE FALSE
  BY <1>1, <1>11 DEF SinkFails, Fetches
<1>12. ASSUME NEW v \in Workers, EndFetch(v) PROVE FALSE
  <2>1. fetch' = [fetch EXCEPT ![v] = NoFetch]
    BY <1>12 DEF EndFetch
  <2>2. NoFetch.at # "sent"
    BY DEF NoFetch
  <2> QED
    BY <1>2, <2>1, <2>2
<1>13. ASSUME NEW v \in Workers, Close(v) PROVE FALSE
  <2> DEFINE g == [NoFetch EXCEPT !.at = "transport", !.item = fetch[v].item,
                                  !.url = fetch[v].item]
  <2>1. (\E err : Fails(v, err)) \/ fetch' = [fetch EXCEPT ![v] = g]
    BY <1>13 DEF Close
  <2>2. g.at # "sent"
    BY DEF NoFetch
  <2> HIDE DEF g
  <2> QED
    BY <1>2, <1>3, <2>1, <2>2
<1>14. ~ Drop
  BY DEF Drop
<1> QED
  BY <1>4, <1>5, <1>6, <1>7, <1>8, <1>9, <1>10, <1>11, <1>12, <1>13, <1>14 DEF Next

(* A request that is sent was permitted before.                            *)
LEMMA SentInPolicy ==
  ASSUME IInv, IInv', Next, NEW w \in Workers,
         fetch'[w].at = "sent", fetch[w].at # "sent"
  PROVE  LET u == fetch[w].url
             conn == fetch'[w].conn
         IN  /\ ValidateURL(u) = "none"
             /\ fetch[w].hop <= MaxRedirects
             /\ conn.host = u.host
             /\ \E ips \in Answers[conn.host.name] :
                  conn.ip \in ToSet(ips) /\ ToSet(ips) \subseteq Public
<1>1. Reuse(w) \/ Dial(w)
  BY SentSteps
<1>2. fetch[w] \in Fetches /\ fetch \in [Workers -> Fetches] /\ FetchOK(fetch[w])
  BY DEF IInv, Types
<1>3. fetch[w].at \in {"send", "dial"}
  BY <1>1 DEF Reuse, Dial
<1>4. ValidateURL(fetch[w].url) = "none" /\ fetch[w].hop <= MaxRedirects
  BY <1>2, <1>3 DEF FetchOK, Requesting, Permitted
<1>5. fetch'[w].conn.host = fetch[w].url.host
  <2>1. CASE Reuse(w)
    BY <1>2, <2>1 DEF Reuse, Fetches
  <2>2. CASE Dial(w)
    <3>1. CASE fetch' = [fetch EXCEPT
                    ![w].at = "sent", ![w].ips = <<>>,
                    ![w].conn = [host |-> fetch[w].url.host,
                                 ip |-> Head(fetch[w].ips), via |-> fetch[w].via]]
      BY <1>2, <3>1 DEF Fetches
    <3>2. CASE fetch' = [fetch EXCEPT ![w].ips = Tail(@)]
      <4>1. fetch'[w].at = fetch[w].at
        BY <1>2, <3>2 DEF Fetches
      <4> QED
        BY <4>1
    <3>3. CASE \E err : Fails(w, err)
      <4>1. fetch'[w].at = "ended"
        BY <1>2, <3>3 DEF Fails, Ended, NoFetch
      <4> QED
        BY <4>1
    <3> QED
      BY <2>2, <3>1, <3>2, <3>3 DEF Dial
  <2> QED
    BY <1>1, <2>1, <2>2
<1>6. Good(fetch'[w].conn)
  <2>1. FetchOK(fetch[w])'
    BY DEF IInv
  <2> QED
    BY <2>1 DEF FetchOK, Connected, Good, Vetted
<1>7. PICK list \in Answers[fetch'[w].conn.host.name] :
        /\ ToSet(<<fetch'[w].conn.ip>>) \subseteq ToSet(list)
        /\ ToSet(list) \subseteq Public
  BY <1>6 DEF Good, Vetted
<1>8. fetch'[w].conn.ip \in ToSet(<<fetch'[w].conn.ip>>)
  BY DEF ToSet
<1> QED
  BY <1>4, <1>5, <1>7, <1>8

(* The invariant holds in every state: there is no way around the policy.  *)
THEOREM Invariant == Spec => []IInv
<1>1. Init => IInv
  BY InitInv
<1>2. IInv /\ [Next]_vars => IInv'
  BY NextInv
<1> QED
  BY <1>1, <1>2, PTL DEF Spec

(* A request is sent only to an address that passed the policy, at most    *)
(* MaxRedirects hops away, over a connection made for its host to one of a *)
(* list of addresses that were all public (client.go, Get, dialTLS).       *)
THEOREM PolicyCorrect == Spec => RequestsInPolicy
<1> DEFINE Policy == \A w \in Workers :
     fetch'[w].at = "sent" /\ fetch[w].at # "sent" =>
       LET u == fetch[w].url
           conn == fetch'[w].conn
       IN  /\ ValidateURL(u) = "none"
           /\ fetch[w].hop <= MaxRedirects
           /\ conn.host = u.host
           /\ \E ips \in Answers[conn.host.name] :
                conn.ip \in ToSet(ips) /\ ToSet(ips) \subseteq Public
<1>1. ASSUME IInv, IInv', Next PROVE Policy
  BY <1>1, SentInPolicy
<1>2. IInv /\ IInv' /\ [Next]_vars => [Policy]_vars
  <2> HIDE DEF Policy
  <2> QED
    BY <1>1
<1>3. RequestsInPolicy <=> [][Policy]_vars
  BY DEF RequestsInPolicy
<1> HIDE DEF Policy
<1> QED
  BY <1>2, <1>3, Invariant, PTL DEF Spec

(* What the invariant says of one fetch is what the properties say.        *)
LEMMA ClosingTrue ==
  ASSUME IInv, NEW w \in Workers, fetch[w].at = "close"
  PROVE  /\ Truthful(fetch[w]) /\ (fetch[w].err = "none" => Whole(fetch[w]))
         /\ LongProlog(w) <=> LongSvg(Body(w))
  BY DEF IInv, FetchOK, LongProlog, LongSvg

(* An accepted image is whole: the sink has all of it, as long as declared *)
(* and of the declared type; and it is within the cap, or an SVG with a    *)
(* long prolog of one byte more (image.go, ConsumeBody).                   *)
THEOREM WholeCorrect == Spec => []AcceptedWhole
<1>1. IInv => AcceptedWhole
  BY ClosingTrue DEF AcceptedWhole, Whole, Body
<1> QED
  BY <1>1, Invariant, PTL

(* A refusal is true of the image, but for an SVG with a long prolog       *)
(* (image.go, ConsumeBody, svgRootCheck, capReader).                       *)
THEOREM RefusalsCorrect == Spec => []RefusalsAreTrue
<1>1. IInv => RefusalsAreTrue
  BY ClosingTrue DEF RefusalsAreTrue, Truthful, Body
<1> QED
  BY <1>1, Invariant, PTL
=============================================================================
