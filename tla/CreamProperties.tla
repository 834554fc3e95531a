-------------------------- MODULE CreamProperties --------------------------
(* What is claimed of the server. *)
EXTENDS Cream

Operations == {r.op : r \in Requests \cup {NoRequest}}
Codes == {"none", "OK", "NOT_FOUND", "BAD_REQUEST", "UNSUPPORTED"}
Phases == {"dequeue", "read", "check", "put", "get", "getting", "evict", "evicting",
           "clear", "answer", "value", "close"}

\* The types of what the server adds to the queue and the map.
TypeOK ==
    /\ phase \in [Workers -> Phases]
    /\ connfd \in [Workers -> Fds \cup {NoFd}]
    /\ request \in [Workers -> Requests \cup {NoRequest}]
    /\ sawFull \in [Workers -> BOOLEAN]
    /\ block \in [Workers -> Values \cup {NoVal}]
    /\ code \in [Workers -> Codes]
    /\ fdOf \in [Conns -> Fds \cup {NoFd}]
    /\ owner \in [Fds -> Conns \cup {NoConn}]
    /\ blocks \subseteq Values
    /\ holds \in [Values -> [conn : Conns \cup {NoConn}, key : Keys \cup {NoKey}]]
    /\ dead \in {"no", "exit", "free", "overrun"}
    /\ answers \in [Conns -> Nat]
    /\ latest \in [Keys -> Conns \cup {NoConn}]
    /\ disturbed \subseteq Workers
    /\ overrun \in BOOLEAN

\* The queue has handed out no connection twice.
EachHandedOutOnce ==
    \A i, j \in DOMAIN delivered : delivered[i] = delivered[j] => i = j

Serving(w) == phase[w] # "dequeue"

\* As long as the queue hands each connection out once, a worker reads from,
\* writes to and closes the connection it took and no other, although
\* descriptors are closed by one thread and given out again to another.
WorkersOwnTheirDescriptors ==
    EachHandedOutOnce => \A w \in Workers : Serving(w) => OpenFor(w) = got[w]

\* As long as the queue hands each connection out once, a connection gets one
\* response header, and is closed by the server only after it.
OneAnswerEach ==
    EachHandedOutOnce =>
        \A c \in Conns : /\ answers[c] <= 1
                         /\ c <= made /\ (\A f \in Fds : owner[f] # c) => answers[c] = 1

\* A well-formed PUT is refused only when another worker wrote the map after
\* this one had asked whether it is full.
RefusedOnlyInRace == [][\A w \in Workers : PutRefused(w) => w \in disturbed]_vars

\* As long as no entry has been evicted, a key whose last PUT was neither
\* cleared nor displaced is found, with the value of that PUT: the bytes of a
\* block that is in the map are never freed or overwritten.
LastPutIsFound ==
    (\A s \in H!Slots : ~nodes[s].tombstone) =>
        \A k \in Keys : latest[k] # NoConn =>
            /\ H!SlotOf(k) # H!NoSlot
            /\ holds[nodes[H!SlotOf(k)].val].conn = latest[k]

\* A GET during which no other worker wrote the map sends a value that came
\* with its own key, until its last byte.
QuietGetSendsItsKey ==
    \A w \in Workers :
        phase[w] \in {"answer", "value"} /\ request[w].op = "get" /\ code[w] = "OK"
            /\ w \notin disturbed
        => holds[block[w]].key = request[w].key

\* What a client is sent for a GET, until some client has sent a key or a value
\* longer than the block it is read into, which malloc was asked four bytes for
\* (cream.c:114-115, 159, 194): the last PUT of a key is what the search meets, and
\* what it met is still there when its bytes are written.  After that the bytes of
\* any value may have been overwritten, and nothing is claimed.
GetSendsLastPut == ~overrun => LastPutIsFound /\ QuietGetSendsItsKey

\* The workers use the map as its specification expects: among others, a block
\* handed to put is never one that the map still holds.  So what is proved of
\* the map for any of its users holds inside the server.
RefinesHashMap == H!Spec

=============================================================================
