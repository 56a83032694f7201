# IPK24-CHAT in TLA+

A formal model of the two programs of this repository, the chat client (`src/proj1`) and the chat
server (`src/proj2`) for the IPK24-CHAT protocol, with the properties they should have, TLC runs that
check them on small instances, and TLAPS proofs for instances of any size.

## 1. Inventory

| component | source | state | operations | how it interacts |
|---|---|---|---|---|
| channels and channel list | proj2 `socket.c/h` | `Channel_list` (names, count), `Channel` (entries, count), 2 mutexes each | `add_client`, `remove_client_from_channel`, `create_channel`, `send_all` | called by every handler thread |
| TCP connection handler | `handle_tcp.c`, `tcp_receiver.c` | per thread: client state, current channel, display name | AUTH, JOIN, MSG, BYE, unknown, end of connection, C-c; `send_bye_to_all` | one thread per connection, shares channels and buffer |
| UDP handler | `handle_udp.c`, `udp_receiver.c`, `udp_setup.c` | list of `UDP_User` records, each with a socket, a port, an id and a channel; `current_user` | `add_user`, `get_user`, dispatch by opcode, `remove_udp_user` | one thread for all UDP clients |
| shared message | `converter.c` | `shared_msg` | `get_udp_msg` | written by all threads, read by `send_all`, no mutex |
| listener, lifecycle | `tcp_listener.c`, `socket.c`, `ipk.c` | `enable_listening`, pipe, thread ids | start of the UDP thread, pipe, accept, SIGINT handler, join, free | starts the handlers, C-c reaches them through flag and pipe |
| UDP client | proj1 `udp*.c` | `present_state`, `messageID`, `messageConfirmed`, `needReply`, retry counter and timer | a line of the user, a datagram, a retransmission, C-c, end of input | stop-and-wait with the server over UDP |
| TCP client | proj1 `tcp*.c` | `TCPpresent_state`, `gotReply`, the lines `fgets` has read ahead | a line of the user, a message, C-c, end of input | one connection with its handler, over two streams that merge messages |
| command lines, tests | `ipk.c` of both, `*.py` | none of the protocol | parse options; drive the programs | not modelled |

What is hard here, and what makes each part correct:

* **Channels**: threads interleave at every lock and at every entry of every loop. Names stay unique,
  nobody is lost or doubled by shifting entries down, no mutex is left locked, a broadcast sees one channel.
* **Handlers**: each handles a message in several steps (remove, announce, create, add, answer), other
  threads and C-c come between them. Between messages a client is in the one channel it was told it is in.
* **Shared message**: what is sent must be what its sender put there. It is not (section 7).
* **Shutdown**: everybody gets BYE, and the pass over the channels ends. Neither is so; whoever stays in
  a channel gets it (`ByeToAllWhoStay`), and section 7 shows how the pass may not end.
* **UDP users**: datagrams of many clients come in any order, repeated, from clients that start again on
  the same port, while records and descriptors are used again. No user may get another's record, socket,
  answers or channel entry.
* **TCP connection**: both ends look only at the beginning of what a `recv` returns, and each keeps the
  state of the session for itself. The states must agree, the REPLY must be the right one.
* **Start and end of the server**: four kinds of threads start and stop in orders nobody tests; C-c may
  come before the pipe, before `accept`, or twice. It must end the server, and nothing may be freed early.
* **UDP client**: datagrams are lost, repeated, late and out of order, retransmissions race their
  confirmations, a line and a datagram are handled in one turn of the loop. The lock on the input must
  tell the truth and must be taken back.

`PROJECT.json` lists these hazards at their lines, with the properties that cover them, or why none does.

## 2. Modules

```
ChannelStore ──> ChatServer ──> ChatProperties ──> ChatInvariant ──> MCChat        (runs chat_*, ...)
     │               │               └── ChatRooms (INSTANCE)  └───┐
ChannelStore_proof ─> ChatServer_proof ──────────────────> ChatInvariant_proof ──> ChatRooms_proof
                                                                                   (theorems)
UdpClient ──> UdpClientProperties ──> MCUdpClient                                  (runs client_*)
                     ├── StopAndWait (INSTANCE)
                     └── UdpClient_proof                                           (theorems)
TcpStream ──> TcpClient  ──┐
         └──> TcpHandler ──┴─> TcpSession ──> TcpSession_proof                     (run tcp_session, theorems)
UdpUsers ──> MCUdpUsers                                                            (run udp_users)
         └── UdpUsers_proof                                                        (theorems)
Lifecycle ──> Lifecycle_proof                                                      (run lifecycle, theorems)
```

| module | models |
|---|---|
| `ChannelStore` | a channel's entry array as a value, adding and removing a client as functions on it |
| `ChatServer` | the server: threads, handlers, mutexes, the channel list, the shared message, C-c, death of the process |
| `ChatRooms` | abstract: every admitted client is in at most one room, rooms are only opened |
| `ChatProperties` | properties of the server, fairness, the refinement of `ChatRooms` |
| `ChatInvariant` | the inductive invariant `Inv` |
| `ChannelStore_proof`, `ChatServer_proof`, `ChatInvariant_proof` | lemmas about channels; types of every step; theorems about what the threads share |
| `ChatRooms_proof` | theorems about clients and their channels: the refinement of `ChatRooms`, the shutdown pass |
| `UdpClient` | the loop of `run_udp`, its user, the network, a server |
| `StopAndWait` | abstract: the next message is sent when the last has arrived |
| `UdpClientProperties` | properties of the client, fairness, the refinement of `StopAndWait` |
| `TcpStream` | a TCP connection: two streams of messages, and what one `recv` may return |
| `TcpClient` | the loop of `run_tcp` with `parse_commandTCP`, its user and its terminal or pipe |
| `TcpHandler` | `handle_tcp` and the parser for one connection, and what the rest of the server does to it |
| `TcpSession` | a client and its handler composed over the stream; properties of the two together, fairness |
| `UdpUsers` | the list of UDP users and the select loop of `udp_handler`, with clients and a network |
| `Lifecycle` | main thread, UDP thread, handlers, pipe and signal handler from start to end; its properties |
| `TcpSession_proof`, `UdpUsers_proof`, `UdpClient_proof`, `Lifecycle_proof` | the inductive invariants of these four models and the theorems about them |
| `MCChat`, `MCUdpClient`, `MCUdpUsers` | values of the constants for TLC |

`ChatServer`, `TcpHandler`, `UdpUsers` and `Lifecycle` look at one server from four sides. `ChatServer`
has the steps of threads on shared structures, and takes messages as they come. `TcpHandler` has one
connection's order of messages and answers, and takes the other threads as `OthersSay` and
`send_bye_to_all`. `UdpUsers` has what only the UDP thread touches, so a turn of its loop is one step.
`Lifecycle` has the order of starting and ending, and takes a handler as something that runs and ends.

Definitions named `X_something` after a definition `X`, under a comment that starts with "Variant",
are plausible mistakes; no behaviour uses them. They are there to show that a property notices them.

## 3. How the server model corresponds to the code

**Threads and calls.** A thread of `ChatServer` is a TCP connection (`handle_tcp`) or the UDP thread
(`udp_handler`). When it receives a message, `Handle` puts the calls its handler makes for it, in the
code's order, into `script[t]`. The steps of `Step(t)` work them off. A call on a channel is
`LockOuter`, `LockInner`, its body, and the unlocking with the return: the body of `send_all` is one
step per entry (`SendNext`), the search in `create_channel` one step per channel (`NameDiffers`), the
other bodies are one step, because both mutexes are held and nothing else they touch is shared.
`get_udp_msg` is two steps (clear, write), because nothing protects it. `idx[t]` is the loop variable.

**Order of locks.** `Outer` and `Inner` give the mutexes of a call in its own order; `send_bye_to_all`
takes the two of a channel the other way round, and the list's two before them.

**State.** `channels` and `chan` are the list and its channel structures (an unused `chan[k]` is a
channel not yet allocated). `cur[c]` is the current channel, by position (a local variable of
`handle_tcp`, `UDP_User.channel`; 0 for a pointer never set). `client_state`, `named` (the display name
is set), `channel_name` and `who` (`current_user`) are the handlers' variables. `shared` is the shared
message: blank, or who joined, left or said something.

**Undefined behaviour.** A UDP record is `malloc`ed: `Record` gives it unset fields or those of any user
who left. The entries of a new channel are uninitialised; their flags are taken as FALSE, the value a
fresh block has. `MustDie` and `MayDie` say when the process must or may end.
* An unset pointer is followed, a send of a broadcast fails, a display name was never set.
* A TCP client takes over the entry of a UDP user with its flag and its address (`Entry`), which the removal
  of either frees (socket.c:281). `Slot.udp_address` is whose address it is, unset once freed (`Freed`); the
  removal that frees it again may end the process (`FreesTwice`). Where it does not, the model goes on with
  a sound heap; that another `malloc` may have got the block meanwhile is not followed.
* `create_channel` does not look at the length of the array. The 101st channel (`LastChan`) is made, its
  pointer written over `num_of_channels`, which then is the pointer's low 32 bits (`Overrun`). The process
  goes on. If the count is negative a loop over the list visits nothing, and a search that did so stores its
  new channel gigabytes before the array, which faults. If not, a loop visits the channels there are and faults
  behind them. The sign is chosen anew by each loop, which has more behaviours than the program.

A `malloc` that returns NULL is not modelled. `add_client` returns in three places with an unlocking of its
own in each: `AlreadyListed`, `ChannelFull`, `ClientAdded`.

**Abstractions.** One `recv` is one message. The answers to a thread's own client that follow each other
are one call. The loop's check of `enable_listening` and the `recv` after it are one step, which commutes
with all others. The pass's work on one channel is one step, because it holds both mutexes. A TCP `ERR`
changes nothing and has no action. An AUTH with too few words is not modelled. Texts are values.

## 4. How the client model corresponds to the code

One turn of the loop is `Check` (the condition), `Select`, a line (`Read...`), a datagram (`Got...`),
the timer (`Resend` or `NoResend`); `pc` says where it is. Each `Got...` contains what the code does
after every datagram: `MustWait` (udp.c:263), the test for used-up retransmissions and the BYE of state
ERROR (`Ends`, udp.c:343-355). C-c (`close_udp`) may come before every step; at `select` it either
interrupts the call or comes just before it. `Close` is the code after the loop.
A retransmission is the same datagram to the server of the model; in the code it is one byte shorter, the last zero being left out (`message_length`,
udp.c:368, against one more at udp.c:232), and a typed BYE has two bytes then.

Ids are as in the code: `messageID` is a number below `Word` (65536), only its low byte (`Byte`, 256) is
sent, in a CONFIRM too (`Wire`, `send_confirm`), and `Signed` is how a received byte is read back. `conf` and `sent_opcode` are uninitialised at the
start, so they may have any value.

The user types lines of the kinds in `Lines`, at most `MaxLines`. The network keeps datagrams in sets:
they overtake each other; with `Duplicating` they may stay after they arrived; with `Lossy` they may be
lost when sent (without it a datagram may still never arrive, which is the same for safety). Two equal
datagrams on their way are one. With `Ordered` the server waits until its last datagram has arrived.
The server (external: IPK24-CHAT as the client uses it) confirms what it gets, answers each request once,
resends a REPLY until it is confirmed (`Resends`), and says what is in `Says`, at most `MaxSaid` times.

## 5. How the other models correspond to the code

**`TcpSession`.** `pc` of the client is where it is in a turn of the loop: the condition (`Check`,
`Leave`), `Select`, a line (`Read...`), what the server sent (`Got...`). An ERR or an unknown message
takes the client through state ERROR and the BYE after it (tcp.c:340) in the same step. `Fetch` is `fgets`:
from a terminal it returns a line, from a pipe it reads all that is there, and what it read ahead
(`buffered`) `select` does not see. C-c is `close_tcp`, before any step, or `Interrupted`, in `select`.
The handler receives (`Receive`) and puts what it does about the message, in the code's order, into
`todo`; `Proceed` works it off. `listed` is whether the client has an entry in a channel. A `recv` on either
side returns any number of messages from the front (`Batches`), and both programs treat them as the first,
whose text the others become: `Parses` says when the words still add up, `Alone` when BYE is still known.
Messages are not split (they are sent by one `send` and are short). A request carries its number, and so
does its REPLY, which is not in the protocol: `RightReply` needs it. `Exit` and `Broken` are the end of one
process as the other sees it.

**`UdpUsers`.** `users` is the list, `room` the descriptors in each channel, `freed` what the records that
were freed still hold; a new record holds that or nothing. `num_clients` is never
set in the code; the list starts empty, as it does in memory fresh from the system. `dynamic_port` is drawn from a counter
(`born`): a port that was given out is not given out again within a run. `dyn_socket` is any descriptor
that is not open. `Read` is how an id is read back. `OnDynamic` and `OnDefault` are a turn of the loop for a
datagram on either socket; a datagram on a dynamic socket that is overwritten by one on the default socket
is lost, which the network does anyway, since a sent datagram need never come. `NoUser` is the end of the
process by an overrun list or a dynamic socket that cannot be bound. A client sends AUTH or BYE first,
goes on to where it was answered from (`Hears`), and may start again on its port (`Restart`). A broadcast
to anybody ends the process (`Alone`, section 7), so two UDP users live side by side only in different
channels. The parser's error code is JOIN's opcode
(`Refused`).

**`Lifecycle`.** `main` is the call the main thread makes next, `udp` the same for the UDP thread. The
UDP thread is started before the pipe: `watches` is the descriptor its `select` was called with, 0 until
there is a pipe, so that the standard input is taken for it. `GotStdin` is what it being readable does: there is no
pipe yet, and the thread goes to its BYE pass; there is one by now, and the cleared buffer is handled as a
datagram, a CONFIRM of the current user if some datagram came before (`heard`), and an error if none did.
`stop_listening` writes to the
pipe and closes it; the number may then be given to a connection (`taken`). `tid` is the last thread
started, 0 if none, the one the main thread joins. `Killed` is C-c before `sigaction`. The signal is
handled by the main thread, which is the one that Linux gives it to; at `main = "accept"` it comes either
before the call, which then waits as if nothing had happened, or in it (`Wakes`).

## 6. Runs that pass

| run | instance | shows |
|---|---|---|
| `chat_mixed` | a TCP client and two UDP clients, 2 channels | `RightRoom`, `Departed`, refinement of `ChatRooms` |
| `chat_rough` | messages in every state, connections dropped, a list that is overrun, C-c at any moment | `TypeOK`, `HoldersWork`, `ListedOnce`, `MembersStable` |
| `chat_shutdown` | 2 TCP clients, C-c at any moment | the inductive invariant `Inv`, `ListFrozen`, `ByeToAllWhoStay` |
| `chat_live` | 2 TCP clients, room for one client in a channel and for one channel, fair threads | `UniqueNames`; `Answered`: every message taken is finished with |
| `tcp_session` | every kind of line, 4 lines, pasted or piped; C-c on both sides; merged messages | `RightReply`, `NeverRefused`, `UnlocksAgain`, `ByeTakesOut` |
| `udp_users` | 3 clients (one on another host), 2 descriptors, a list of 2, 4 datagrams that may be repeated and late, 3 users made | `UsersDistinct`, `EntriesOwned`, `RightAnswer`, `Undisturbed` |
| `lifecycle` | 3 connections, 2 C-c | `FreedLast`, `OneLateAtMost`, `ShutdownEnds` |
| `client_net` | repeated, late, lost, reordered datagrams; retransmissions; 2 lines, a chat message | `ConfirmedMeansDelivered`, `OpenMeansAccepted`, refinement of `StopAndWait` |
| `client_ends` | every line, every message, C-c; datagrams at most once | `ReplyIsForRequest` |
| `client_calm` | delivery in time and in order, a server that only confirms and answers; 3 lines | `UnlocksAgain` |

**Bounds.** In the server's runs two or three clients are enough for one that changes, one that reads and
one that waits (what holds the shared structures together is proved for any number, section 8); two
channels for one left and one entered. `MaxUsers` is at least the number of clients but in `chat_live`, where
the second client of a channel finds it full (`RightRoom` would fail there, section 7).
`MaxChannels = 1` makes the second channel overrun the list in `chat_rough` and `chat_live`; `chat_live` has a
third name, for what comes after it. `chat_rough` leaves out MSG and ERR, which take the branches of JOIN, when
it is refused, and of an unknown message there; `chat_mixed` has them. In the client, two lines are enough
for a message and its predecessor, whose late CONFIRMs and REPLYs are what can be mistaken; `Retry = 2` leaves a retransmission after the first (with
1, the next datagram ends the program). `Byte = 4` and `Word = 6` in `client_net` and `client_ends` keep
the ids of two messages in the lower half of a byte, where the client works, and leave `conf` values
no id has. In `tcp_session` four lines are AUTH, JOIN, a message and BYE, or two requests with lines read
ahead, and one message of others (`MaxSaid`) is what a REPLY can be merged with. In `udp_users` a list of 2
is filled and overrun by 3 clients, 3 users made are two and one in the place of one who left, and 4
datagrams are AUTH and JOIN of one client, AUTH of another and one more of either, each repeated at will; `Byte = 10` keeps the ids in the lower
half of a byte. Ids from half a byte on, and ids that come round, are met by no run of either UDP model; the
theorems of section 8 have them, all but that about `RightAnswer`. In `lifecycle` 3 connections are one before the last, the last and one after C-c; 2 presses
are one that works and one that does not.

**`VIEW Essential`** (server runs) leaves out the text of the shared message, and of the channels' entries all but the
sockets in use. No property of those runs reads more, and one guard does: `FreesTwice`, by which a removal may
end the process. A run under `VIEW` may miss such an end, in which only `server` changes: each of
these properties speaks of a process that is up, or cannot be broken by its ending.
`SYMMETRY` permutes clients (and descriptors); it is used in runs without liveness only.

**Fairness.** A thread that can go on does (`WF` on `Step`, `LockInner` and a certain death): threads are
scheduled. `SF` on `LockOuter` says that a thread waiting for a mutex that is free again and again gets
it in the end; POSIX does not promise that for default mutexes, it is an assumption about the scheduler,
and `Answered` rests on it. A TCP client or a user need not do anything. For the client: its process
runs, a datagram on its way arrives in the end (`SF` on `Select(TRUE)`: the client may pass through
`select` before it has), a timeout ends, the server confirms and answers. In `tcp_session` the two loops run
(`WF`) and what was sent arrives in the end (`SF` on `Select(TRUE)`); the user and the other threads need
not do anything. In `lifecycle` the threads run, a `select` that watches the pipe returns when it was written
to (`SF` on `GotPipe`: datagrams may keep coming, but the pipe stays readable and is looked at first), and a
handler sees C-c (its socket does not block). That connections or datagrams come, or that the BYE pass ends,
is not assumed: the last is false (`bye_after_sigint`). So `ShutdownEnds` is stated with what is left when
none of them does: C-c leads to the joins, the free and the return of main, unless the server is held up for
ever (`<>[]HeldUp`: in `accept` without a connection, in a `select` that watches the wrong descriptor, in the
pass), or ends early (`EndsEarly`: a second C-c writes to the closed pipe, the thread that is joined was
never started, the standard input is taken for a datagram).

`UnlocksAgain` and `ByeTakesOut` of `tcp_session` are stated with their way out: a `recv` that merged
messages (`merged`), C-c at the server, the end of the other side. The first two are where the code does not
keep the promise (section 7); with `Coalescing = FALSE` `merged` stays FALSE.

**Deadlock** is checked everywhere but in `chat_shutdown` and `chat_rough`, where the program really stops
(the run `bye_after_sigint` shows how), and in `udp_users`, where the server may die and clients stop after
`MaxSent` datagrams. `Quiet` marks the states where everybody rightly waits.

## 7. What the repository says and the code does not do

Two runs check a statement of the repository that TLC finds violated. `PROJECT.json` quotes it.

| run | statement | what happens |
|---|---|---|
| `bye_after_sigint` | C-c: BYE to all, end | locks taken in opposite orders: the pass and a handler wait for each other |
| `shared_race` | forwards this message | another thread has written over the shared buffer |

Other statements the code does not keep. They were met while the models were written, are faithfully in
them, and each is reached by a short, plain schedule, so none has a run of its own. Where a passing
property would meet one, its run's bounds or kinds of messages say so.

| source | statement | what happens |
|---|---|---|
| proj2 `README.md:37` | C-c: BYE to all users in all channels | a client between two channels, or not yet in one, gets none (`handle_tcp.c:234`) |
| `handle_tcp.c:99`, `:118` | JOIN announces "left" and "joined" | it sends what the buffer last held |
| `socket.h:27` | `udp_client`: uses UDP | a TCP client inherits the flag of the entry's last user, and with it the address that was freed: removing it frees it again |
| proj2 `README.md:35` | AUTH and JOIN put the client into the channel | a full channel ignores it (`socket.c:231`); the client is in none and was told OK |
| proj2 `README.md:35` | JOIN makes a new channel | the 101st is written over the list's counter, and the server goes on (`socket.c:332`) |
| `handle_udp.c:259` | the message is sent to all users | the address length is that of a pointer (`socket.c:249`): `sendto` fails, the server exits |
| `handle_udp.c:265` | the branch for JOIN | the parser's error code equals JOIN's opcode: a second AUTH runs it |
| proj2 `README.md:35` | users of a channel are told who comes | a UDP JOIN tells nobody in the new channel |
| proj1 `README.md:36` | the CONFIRM is compared with `messageID` | from id 128 on it is read back sign-extended (`udp_receive.c:27`) |
| proj1 `README.md:36` | unlocked by the REPLY to this request | with repeated datagrams, the REPLY to an earlier one does it |
| proj1 `README.md:36` | confirmed and answered: the input is unlocked | a chat message, or a repeated CONFIRM, after the REPLY to the last AUTH or JOIN locks it for ever (`udp.c:263`) |
| proj1 `README.md:36` | ids are unique | a typed BYE has id 0 |
| proj1 `README.md:38` | not confirmed after the last try: end | `select` has no timeout; and a CONFIRM after the last try ends the program |
| `udp.c:197` | end of input: BYE, end | BYE waits for a datagram, the loop spins |
| proj1 `README.md:49` | C-c: BYE, end | unnoticed if it comes just before `select` |
| `testo.py:534-537` | BYE has the next id | it skips one |
| `testo.py:674-684` | a REPLY to a JOIN that comes without a CONFIRM before it is taken | its reference is compared with the last CONFIRM's id (`udp.c:281`): it is dropped |
| proj1 `README.md:30` | the REPLY unlocks the input | a REPLY behind a chat message in one `recv` is not seen (`tcp.c:208`): the input stays locked |
| proj1 `README.md:49` | C-c, and every end: BYE | in the TCP client C-c outside `select`, the end of the input and an empty line end it without BYE |
| proj2 `README.md:36` | BYE takes the user out of the channel | a BYE in one `recv` with what came before it is text (`handle_tcp.c:45`); without BYE the entry stays for ever |
| proj2 `README.md:29` | a dynamic port for each client | the socket is bound to the client's address: for a client on another host that fails, and the server exits (`handle_udp.c:45`) |
| proj2 `README.md:31` | the first message is AUTH | any message makes a user; what is in its record then is followed, or ends the server |
| proj2 `README.md:32` | a CONFIRM for every message | that of an ERR, an unknown or a refused message carries an earlier one's id (`udp_receiver.c:91`) |
| proj2 `README.md:37` | C-c: all resources are freed | only the last handler is waited for; the others run on in freed channels (`tcp_listener.c:120`) |
| `tcp_listener.c:25` | C-c wakes the UDP thread | not if its `select` was called before the pipe was made |
| `tcp_listener.c:76` | C-c interrupts `accept` | not if it comes just before: the server waits for one more connection |
| `tcp_listener.c:119` | waits for the thread | without a connection the thread id was never set |
| `handle_udp.c:69` | checks if the user is new | by the port alone: two hosts with one port are one user |
| `udp_command.c:178` | BYE ends the program | a REPLY in the same turn takes the state back to OPEN |

## 8. What is proved

For all numbers of clients, channels, entries and names that satisfy `StoreAssumption`,
`ServerAssumption` and `BlankAssumption` (sockets of the two kinds and the special values are distinct;
the arrays have at least one entry), whether or not channels are full or the list is overrun:

| theorem (`ChatInvariant_proof`) | statement |
|---|---|
| `InvHolds` | `Spec => []Inv` |
| `TypesHold` | `Spec => []TypeOK`: the list holds at most the one channel too many, a channel no client too many |
| `NoMutexLeaks` | `Spec => []HoldersWork` |
| `ChannelNamesUnique` | `Spec => []UniqueNames` |
| `NobodyTwice` | `Spec => []ListedOnce` |
| `BroadcastUndisturbed` | `Spec => MembersStable` |
| `ListFrozenAtShutdown` | `Spec => ListFrozen` |

**The argument.** Mutual exclusion is the core: `HoldersWork` says that who holds a mutex is in the call
that wants it, so a thread whose call has locked both its mutexes is alone in the channel or the list.
It is not inductive alone. `ListThenBye` and `ByeAfterList` say how the shutdown pass is placed in a
script, so that `ByeHoldsList`, the list's mutexes are held while the channels are visited, is kept by
the step that starts the pass. `LoopsLocked` says that a loop is under way only with both mutexes
held. `SearchSound` says that the search of `create_channel` has found every channel it passed different
from the name it looks for; at the end of the list that makes the new name different from all, which is
`UniqueNames`. `UserKnown` says that the UDP thread makes no call for a client before it has one, which
`TypeOK` needs. `ListedOnce` rests on lemmas about `AddClient` and `RemoveClient` alone
(`ChannelStore_proof`), since both keep `Distinct`. `MembersStable` and `ListFrozen` are facts about one
step from `Inv`: another thread at work in the same channel would hold a mutex the broadcast holds.
TLC checks `Inv` (run `chat_shutdown`) before it is proved.

`ChatServer_proof` shows, for each action, what types its primed variables have; the proof of `Inv` then
goes action by action and conjunct by conjunct.

| theorem (`ChatRooms_proof`) | statement | hypotheses |
|---|---|---|
| `RightRoomHolds` | `Spec => []RightRoom` | no channel is too small (`Roomy`); no UDP client sends JOIN or MSG before it is OPEN |
| `DepartedHolds` | `Spec => []Departed` | |
| `RoomsImplemented` | `Spec => ImplementsRooms` | no UDP client sends JOIN or MSG before it is OPEN |
| `ByeReachesWhoStays` | `Spec => ByeToAllWhoStay` | (in the property: the list is not overrun) |

**The argument.** A client's channel changes over several calls, between which other threads run, so the
invariant (`RoomsInv`, on top of `Inv`) speaks of the calls that are still to come for it (`ToDo`).
`Scripts` says that the calls of every handler come in an order that makes sense: who is removed is then
added, forgotten or gone, nobody is added before the removal. `InPlace` is the relation between a client's
state, its channel pointer, the channels it is in and those calls: it is in its current channel at most;
if it is not OPEN it is in none, or the removal is still to come; if nothing is to come and it is OPEN
it is in its current one. `Gone` and `Over` carry `Departed` over the end of a handler, `Listings` keeps
the pointers inside the list. Each message of each client is shown to agree with the calls it causes
(`Agrees`), each call to keep everybody in place (`Made`). Under the refinement `add_client` is Enter,
`remove_client_from_channel` Leave, the end of `create_channel`'s search Open, and every step that changes a
state Admit or Dismiss. For `ByeReachesWhoStays` three facts are added: the UDP thread ends by the pass
alone and only after C-c (`ByePass`), a channel with somebody in it is in the list (`InTheList`), and the
pass has told who stays in the channels it is past (`Told`).

Both hypotheses are needed, and are what the code does not keep (section 7): a channel that is full
ignores who joins, and a UDP client that sends JOIN or MSG too early gets into a channel without AUTH, if
its record lies where one with a channel was freed; TLC finds both when the constants of
`chat_mixed` are changed. The refinement does not need the first: who does not fit is in no room.

For any number of lines, messages and requests, with or without merged messages and C-c
(`StreamAssumption`, `TcpClientAssumption`, `TcpHandlerAssumption`: types of the constants):

| theorem (`TcpSession_proof`) | statement |
|---|---|
| `TypeCorrect` | `Spec => []TypeOK` |
| `RightReplyHolds` | `Spec => []RightReply` |
| `NeverRefusedHolds` | `Spec => []NeverRefused` |
| `NeverTakesErr` | `Spec => [][\A n \in 1 .. Len(toClient) : ~GotErr(n)]_vars` |

Its invariant `SessionInv`: one request or REPLY is under way at most, the one the client waits for, on
whichever of the two streams or in the handler's `todo` it is (`OneUnderWay`); what the client knows at
each place of its loop (`ClientLoopInv`); how the state of the one end and that of the other fit, given
what is between them (`Agree`); what may be behind what in the stream to the server (`ToServerInv`), and why
the client is told ERR or BYE (`ToClientInv`). A REPLY carries no number, so it is the first part that makes
the right one unlock the input. `NeverTakesErr` was found while `Agree` was strengthened: the handler says
ERR to what the client sends last, when its loop is over; that branch of the client waits for other servers.

For any clients, descriptors, length of the list and of the id counter, datagrams that are repeated, late
and reordered (`UsersAssumption`):

| theorem (`UdpUsers_proof`) | statement | hypotheses |
|---|---|---|
| `TypeCorrect` | `Spec => []TypeOK` | |
| `DistinctHolds` | `Spec => []UsersDistinct` | |
| `OwnedHolds` | `Spec => []EntriesOwned` | |
| `RightAnswerHolds` | `Spec => []RightAnswer` | clients have ports of their own; ids stay below half a byte |
| `UndisturbedHolds` | `Spec => Undisturbed`: a step leaves a user's record and channel entries as they are unless the datagram it handles is the user's own, and takes the user out only for BYE, ERR or an unknown message | |

Its invariant `UsersInv` adds to the first three: who stays in the list is OPEN and has a channel (`AllIn`);
dynamic ports are not given out again (`Ports`); a client knows the dynamic ports of its own users only
(`Heard`), so no datagram is on its way to another's (`OnItsWay`). The hypotheses of `RightAnswerHolds` are
where the code tells users apart by the port alone, and where it reads an id through a signed `char`.

For every `Byte` and `Word`, any number of lines, retransmissions and messages of the server, any network of
the model (`ClientAssumption`, which has `Byte <= Word` since an id is sent as a byte of the counter):

| theorem (`UdpClient_proof`) | statement | hypotheses |
|---|---|---|
| `TypeCorrect` | `Spec => []TypeOK` | |
| `ConfirmedHolds` | `Spec => []ConfirmedMeansDelivered` | |
| `InOrderHolds` | `Spec => InOrder` (refinement of `StopAndWait`) | |
| `OpenHolds` | `Spec => []OpenMeansAccepted` | |
| `ReplyHolds` | `Spec => []ReplyIsForRequest` | nothing is repeated (`~Duplicating`, `~Resends`) |

The invariant has three layers. `SendInv`: the ids of the user's messages are counted without a gap and the
server has all but the last (`Counted`), lines are read only when nothing is outstanding (`ReadsUnlocked`),
and every datagram is of a message that was sent, every CONFIRM of one that arrived. That ids do not come
round needs no hypothesis: from half a byte on an id is read back as another number, is never
confirmed, and the client does not get past the first such message. `AcceptedInv`: who is OPEN, has a JOIN under way
or is told OK was accepted. `ReplyInv`: each request is answered by one REPLY, and the client goes on only
when it has it. With repeated datagrams the last is false (section 7), which is why the run `client_ends`
and `ReplyHolds` leave them out.

For all numbers of connections and presses of C-c (`LifecycleAssumption`):

| theorem (`Lifecycle_proof`) | statement |
|---|---|
| `TypeCorrect` | `Spec => []TypeOK` |
| `OneLate` | `Spec => []OneLateAtMost` |
| `FreedAfterJoins` | `Spec => []FreedLast` |

Its invariant `IInv` adds to the types: once a late connection is accepted `accept` is not called again
(`LateOnce`), the pipe is written to only while open, hence once (`OnePipe`), handlers start in turn
(`InTurn`), and what has been joined is over when `free_channels` is called (`Joined`).

Every invariant was checked by TLC on the instances of the runs of its model, before it was proved.

**Only model-checked**: the liveness properties (`Answered`, `UnlocksAgain` of both clients, `ByeTakesOut`,
`ShutdownEnds`), since TLAPS reaches neither fairness nor `ENABLED`; and the two counterexamples of section 7.
Every other property of the passing runs is stated by a theorem.

## 9. Not modelled, and the plan

Done: the server's core, the UDP client, the TCP client with its handler, the list of UDP users, start and
end of the server; the safety properties of all of them are proved. Next:

1. Proofs: how far the counters of the UDP client and of the list of users get (bounds that follow from the
   invariants of section 8), and lemmas about merged messages (`Batches`, `Parses`) stated by themselves.
2. The encodings of ids on both sides as operators, against a reference.

Left out: command lines, host names and the creation of the two server sockets (sequential input handling),
the regular expressions of names (abstracted to whether a line is accepted), the exact texts, full send
buffers, messages split by TCP (they are short and sent by one call), the destroying of mutexes, and the
Python drivers.
