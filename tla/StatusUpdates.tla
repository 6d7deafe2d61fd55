--------------------------- MODULE StatusUpdates ---------------------------
(***************************************************************************)
(* The way of a generation's status from a worker to the API:              *)
(* StatusPublisher and StatusSubscriber of packages/shared/src/pubsub and  *)
(* the WebSocket plugin.  A publisher sends each update to the global      *)
(* channel and then to the channel of its user.  The API's subscriber      *)
(* keeps the callbacks of each channel; the plugin registered one for the  *)
(* global channel before the server listens, and Followers are the callers *)
(* of subscribeUser and unsubscribeUser, for the user each follows.        *)
(*                                                                         *)
(* `commands' is what the subscriber's connection has sent to Redis and    *)
(* `wire' what Redis has sent back, replies and messages in one order; the *)
(* connection itself does not break.  No socket ever hears an update: the  *)
(* route of the plugin refuses them all (OpenSocket).                      *)
(***************************************************************************)
EXTENDS Integers, Sequences

CONSTANTS
    StatusUsers, Sockets, Publishers, Followers,
    Follows,           \* [Followers -> StatusUsers]
    MaxUpdates,        \* bound: updates published
    StatusEnvironments \* records [redisFails, callers, browsers]: may Redis refuse
                       \* a command, the followers that call and the sockets that open

Global == "generation:status-updates"
Channels == {Global} \cup StatusUsers            \* a user stands for its channel
Gone == {"gone"}                           \* no entry in the map of callbacks

ASSUME FollowersFollowUsers == Follows \in [Followers -> StatusUsers]
ASSUME NamesDiffer == Global \notin StatusUsers /\ {"broadcast", "gone"} \cap Followers = {}
ASSUME UpdatesAreNats == MaxUpdates \in Nat

VARIABLES
    statusEnv,
    published,   \* the users the updates were for; an update is its index
    publishing,  \* the update each publisher has still to send to the user's channel, or 0
    callbacks,   \* StatusSubscriber.callbacks: channel -> a set, or Gone
    calls,       \* what each follower awaits: "none", "subscribe" or "unsubscribe"
    commands,    \* sent to Redis, not yet executed: [kind, channel, by]
    subscribed,  \* the channels Redis sends to the connection
    wire,        \* sent by Redis, not yet handled
    sockets,     \* "unused" or "refused"
    handed,      \* ghost: the updates the plugin's callback was called with
    heard,       \* ghost: the updates each follower's callback was called with
    owed         \* ghost: the updates sent to the channel of a registered follower, since it
                 \* joined, while no command for that channel was on its way

statusVars == <<statusEnv, published, publishing, callbacks, calls, commands,
                subscribed, wire, sockets, handed, heard, owed>>

StatusInit ==
    /\ statusEnv \in StatusEnvironments
    /\ published = <<>>
    /\ publishing = [p \in Publishers |-> 0]
    /\ callbacks = [c \in Channels |-> IF c = Global THEN {"broadcast"} ELSE Gone]
    /\ calls = [f \in Followers |-> "none"]
    /\ commands = <<>>
    /\ subscribed = {Global}
    /\ wire = <<>>
    /\ sockets = [s \in Sockets |-> "unused"]
    /\ handed = <<>>
    /\ heard = [f \in Followers |-> {}] /\ owed = [f \in Followers |-> {}]

(***************************************************************************)
(* StatusPublisher.publishStatusUpdate.                                    *)
(***************************************************************************)
Sent(channel, update) ==
    wire' = IF channel \in subscribed
            THEN Append(wire, [kind |-> "message", channel |-> channel, update |-> update])
            ELSE wire

PublishGlobally(p) ==
    /\ publishing[p] = 0
    /\ Len(published) < MaxUpdates
    /\ \E u \in StatusUsers : published' = Append(published, u)
    /\ publishing' = [publishing EXCEPT ![p] = Len(published')]
    /\ Sent(Global, Len(published'))
    /\ UNCHANGED <<statusEnv, callbacks, calls, commands, subscribed, sockets, handed, heard, owed>>

Settled(channel) == \A i \in DOMAIN commands : commands[i].channel # channel

PublishToUser(p) ==
    /\ publishing[p] # 0
    /\ LET channel == published[publishing[p]] IN
         /\ Sent(channel, publishing[p])
         /\ owed' = [f \in Followers |-> IF f \in callbacks[channel] /\ Settled(channel)
                                         THEN owed[f] \cup {publishing[p]} ELSE owed[f]]
    /\ publishing' = [publishing EXCEPT ![p] = 0]
    /\ UNCHANGED <<statusEnv, published, callbacks, calls, commands, subscribed,
                   sockets, handed, heard>>

(***************************************************************************)
(* StatusSubscriber.  Only the first callback of a channel subscribes, and *)
(* it is added when Redis has answered; the last one to leave unsubscribes.*)
(***************************************************************************)
Command(kind, f) ==
    commands' = Append(commands, [kind |-> kind, channel |-> Follows[f], by |-> f])

SubscribeUser(f) ==
    /\ f \in statusEnv.callers
    /\ calls[f] = "none"
    /\ LET channel == Follows[f] IN
         \/ /\ callbacks[channel] = Gone
            /\ callbacks' = [callbacks EXCEPT ![channel] = {}]
            /\ Command("subscribe", f)
            /\ calls' = [calls EXCEPT ![f] = "subscribe"]
         \/ /\ callbacks[channel] # Gone
            /\ callbacks' = [callbacks EXCEPT ![channel] = @ \cup {f}]
            /\ UNCHANGED <<commands, calls>>
    /\ UNCHANGED <<statusEnv, published, publishing, subscribed, wire, sockets, handed, heard, owed>>

\* Mutant: the entry of a channel outlives its last callback.
Left_KeepsEntry(channel, f) == callbacks[channel] \ {f}
Left(channel, f) ==
    IF callbacks[channel] \ {f} = {} THEN Gone ELSE callbacks[channel] \ {f}

UnsubscribeUser(f) ==
    /\ f \in statusEnv.callers
    /\ calls[f] = "none"
    /\ LET channel == Follows[f] IN
         /\ callbacks[channel] # Gone
         /\ callbacks' = [callbacks EXCEPT ![channel] = Left(channel, f)]
         /\ \/ /\ callbacks[channel] \ {f} = {}
               /\ Command("unsubscribe", f)
               /\ calls' = [calls EXCEPT ![f] = "unsubscribe"]
            \/ /\ callbacks[channel] \ {f} # {}
               /\ UNCHANGED <<commands, calls>>
    /\ owed' = [owed EXCEPT ![f] = {}]
    /\ UNCHANGED <<statusEnv, published, publishing, subscribed, wire, sockets, handed, heard>>

\* Redis executes the connection's commands in order and answers on it.
RedisExecutes ==
    /\ commands # <<>>
    /\ LET c == Head(commands) IN
       \E ok \in {TRUE} \cup (IF statusEnv.redisFails THEN {FALSE} ELSE {}) :
         /\ subscribed' = IF ~ok THEN subscribed
                          ELSE IF c.kind = "subscribe" THEN subscribed \cup {c.channel}
                          ELSE subscribed \ {c.channel}
         /\ wire' = Append(wire, [kind |-> "reply", to |-> c.by, ok |-> ok])
    /\ commands' = Tail(commands)
    /\ UNCHANGED <<statusEnv, published, publishing, callbacks, calls, sockets, handed, heard, owed>>

\* The call that awaited the reply goes on: a subscriber adds its callback to
\* the set its channel has now, and throws when there is none or Redis refused.
HandleReply ==
    /\ wire # <<>> /\ Head(wire).kind = "reply"
    /\ LET f == Head(wire).to  channel == Follows[f] IN
         /\ callbacks' = IF calls[f] = "subscribe" /\ Head(wire).ok /\ callbacks[channel] # Gone
                         THEN [callbacks EXCEPT ![channel] = @ \cup {f}]
                         ELSE callbacks
         /\ calls' = [calls EXCEPT ![f] = "none"]
    /\ wire' = Tail(wire)
    /\ UNCHANGED <<statusEnv, published, publishing, commands, subscribed,
                   sockets, handed, heard, owed>>

(***************************************************************************)
(* handleMessage calls every callback of the channel.  The plugin's one    *)
(* looks for the sockets of the update's user and finds none; what a       *)
(* follower does with an update is its own affair.                         *)
(***************************************************************************)
HandleMessage ==
    /\ wire # <<>> /\ Head(wire).kind = "message"
    /\ LET m == Head(wire) IN
         /\ handed' = IF "broadcast" \in callbacks[m.channel] THEN Append(handed, m.update) ELSE handed
         /\ heard' = [f \in Followers |-> IF f \in callbacks[m.channel]
                                          THEN heard[f] \cup {m.update} ELSE heard[f]]
    /\ wire' = Tail(wire)
    /\ UNCHANGED <<statusEnv, published, publishing, callbacks, calls, commands,
                   subscribed, sockets, owed>>

(***************************************************************************)
(* The WebSocket route.  It asks for request.user, which only the          *)
(* authenticate hook of other routes sets: whatever token a browser        *)
(* brings, its socket is closed as unauthorized and never registered.      *)
(***************************************************************************)
OpenSocket(s) ==
    /\ s \in statusEnv.browsers
    /\ sockets[s] = "unused"
    /\ sockets' = [sockets EXCEPT ![s] = "refused"]
    /\ UNCHANGED <<statusEnv, published, publishing, callbacks, calls, commands,
                   subscribed, wire, handed, heard, owed>>

StatusNext ==
    \/ \E p \in Publishers : PublishGlobally(p) \/ PublishToUser(p)
    \/ \E f \in Followers : SubscribeUser(f) \/ UnsubscribeUser(f)
    \/ RedisExecutes \/ HandleReply \/ HandleMessage
    \/ \E s \in Sockets : OpenSocket(s)

StatusSpec == StatusInit /\ [][StatusNext]_statusVars

-----------------------------------------------------------------------------
\* The variables hold what their declarations say.
CommandType == [kind : {"subscribe", "unsubscribe"}, channel : StatusUsers, by : Followers]
MessageType == [kind : {"message"}, channel : Channels, update : 1..MaxUpdates]
ReplyType == [kind : {"reply"}, to : Followers, ok : BOOLEAN]

StatusTypeOK ==
    /\ statusEnv \in StatusEnvironments
    /\ published \in Seq(StatusUsers) /\ Len(published) <= MaxUpdates
    /\ publishing \in [Publishers -> 0..Len(published)]
    /\ callbacks \in [Channels -> {Gone} \cup SUBSET (Followers \cup {"broadcast"})]
    /\ calls \in [Followers -> {"none", "subscribe", "unsubscribe"}]
    /\ commands \in Seq(CommandType)
    /\ subscribed \subseteq Channels
    /\ wire \in Seq(MessageType \cup ReplyType)
    /\ sockets \in [Sockets -> {"unused", "refused"}]
    /\ handed \in Seq(1..MaxUpdates)
    /\ heard \in [Followers -> SUBSET (1..MaxUpdates)] /\ owed \in [Followers -> SUBSET (1..MaxUpdates)]

\* Whoever is registered for a channel is heard: when no command for it is on
\* its way, Redis sends the channel to the connection -- whatever subscriptions
\* and unsubscriptions of it overlapped, as long as Redis refuses none.
RegisteredIsSubscribed ==
    ~statusEnv.redisFails =>
        \A c \in Channels :
            (callbacks[c] \notin {Gone, {}} /\ Settled(c)) => c \in subscribed

\* The updates on their way on a channel.
Coming(c) ==
    {u \in 1..Len(published) :
        \E i \in DOMAIN wire :
            wire[i].kind = "message" /\ wire[i].channel = c /\ wire[i].update = u}

\* The plugin is called with every update, once each and in the order they were published,
\* whatever else goes over its connection.
PluginHearsAll ==
    /\ \A i \in DOMAIN handed : handed[i] = i
    /\ Coming(Global) = (Len(handed) + 1)..Len(published)

\* A follower hears the updates of its user and no others, none of them twice; and it hears
\* each one sent since it joined while its channel had no command on the way, however the
\* subscriptions and unsubscriptions of other followers overlapped.
FollowersHear ==
    \A f \in Followers :
        /\ \A u \in heard[f] : published[u] = Follows[f] /\ u \notin Coming(Follows[f])
        /\ ~statusEnv.redisFails => owed[f] \subseteq heard[f] \cup Coming(Follows[f])

\* Updates reach whoever is registered: Redis sends them, and the callbacks are called.
UpdatesReachTheirUser == RegisteredIsSubscribed /\ PluginHearsAll /\ FollowersHear
=============================================================================
