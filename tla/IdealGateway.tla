----------------------------- MODULE IdealGateway -----------------------------
(***************************************************************************)
(* What the gateway promises about a request, with no proxy, discovery or  *)
(* introspection in it: a request is held while its token is looked at,    *)
(* admitted on the route of the configuration in force at that moment,     *)
(* sent exactly as that route says, and closed.  GatewayRequest implements *)
(* it (Ideal there gives the mapping).                                     *)
(***************************************************************************)
CONSTANTS
    Requests, Shapes, Configs, NoShape, NoRoute,
    Unsent,              \* no head was sent downstream
    RouteOf(_, _),       \* RouteOf(c, s): the route c gives a request of shape s
    Guarded(_, _),       \* Guarded(c, s): c lets s pass with an approved token only
    Startable(_),        \* the process can start with c
    HasKey(_),           \* c has the key that signs identities
    HeadFor(_, _, _)     \* HeadFor(x, s, identified): the head that route x sends

VARIABLES
    alive, config,
    phase,       \* idle, held, admitted, sent, closed
    shape,
    pin,         \* the route a request was admitted on
    approved,    \* its token was approved
    sent         \* the head of the downstream request

vars == <<alive, config, phase, shape, pin, approved, sent>>

Init ==
    /\ alive = TRUE
    /\ config \in {c \in Configs : Startable(c)}
    /\ phase = [r \in Requests |-> "idle"]
    /\ shape = [r \in Requests |-> NoShape]
    /\ pin = [r \in Requests |-> NoRoute]
    /\ approved = [r \in Requests |-> FALSE]
    /\ sent = [r \in Requests |-> Unsent]

Open == {"held", "admitted", "sent"}

\* A new request shows its shape, one that is held keeps it.
Comes(r, s) ==
    \/ phase[r] = "idle" /\ s \in Shapes /\ shape' = [shape EXCEPT ![r] = s]
    \/ phase[r] \in Open /\ s = shape[r] /\ shape' = shape

\* It waits for a verdict on the bearer token it carries.
Hold(r, s) ==
    /\ alive /\ phase[r] = "idle" /\ Comes(r, s)
    /\ Guarded(config, s) /\ s.bearer
    /\ phase' = [phase EXCEPT ![r] = "held"]
    /\ UNCHANGED <<alive, config, pin, approved, sent>>

\* Only a request that was held has an approved token.
Admit(r, s, vouched) ==
    /\ alive /\ phase[r] \in {"idle", "held"} /\ Comes(r, s)
    /\ vouched <=> phase[r] = "held"
    /\ Guarded(config, s) => vouched
    /\ RouteOf(config, s) # NoRoute
    /\ pin' = [pin EXCEPT ![r] = RouteOf(config, s)]
    /\ approved' = [approved EXCEPT ![r] = vouched]
    /\ phase' = [phase EXCEPT ![r] = "admitted"]
    /\ UNCHANGED <<alive, config, sent>>

\* The identity goes with every approved request and no other, and only signed.
Send(r) ==
    /\ alive /\ phase[r] = "admitted"
    /\ approved[r] => HasKey(config)
    /\ sent' = [sent EXCEPT ![r] = HeadFor(pin[r], shape[r], approved[r])]
    /\ phase' = [phase EXCEPT ![r] = "sent"]
    /\ UNCHANGED <<alive, config, shape, pin, approved>>

\* Refused, answered, or given up.
Close(r, s) ==
    /\ alive /\ phase[r] # "closed" /\ Comes(r, s)
    /\ pin' = [pin EXCEPT ![r] = NoRoute]
    /\ approved' = [approved EXCEPT ![r] = FALSE]
    /\ phase' = [phase EXCEPT ![r] = "closed"]
    /\ UNCHANGED <<alive, config, sent>>

\* The process goes down, and all that is open with it.
Die ==
    /\ alive
    /\ alive' = FALSE
    /\ phase' = [q \in Requests |-> IF phase[q] \in Open THEN "closed" ELSE phase[q]]
    /\ pin' = [q \in Requests |-> NoRoute]
    /\ approved' = [q \in Requests |-> FALSE]
    /\ UNCHANGED <<config, shape, sent>>

Configure ==
    /\ config' \in Configs
    /\ UNCHANGED <<alive, phase, shape, pin, approved, sent>>

Start ==
    /\ ~ alive /\ Startable(config)
    /\ alive' = TRUE
    /\ UNCHANGED <<config, phase, shape, pin, approved, sent>>

Next ==
    \/ Configure \/ Start \/ Die
    \/ \E r \in Requests :
          \/ Send(r)
          \/ \E s \in Shapes :
                Hold(r, s) \/ Close(r, s) \/ \E v \in BOOLEAN : Admit(r, s, v)

Spec == Init /\ [][Next]_vars
=============================================================================
