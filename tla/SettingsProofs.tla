--------------------------- MODULE SettingsProofs ---------------------------
(***************************************************************************)
(* Logging and its configuration, for any threads, classes, contexts,      *)
(* files and number of messages: the settings a class takes over are those *)
(* in force, they are forgotten in one way only, they are those of the     *)
(* file, and who pops a context finds one.  None of the properties is      *)
(* inductive.  Needed besides are: who owns the mutex, that only the last  *)
(* call of a thread can be setting a class up, and what a call knows once  *)
(* it has compared the serials (LogInv); what early messages have to do    *)
(* with the first serial (EarlyInv); the contexts each thread has pushed,  *)
(* as a sequence that prev runs through (CtxInv, DepthsInv); whose each    *)
(* document is (DocInv); and how far in the file the program is, what of   *)
(* it is at the end of the chains, and that a chain whose serial is still  *)
(* to be raised is its own (ConfInv, ChainsInv, WrittenInv, AddingInv).    *)
(***************************************************************************)
EXTENDS Settings, WellFoundedInduction, TLAPS

SettingUp == {"default", "match"}

\* A class is a record of three fields, there is a chain, and the chains are in
\* memory.
FieldsInv == /\ block \in live
             /\ mutex \in Thread \union {NULL}
             /\ Len(chains) >= 1 /\ \E S : chains \in Seq(S)
             /\ DOMAIN cls = Class
             /\ \A c \in Class : cls[c] = [serial |-> cls[c].serial, minlvl |-> cls[c].minlvl,
                                           chain |-> cls[c].chain]

\* A call under another is the one that noted the taking over of its class.
StackInv == /\ calls \in [Thread -> Seq(Call)]
            /\ \A t \in Thread : \A n \in 1..(Len(calls[t]) - 1) : calls[t][n].pc = "level"

OwnerInv == \A t \in Thread : \A n \in DOMAIN calls[t] :
               calls[t][n].pc \in SettingUp => mutex = t

SerialInv == /\ serial \in Nat
             /\ \A c \in Class : cls[c].serial \in Nat /\ cls[c].serial <= serial
             /\ \A t \in Thread : \A n \in DOMAIN calls[t] : calls[t][n].checked <= serial

\* Past the test of the serials a class is marked as current, unless a chain was
\* added since.
MarkedInv == \A t \in Thread : \A n \in DOMAIN calls[t] :
                calls[t][n].pc \in SettingUp \union {"level", "use"}
                /\ calls[t][n].checked = serial
                => cls[calls[t][n].cls].serial = serial

Idles(c) == \A t \in Thread : \A n \in DOMAIN calls[t] :
               ~(calls[t][n].pc \in SettingUp /\ calls[t][n].cls = c)
InForce(c) == LET last == LastOf(Naming(c, Announced))
              IN  /\ cls[c].minlvl = chains[last].minlvl
                  /\ cls[c].chain.at = last
                  /\ cls[c].chain.block = block \/ Adding
ForceInv == \A c \in Class : cls[c].serial = serial /\ Idles(c) => InForce(c)

LogInv == FieldsInv /\ StackInv /\ OwnerInv /\ SerialInv /\ MarkedInv /\ ForceInv

-----------------------------------------------------------------------------
\* The calls of a thread without the last.
LEMMA UnderFacts ==
  ASSUME NEW t \in Thread, StackInv, ~Idle(t)
  PROVE  /\ Under(t) \in Seq(Call)
         /\ Len(calls[t]) \in Nat \ {0} /\ Len(Under(t)) = Len(calls[t]) - 1
         /\ \A n \in 1..Len(Under(t)) : Under(t)[n] = calls[t][n] /\ Under(t)[n].pc = "level"
         /\ Now(t) \in Call /\ Now(t) = calls[t][Len(calls[t])]
<1>1. calls[t] \in Seq(Call) /\ calls[t] # <<>> BY DEF StackInv, Idle
<1>2. Len(calls[t]) \in Nat \ {0} BY <1>1
<1>3. /\ Under(t) \in Seq(Call) /\ Len(Under(t)) = Len(calls[t]) - 1
      /\ \A n \in 1..(Len(calls[t]) - 1) : Under(t)[n] = calls[t][n]
  BY <1>1, <1>2 DEF Under
<1> QED BY <1>1, <1>2, <1>3 DEF StackInv, Now

\* A set of numbers up to another has a largest.
LEMMA Largest ==
  ASSUME NEW N \in Nat, NEW T \in SUBSET (1..N), T # {} PROVE \E n \in T : \A m \in T : m <= n
<1> DEFINE U == {N - n : n \in T}
<1>1. U \in SUBSET Nat /\ U # {}
  <2>1. \A n \in T : N - n \in Nat OBVIOUS
  <2>2. \A u \in U : u \in Nat BY <2>1
  <2>3. PICK n : n \in T OBVIOUS
  <2>4. N - n \in U BY <2>3
  <2> QED BY <2>2, <2>4
<1>2. PICK u \in U : \A v \in U : ~(<<v, u>> \in OpToRel(<, Nat))
  <2> HIDE DEF U
  <2> QED BY <1>1, NatLessThanWellFounded, WFMin
<1>3. PICK n \in T : u = N - n OBVIOUS
<1>4. \A m \in T : ~(N - m < u)
  <2> TAKE m \in T
  <2>1. N - m \in U /\ <<N - m, u>> \in Nat \X Nat BY <1>1
  <2> QED BY <1>2, <2>1 DEF OpToRel
<1> QED BY <1>3, <1>4

\* Nobody who adds a chain begins or ends to do so when a thread goes on that is
\* not setting a class up.
LEMMA AddingKept ==
  ASSUME StackInv, mutex \in Thread \union {NULL}, NEW t \in Thread, NEW s \in Seq(Call),
         mutex' = mutex, calls' = [calls EXCEPT ![t] = s],
         \A n \in DOMAIN calls[t] : calls[t][n].pc \notin SettingUp,
         \A n \in DOMAIN s : s[n].pc \notin SettingUp
  PROVE  Adding' <=> Adding
<1>1. /\ calls[t] \in Seq(Call) /\ calls'[t] = s
      /\ \A u \in Thread : u # t => calls'[u] = calls[u]
  BY DEF StackInv
<1>2. CASE mutex # t
  <2>1. mutex = NULL \/ calls'[mutex] = calls[mutex] BY <1>1, <1>2
  <2> QED BY <2>1 DEF Adding, In, Idle, Now
<1>3. CASE mutex = t
  <2>1. ~Idle(t) => Len(calls[t]) \in DOMAIN calls[t] BY <1>1 DEF Idle
  <2>2. ~Idle(t)' => Len(s) \in DOMAIN s BY <1>1 DEF Idle
  <2>3. ~In(t, "default") /\ ~In(t, "match") BY <2>1 DEF In, Now, SettingUp
  <2>4. ~In(t, "default")' /\ ~In(t, "match")' BY <1>1, <2>2 DEF In, Now, SettingUp
  <2> QED BY <1>3, <2>3, <2>4 DEF Adding
<1> QED BY <1>2, <1>3

\* What a call may become without touching classes and chains.
Harmless(call) == /\ call.checked <= serial
                  /\ call.pc \notin SettingUp
                  /\ call.pc \in {"level", "use"} /\ call.checked = serial
                     => cls[call.cls].serial = serial

\* A step that changes the last calls of one thread only, which is not setting a
\* class up before or after.
LEMMA QuietStep ==
  ASSUME LogInv, NEW t \in Thread, NEW s \in Seq(Call),
         UNCHANGED <<setupvars, cls, mutex>>,
         calls' = [calls EXCEPT ![t] = s],
         \A n \in DOMAIN calls[t] : calls[t][n].pc \notin SettingUp,
         \A n \in 1..(Len(s) - 1) : s[n].pc = "level",
         \A n \in DOMAIN s : Harmless(s[n])
  PROVE  LogInv'
<1> USE DEF LogInv, setupvars
<1>0. calls' \in [Thread -> Seq(Call)] /\ calls'[t] = s
      /\ \A u \in Thread : u # t => calls'[u] = calls[u]
  BY DEF StackInv
<1>1. FieldsInv' BY DEF FieldsInv
<1>2. StackInv' BY <1>0 DEF StackInv
<1>3. OwnerInv' BY <1>0 DEF OwnerInv, Harmless
<1>4. SerialInv' BY <1>0 DEF SerialInv, Harmless
<1>5. MarkedInv' BY <1>0 DEF MarkedInv, Harmless
<1>6. \A c \in Class : Idles(c)' => Idles(c) BY <1>0 DEF Idles
<1>9. Adding' <=> Adding BY AddingKept DEF FieldsInv, Harmless
<1>7. \A c \in Class : InForce(c)' <=> InForce(c)
  BY <1>9 DEF InForce, Announced, Naming, Names
<1>8. ForceInv' BY <1>6, <1>7 DEF ForceInv
<1> QED BY <1>1, <1>2, <1>3, <1>4, <1>5, <1>8

\* Steps of the program that have nothing to do with logging.
LEMMA ElsewhereKept ==
  ASSUME LogInv, UNCHANGED <<setupvars, cls, mutex, calls>> PROVE LogInv'
<1> USE DEF LogInv, setupvars
<1>1. FieldsInv' BY DEF FieldsInv
<1>2. StackInv' /\ OwnerInv' BY DEF StackInv, OwnerInv
<1>3. SerialInv' /\ MarkedInv' BY DEF SerialInv, MarkedInv
<1>4. ForceInv'
  BY DEF ForceInv, Idles, InForce, Announced, Adding, In, Idle, Now, Naming, Names
<1> QED BY <1>1, <1>2, <1>3, <1>4

\* The calls below the last stay harmless.
LEMMA UnderHarmless ==
  ASSUME LogInv, NEW t \in Thread, ~Idle(t), Now(t).pc \notin SettingUp
  PROVE  /\ \A n \in DOMAIN calls[t] : calls[t][n].pc \notin SettingUp
         /\ \A n \in 1..Len(Under(t)) : Harmless(Under(t)[n])
<1>1. StackInv BY DEF LogInv
<1>2. calls[t] \in Seq(Call) BY <1>1 DEF StackInv
<1>3. \A n \in 1..Len(Under(t)) : n \in DOMAIN calls[t] /\ Under(t)[n] = calls[t][n]
                                 /\ Under(t)[n].pc = "level"
  BY <1>1, <1>2, UnderFacts
<1>4. \A n \in DOMAIN calls[t] : n \in 1..Len(Under(t)) \/ n = Len(calls[t])
  BY <1>1, <1>2, UnderFacts
<1>5. \A n \in DOMAIN calls[t] : calls[t][n].pc \notin SettingUp
  BY <1>1, <1>3, <1>4, UnderFacts DEF SettingUp
<1>6. \A n \in 1..Len(Under(t)) : Harmless(Under(t)[n])
  BY <1>3 DEF LogInv, SerialInv, MarkedInv, Harmless, SettingUp
<1> QED BY <1>5, <1>6

\* The step puts another call in the place of the last.
LEMMA QuietContinue ==
  ASSUME LogInv, NEW t \in Thread, ~Idle(t), Now(t).pc \notin SettingUp,
         NEW call \in Call, Continue(t, call), Harmless(call),
         UNCHANGED <<setupvars, cls, mutex>>
  PROVE  LogInv'
<1> DEFINE s == Append(Under(t), call)
<1>1. StackInv BY DEF LogInv
<1>2. /\ s \in Seq(Call) /\ Len(s) = Len(Under(t)) + 1 /\ s[Len(s)] = call
      /\ \A n \in 1..(Len(s) - 1) : s[n] = Under(t)[n]
  BY <1>1, UnderFacts
<1>3. \A n \in 1..(Len(s) - 1) : s[n].pc = "level" BY <1>1, <1>2, UnderFacts
<1>4. Len(Under(t)) \in Nat BY <1>1, UnderFacts
<1>5. \A n \in DOMAIN s : n = Len(s) \/ n \in 1..Len(Under(t)) BY <1>2, <1>4
<1>6. \A n \in DOMAIN s : Harmless(s[n])
  <2> SUFFICES ASSUME NEW n \in DOMAIN s PROVE Harmless(s[n]) OBVIOUS
  <2>1. CASE n = Len(s) BY <2>1, <1>2
  <2>2. CASE n \in 1..Len(Under(t)) BY <2>2, <1>2, <1>4, UnderHarmless
  <2> QED BY <1>5, <2>1, <2>2
<1>7. calls' = [calls EXCEPT ![t] = s] BY DEF Continue
<1>8. \A n \in DOMAIN calls[t] : calls[t][n].pc \notin SettingUp BY UnderHarmless
<1> HIDE DEF s
<1> QED BY <1>2, <1>3, <1>6, <1>7, <1>8, QuietStep

\* The last call returns to the one under it.
LEMMA QuietReturn ==
  ASSUME LogInv, NEW t \in Thread, ~Idle(t), Now(t).pc \notin SettingUp, Return(t),
         UNCHANGED <<setupvars, cls, mutex>>
  PROVE  LogInv'
<1>1. StackInv BY DEF LogInv
<1>2. /\ Under(t) \in Seq(Call)
      /\ \A n \in 1..(Len(Under(t)) - 1) : Under(t)[n].pc = "level"
      /\ \A n \in DOMAIN Under(t) : n \in 1..Len(Under(t))
  BY <1>1, UnderFacts
<1>3. /\ \A n \in DOMAIN calls[t] : calls[t][n].pc \notin SettingUp
      /\ \A n \in DOMAIN Under(t) : Harmless(Under(t)[n])
  BY <1>2, UnderHarmless
<1>4. calls' = [calls EXCEPT ![t] = Under(t)] BY DEF Return
<1> QED BY <1>2, <1>3, <1>4, QuietStep

\* The first step of logger_message.
LEMMA BeginKeeps ==
  ASSUME LogInv, NEW t \in Thread, NEW c \in Class, Begin(t, c, WARN),
         UNCHANGED <<setupvars, cls, mutex>>
  PROVE  LogInv'
<1> DEFINE s == <<Called(c, WARN)>>
<1>1. Called(c, WARN) \in Call BY LoggingAssumption DEF Called, Call, Level, WARN, DIAG
<1>2. s \in Seq(Call) /\ Len(s) = 1 /\ s[1] = Called(c, WARN) /\ DOMAIN s = {1} BY <1>1
<1>3. Harmless(Called(c, WARN)) BY DEF Harmless, Called, SettingUp, LogInv, SerialInv
<1>4. calls' = [calls EXCEPT ![t] = s] /\ calls[t] = <<>> BY DEF Begin, Idle
<1>5. \A n \in 1..(Len(s) - 1) : s[n].pc = "level" BY <1>2
<1>6. \A n \in DOMAIN s : Harmless(s[n]) BY <1>2, <1>3
<1>7. \A n \in DOMAIN calls[t] : calls[t][n].pc \notin SettingUp BY <1>4
<1> HIDE DEF s
<1> QED BY <1>2, <1>4, <1>5, <1>6, <1>7, QuietStep

\* Comparing the serials or the levels, and calling the procedure.
LEMMA QuietMessage ==
  ASSUME LogInv, NEW t \in Thread, Check(t) \/ Enabled(t) \/ Use(t) PROVE LogInv'
<1>0. StackInv /\ SerialInv /\ MarkedInv BY DEF LogInv
<1>1. ~Idle(t) BY DEF Check, Enabled, Use, In
<1>2. /\ Now(t) \in Call /\ Now(t) = calls[t][Len(calls[t])] /\ Len(calls[t]) \in DOMAIN calls[t]
  BY <1>0, <1>1, UnderFacts DEF StackInv
<1>3. UNCHANGED <<setupvars, cls, mutex>> BY DEF Check, Enabled, Use
<1>4. Now(t).pc \notin SettingUp BY DEF Check, Enabled, Use, In, SettingUp
<1>5. CASE Check(t)
  <2> DEFINE call == [Now(t) EXCEPT !.pc = IF cls[Now(t).cls].serial = serial
                                           THEN "level" ELSE "resetup", !.checked = serial]
  <2>1. call \in Call BY <1>0, <1>2 DEF Call, SerialInv
  <2>2. /\ call.checked = serial /\ call.cls = Now(t).cls /\ call.pc \in {"level", "resetup"}
        /\ call.pc = "level" => cls[Now(t).cls].serial = serial
    BY <1>2 DEF Call
  <2>3. Harmless(call) BY <1>0, <2>2 DEF Harmless, SettingUp, SerialInv
  <2>4. Continue(t, call) BY <1>5 DEF Check
  <2> HIDE DEF call
  <2> QED BY <1>1, <1>3, <1>4, <2>1, <2>3, <2>4, QuietContinue
<1>6. CASE Enabled(t) /\ GoTo(t, "use")
  <2> DEFINE call == [Now(t) EXCEPT !.pc = "use"]
  <2>1. call \in Call BY <1>2 DEF Call
  <2>2. call.checked = Now(t).checked /\ call.cls = Now(t).cls /\ call.pc = "use"
    BY <1>2 DEF Call
  <2>3. Now(t).pc = "level" BY <1>6 DEF Enabled, In
  <2>4. Harmless(call) BY <1>0, <1>2, <2>2, <2>3 DEF Harmless, SettingUp, SerialInv, MarkedInv
  <2>5. Continue(t, call) BY <1>6 DEF GoTo
  <2> HIDE DEF call
  <2> QED BY <1>1, <1>3, <1>4, <2>1, <2>4, <2>5, QuietContinue
<1>7. CASE (Enabled(t) /\ Return(t)) \/ Use(t)
  <2>1. Return(t) BY <1>7 DEF Use
  <2> QED BY <1>1, <1>3, <1>4, <2>1, QuietReturn
<1> QED BY <1>5, <1>6, <1>7 DEF Enabled

\* Neither of them adds a chain.
LEMMA QuietAdding ==
  ASSUME LogInv, NEW t \in Thread, Check(t) \/ Enabled(t) \/ Use(t)
  PROVE  Adding <=> Adding'
<1>1. ~Idle(t) /\ Now(t).pc \notin SettingUp /\ mutex' = mutex
  BY DEF Check, Enabled, Use, In, SettingUp
<1>2. StackInv /\ SerialInv /\ mutex \in Thread \union {NULL} BY DEF LogInv, FieldsInv
<1>3. Now(t) \in Call BY <1>1, <1>2, UnderFacts
<1>4. \A n \in DOMAIN calls[t] : calls[t][n].pc \notin SettingUp BY <1>1, UnderHarmless
<1>5. ASSUME NEW call \in Call, call.pc \notin SettingUp, Continue(t, call)
      PROVE  Adding <=> Adding'
  <2> DEFINE s == Append(Under(t), call)
  <2>1. s \in Seq(Call) /\ \A n \in DOMAIN s : s[n] = call \/ s[n].pc = "level"
    BY <1>1, <1>2, UnderFacts
  <2>2. \A n \in DOMAIN s : s[n].pc \notin SettingUp BY <1>5, <2>1 DEF SettingUp
  <2>3. calls' = [calls EXCEPT ![t] = s] BY <1>5 DEF Continue
  <2> HIDE DEF s
  <2> QED BY <1>1, <1>2, <1>4, <2>1, <2>2, <2>3, AddingKept
<1>6. CASE Return(t)
  <2>1. Under(t) \in Seq(Call) /\ \A n \in DOMAIN Under(t) : Under(t)[n].pc = "level"
    BY <1>1, <1>2, UnderFacts
  <2>2. \A n \in DOMAIN Under(t) : Under(t)[n].pc \notin SettingUp BY <2>1 DEF SettingUp
  <2>3. calls' = [calls EXCEPT ![t] = Under(t)] BY <1>6 DEF Return
  <2> QED BY <1>1, <1>2, <1>4, <2>1, <2>2, <2>3, AddingKept
<1>7. CASE Check(t)
  <2> DEFINE call == [Now(t) EXCEPT !.pc = IF cls[Now(t).cls].serial = serial
                                           THEN "level" ELSE "resetup", !.checked = serial]
  <2>1. call \in Call /\ call.pc \notin SettingUp
    BY <1>2, <1>3 DEF Call, SerialInv, SettingUp
  <2>2. Continue(t, call) BY <1>7 DEF Check
  <2> HIDE DEF call
  <2> QED BY <1>5, <2>1, <2>2
<1>8. CASE Enabled(t) /\ GoTo(t, "use")
  <2> DEFINE call == [Now(t) EXCEPT !.pc = "use"]
  <2>1. call \in Call /\ call.pc \notin SettingUp BY <1>3 DEF Call, SettingUp
  <2>2. Continue(t, call) BY <1>8 DEF GoTo
  <2> HIDE DEF call
  <2> QED BY <1>5, <2>1, <2>2
<1> QED BY <1>6, <1>7, <1>8 DEF Enabled, Use

\* Nor does the first step of a message.
LEMMA BeginAdding ==
  ASSUME LogInv, NEW t \in Thread, NEW c \in Class, Begin(t, c, WARN), mutex' = mutex
  PROVE  Adding' <=> Adding
<1> DEFINE s == <<Called(c, WARN)>>
<1>1. Called(c, WARN) \in Call BY LoggingAssumption DEF Called, Call, Level, WARN, DIAG
<1>2. s \in Seq(Call) /\ s[1] = Called(c, WARN) /\ DOMAIN s = {1} BY <1>1
<1>3. \A n \in DOMAIN s : s[n].pc \notin SettingUp BY <1>2 DEF Called, SettingUp
<1>4. calls' = [calls EXCEPT ![t] = s] /\ calls[t] = <<>> BY DEF Begin, Idle
<1>5. \A n \in DOMAIN calls[t] : calls[t][n].pc \notin SettingUp
  <2>1. DOMAIN <<>> = 1..0 OBVIOUS
  <2>2. 1..0 = {} BY SMT
  <2> QED BY <1>4, <2>1, <2>2
<1>6. StackInv /\ mutex \in Thread \union {NULL} BY DEF LogInv, FieldsInv
<1> HIDE DEF s
<1> QED BY <1>2, <1>3, <1>4, <1>5, <1>6, AddingKept

-----------------------------------------------------------------------------
\* Any call of a thread is one.
LEMMA CallTypes ==
  ASSUME StackInv, NEW u \in Thread, NEW n \in DOMAIN calls[u]
  PROVE  calls[u][n] \in Call /\ calls[u][n].cls \in Class /\ calls[u][n].checked \in Nat
<1>1. calls[u] \in Seq(Call) BY DEF StackInv
<1>2. calls[u][n] \in Call BY <1>1
<1> QED BY <1>2 DEF Call

\* Another call in the place of the last, whatever else happens.
LEMMA ContinueFacts ==
  ASSUME StackInv, NEW t \in Thread, ~Idle(t), NEW call \in Call, Continue(t, call)
  PROVE  /\ StackInv'
         /\ Len(calls[t]) \in DOMAIN calls[t] /\ calls'[t][Len(calls[t])] = call
         /\ DOMAIN calls'[t] = DOMAIN calls[t]
         /\ \A where : In(t, where)' <=> call.pc = where
         /\ \A n \in DOMAIN calls[t] : n # Len(calls[t])
               => calls'[t][n] = calls[t][n] /\ calls[t][n].pc = "level"
         /\ \A u \in Thread : u # t => calls'[u] = calls[u]
<1> DEFINE s == Append(Under(t), call)
           m == Len(calls[t])
<1>1. calls' = [calls EXCEPT ![t] = s] BY DEF Continue
<1>2. m \in Nat \ {0} /\ Len(Under(t)) = m - 1 /\ Under(t) \in Seq(Call) BY UnderFacts
<1>3. /\ s \in Seq(Call) /\ Len(s) = m /\ s[m] = call
      /\ \A n \in 1..(m - 1) : s[n] = Under(t)[n]
  BY <1>2
<1>4. \A n \in 1..(m - 1) : Under(t)[n] = calls[t][n] /\ Under(t)[n].pc = "level"
  BY <1>2, UnderFacts
<1>5. calls[t] \in Seq(Call) BY DEF StackInv
<1>6. DOMAIN calls[t] = 1..m /\ DOMAIN s = 1..m BY <1>3, <1>5
<1>7. calls'[t] = s /\ \A u \in Thread : u # t => calls'[u] = calls[u]
  BY <1>1 DEF StackInv
<1> HIDE DEF s
<1>8. StackInv'
  <2>1. calls' \in [Thread -> Seq(Call)] BY <1>1, <1>3 DEF StackInv
  <2>2. \A n \in 1..(Len(calls'[t]) - 1) : calls'[t][n].pc = "level" BY <1>3, <1>4, <1>7
  <2> QED BY <1>7, <2>1, <2>2 DEF StackInv
<1>9. \A where : In(t, where)' <=> call.pc = where
  <2>1. s # <<>> BY <1>2, <1>3
  <2> QED BY <1>3, <1>7, <2>1 DEF In, Idle, Now
<1> QED BY <1>2, <1>3, <1>4, <1>6, <1>7, <1>8, <1>9

\* A class takes over the current serial, or that of chains made anew.
LEMMA ResetupKeeps ==
  ASSUME LogInv, NEW t \in Thread, Resetup(t) PROVE LogInv'
<1> DEFINE c == Now(t).cls
           call == [Now(t) EXCEPT !.pc = "default"]
<1>0. FieldsInv /\ StackInv /\ OwnerInv /\ SerialInv /\ MarkedInv /\ ForceInv BY DEF LogInv
<1>1. ~Idle(t) /\ Now(t).pc = "resetup" /\ mutex = NULL /\ mutex' = t /\ Continue(t, call)
  BY DEF Resetup, In, GoTo
<1>2. Now(t) \in Call /\ Now(t) = calls[t][Len(calls[t])] BY <1>0, <1>1, UnderFacts
<1>3. /\ call \in Call /\ call.pc = "default" /\ call.cls = c /\ call.checked = Now(t).checked
      /\ c \in Class
  BY <1>2 DEF Call
<1>4. cls' = [cls EXCEPT ![c].serial = serial'] BY DEF Resetup
<1>5. \/ serial' = serial + 1 /\ block' \in live' /\ chains' = <<Default>>
      \/ serial' = serial /\ UNCHANGED setupvars
  BY DEF Resetup, Reinitialize, setupvars
<1>6. serial' \in Nat /\ serial <= serial' BY <1>0, <1>5 DEF SerialInv
<1>7. \A u \in Thread : \A n \in DOMAIN calls[u] : calls[u][n].pc \notin SettingUp
  BY <1>0, <1>1, LoggingAssumption DEF OwnerInv
<1>8. /\ cls'[c].serial = serial'
      /\ \A d \in Class : d # c => cls'[d] = cls[d]
      /\ DOMAIN cls' = Class
  BY <1>0, <1>3, <1>4 DEF FieldsInv
<1> HIDE DEF c, call
<1>9. FieldsInv'
  <2>1. cls'[c] = [serial |-> serial', minlvl |-> cls[c].minlvl, chain |-> cls[c].chain]
    BY <1>0, <1>3, <1>4 DEF FieldsInv
  <2>2. block' \in live' BY <1>0, <1>5 DEF FieldsInv, setupvars
  <2>3. Len(chains') >= 1 /\ \E S : chains' \in Seq(S)
    <3>1. PICK one : one = <<Default>> OBVIOUS
    <3>2. one \in Seq({Default}) /\ Len(one) = 1 BY <3>1
    <3>3. CASE chains' = one BY <3>2, <3>3
    <3>4. CASE UNCHANGED chains BY <1>0, <3>4 DEF FieldsInv
    <3> QED BY <1>5, <3>1, <3>3, <3>4 DEF setupvars
  <2> QED BY <1>0, <1>1, <1>8, <2>1, <2>2, <2>3 DEF FieldsInv
<1>10. /\ StackInv'
       /\ Len(calls[t]) \in DOMAIN calls[t] /\ calls'[t][Len(calls[t])] = call
       /\ DOMAIN calls'[t] = DOMAIN calls[t]
       /\ In(t, "default")'
       /\ \A n \in DOMAIN calls[t] : n # Len(calls[t])
             => calls'[t][n] = calls[t][n] /\ calls[t][n].pc = "level"
       /\ \A u \in Thread : u # t => calls'[u] = calls[u]
  BY <1>0, <1>1, <1>3, ContinueFacts
<1>11. OwnerInv' BY <1>1, <1>7, <1>10 DEF OwnerInv, SettingUp
<1>12. SerialInv'
  <2>1. \A d \in Class : cls'[d].serial \in Nat /\ cls'[d].serial <= serial'
    BY <1>0, <1>6, <1>8 DEF SerialInv
  <2>2. \A n \in DOMAIN calls'[t] : calls'[t][n].checked \in Nat /\ calls'[t][n].checked <= serial
    <3>1. call.checked <= serial /\ call.checked \in Nat
      BY <1>0, <1>2, <1>3, <1>10, CallTypes DEF SerialInv
    <3>2. \A n \in DOMAIN calls[t] : calls[t][n].checked \in Nat BY <1>0, CallTypes
    <3> QED BY <1>0, <1>10, <3>1, <3>2 DEF SerialInv
  <2>3. \A u \in Thread : \A n \in DOMAIN calls[u] : calls[u][n].checked \in Nat
    BY <1>0, CallTypes
  <2>4. \A u \in Thread : \A n \in DOMAIN calls'[u] : calls'[u][n].checked <= serial'
    BY <1>0, <1>6, <1>10, <2>2, <2>3 DEF SerialInv
  <2> QED BY <1>6, <2>1, <2>4 DEF SerialInv
<1>13. MarkedInv'
  <2>1. CASE serial' = serial + 1
    <3>1. \A u \in Thread : \A n \in DOMAIN calls'[u] : calls'[u][n].checked # serial'
      <4>1. \A u \in Thread : \A n \in DOMAIN calls[u] :
               calls[u][n].checked \in Nat /\ calls[u][n].checked <= serial
        BY <1>0, CallTypes DEF SerialInv
      <4>2. \A u \in Thread : \A n \in DOMAIN calls'[u] : calls'[u][n].checked = calls[u][n].checked
        BY <1>2, <1>3, <1>10
      <4>3. \A u \in Thread : DOMAIN calls'[u] = DOMAIN calls[u] BY <1>10
      <4> QED BY <1>0, <2>1, <4>1, <4>2, <4>3 DEF SerialInv
    <3> QED BY <3>1 DEF MarkedInv
  <2>2. CASE serial' = serial
    <3>1. \A d \in Class : cls[d].serial = serial => cls'[d].serial = serial'
      BY <1>8, <2>2
    <3>2. \A u \in Thread : \A n \in DOMAIN calls[u] : calls[u][n].cls \in Class
      BY <1>0, CallTypes
    <3> QED BY <1>0, <1>3, <1>8, <1>10, <2>2, <3>1, <3>2 DEF MarkedInv
  <2> QED BY <1>5, <2>1, <2>2
<1>14. ForceInv'
  <2> SUFFICES ASSUME NEW d \in Class, cls'[d].serial = serial', Idles(d)' PROVE InForce(d)'
    BY DEF ForceInv
  <2>1. d # c BY <1>3, <1>10 DEF Idles, SettingUp
  <2>2. cls'[d] = cls[d] BY <1>8, <2>1
  <2>3. serial' = serial /\ UNCHANGED setupvars BY <1>0, <1>5, <2>2 DEF SerialInv
  <2>4. Idles(d) BY <1>7 DEF Idles
  <2>5. InForce(d) BY <1>0, <2>2, <2>3, <2>4 DEF ForceInv
  <2>6. ~Adding /\ ~Adding' BY <1>1, <1>10 DEF Adding
  <2> QED BY <2>2, <2>3, <2>5, <2>6 DEF InForce, Announced, Naming, Names, setupvars
<1> QED BY <1>9, <1>10, <1>11, <1>12, <1>13, <1>14 DEF LogInv

\* A class takes over the chain at i, and stays marked as it is.
LEMMA TakeOverFacts ==
  ASSUME FieldsInv, NEW c \in Class, NEW i, TakeOver(c, i), UNCHANGED setupvars,
         mutex' \in Thread \union {NULL}
  PROVE  /\ FieldsInv'
         /\ cls'[c].minlvl = chains[i].minlvl /\ cls'[c].chain = [block |-> block, at |-> i]
         /\ \A d \in Class : cls'[d].serial = cls[d].serial
         /\ \A d \in Class : d # c => cls'[d] = cls[d]
<1> DEFINE b == [block |-> block, at |-> i]
<1>1. cls' = [cls EXCEPT ![c].minlvl = chains[i].minlvl, ![c].chain = b]
  BY DEF TakeOver
<1>2. cls'[c] = [serial |-> cls[c].serial, minlvl |-> chains[i].minlvl, chain |-> b]
  <2> DEFINE r == cls[c]
             u == [cls EXCEPT ![c].minlvl = chains[i].minlvl]
  <2>1. r = [serial |-> r.serial, minlvl |-> r.minlvl, chain |-> r.chain] BY DEF FieldsInv
  <2>2. u[c] = [r EXCEPT !.minlvl = chains[i].minlvl] /\ DOMAIN u = Class BY DEF FieldsInv
  <2>3. u[c] = [serial |-> r.serial, minlvl |-> chains[i].minlvl, chain |-> r.chain]
    BY <2>1, <2>2
  <2>4. cls' = [u EXCEPT ![c].chain = b] BY <1>1
  <2>5. cls'[c] = [u[c] EXCEPT !.chain = b] BY <2>2, <2>4
  <2> QED BY <2>3, <2>5
<1>3. DOMAIN cls' = Class /\ \A d \in Class : d # c => cls'[d] = cls[d] BY <1>1 DEF FieldsInv
<1> QED BY <1>2, <1>3 DEF FieldsInv, setupvars

\* The middle step of logger_resetup: the class has the settings of the first chain,
\* and is still being set up.
LEMMA DefaultKeeps ==
  ASSUME LogInv, NEW t \in Thread, ResetupDefault(t) PROVE LogInv'
<1> DEFINE c == Now(t).cls
           call == [Now(t) EXCEPT !.pc = "match"]
           m == Len(calls[t])
<1>0. FieldsInv /\ StackInv /\ OwnerInv /\ SerialInv /\ MarkedInv /\ ForceInv BY DEF LogInv
<1>1. /\ ~Idle(t) /\ Now(t).pc = "default" /\ Continue(t, call) /\ TakeOver(c, 1)
      /\ UNCHANGED <<setupvars, mutex>> /\ serial' = serial
  BY DEF ResetupDefault, In, GoTo, setupvars
<1>2. Now(t) \in Call /\ Now(t) = calls[t][m] BY <1>0, <1>1, UnderFacts
<1>3. /\ call \in Call /\ call.pc = "match" /\ call.cls = c /\ call.checked = Now(t).checked
      /\ c \in Class
  BY <1>2 DEF Call
<1>4. /\ FieldsInv'
      /\ \A d \in Class : cls'[d].serial = cls[d].serial
      /\ \A d \in Class : d # c => cls'[d] = cls[d]
  BY <1>0, <1>1, <1>3, TakeOverFacts DEF FieldsInv
<1> HIDE DEF c, call
<1>5. /\ StackInv'
      /\ In(t, "match")'
      /\ m \in DOMAIN calls[t] /\ calls'[t][m] = call
      /\ DOMAIN calls'[t] = DOMAIN calls[t]
      /\ \A n \in DOMAIN calls[t] : n # m
            => calls'[t][n] = calls[t][n] /\ calls[t][n].pc = "level"
      /\ \A u \in Thread : u # t => calls'[u] = calls[u]
  BY <1>0, <1>1, <1>3, ContinueFacts
<1>6. OwnerInv'
  <2>1. mutex = t BY <1>0, <1>1, <1>2, <1>5 DEF OwnerInv, SettingUp
  <2> QED BY <1>0, <1>1, <1>5, <2>1 DEF OwnerInv, SettingUp
<1>7. SerialInv' BY <1>0, <1>1, <1>2, <1>3, <1>4, <1>5 DEF SerialInv
<1>8. MarkedInv'
  <2>1. \A u \in Thread : \A n \in DOMAIN calls[u] : calls[u][n].cls \in Class
    BY <1>0, CallTypes
  <2>2. call.checked = serial => cls[c].serial = serial
    BY <1>0, <1>1, <1>2, <1>3, <1>5 DEF MarkedInv, SettingUp, c
  <2> QED BY <1>0, <1>1, <1>3, <1>4, <1>5, <2>1, <2>2 DEF MarkedInv
<1>9. ForceInv'
  <2> SUFFICES ASSUME NEW d \in Class, cls'[d].serial = serial, Idles(d)' PROVE InForce(d)'
    BY <1>1 DEF ForceInv
  <2>1. d # c BY <1>3, <1>5 DEF Idles, SettingUp
  <2>2. cls'[d] = cls[d] BY <1>4, <2>1
  <2>3. Idles(d)
    <3>1. calls[t][m].cls # d BY <1>2, <2>1 DEF c
    <3> QED BY <1>5, <3>1 DEF Idles, SettingUp
  <2>4. InForce(d) BY <1>0, <2>2, <2>3 DEF ForceInv
  <2>5. mutex = t BY <1>0, <1>1, <1>2, <1>5 DEF OwnerInv, SettingUp
  <2>6. ~Adding /\ ~Adding' BY <1>1, <1>5, <2>5 DEF Adding, In
  <2> QED BY <1>1, <2>2, <2>4, <2>6 DEF InForce, Announced, Naming, Names, setupvars
<1> QED BY <1>4, <1>5, <1>6, <1>7, <1>8, <1>9 DEF LogInv

\* The last step of logger_resetup: the class has the settings in force.
LEMMA MatchKeeps ==
  ASSUME LogInv, NEW t \in Thread, ResetupMatch(t) PROVE LogInv'
<1> DEFINE c == Now(t).cls
           call == [Now(t) EXCEPT !.pc = "level"]
           note == Called(Own, WARN)
           m == Len(calls[t])
           s == Under(t) \o <<call, note>>
<1>0. FieldsInv /\ StackInv /\ OwnerInv /\ SerialInv /\ MarkedInv /\ ForceInv BY DEF LogInv
<1>1. /\ ~Idle(t) /\ Now(t).pc = "match" /\ TakeOver(c, LastOf(Naming(c, Len(chains))))
      /\ UNCHANGED setupvars /\ serial' = serial /\ mutex' = NULL
      /\ calls' = [calls EXCEPT ![t] = s]
  BY DEF ResetupMatch, In, setupvars
<1>2. /\ Now(t) \in Call /\ Now(t) = calls[t][m] /\ m \in Nat \ {0}
      /\ Len(Under(t)) = m - 1 /\ Under(t) \in Seq(Call)
      /\ \A n \in 1..(m - 1) : Under(t)[n] = calls[t][n] /\ Under(t)[n].pc = "level"
  BY <1>0, <1>1, UnderFacts
<1>3. /\ call \in Call /\ call.pc = "level" /\ call.cls = c /\ call.checked = Now(t).checked
      /\ c \in Class
  BY <1>2 DEF Call
<1>4. note \in Call /\ note.pc = "check" /\ note.checked = 0
  BY LoggingAssumption DEF Called, Call, Level, WARN, DIAG
<1>5. /\ FieldsInv'
      /\ cls'[c].minlvl = chains[LastOf(Naming(c, Len(chains)))].minlvl
      /\ cls'[c].chain = [block |-> block, at |-> LastOf(Naming(c, Len(chains)))]
      /\ \A d \in Class : cls'[d].serial = cls[d].serial
      /\ \A d \in Class : d # c => cls'[d] = cls[d]
  BY <1>0, <1>1, <1>3, TakeOverFacts
<1> HIDE DEF c, call, note
<1>6. /\ s \in Seq(Call) /\ Len(s) = m + 1 /\ s[m] = call /\ s[m + 1] = note
      /\ \A n \in 1..(m - 1) : s[n] = Under(t)[n]
  BY <1>2, <1>3, <1>4
<1>7. calls[t] \in Seq(Call) BY <1>0 DEF StackInv
<1>8. DOMAIN calls[t] = 1..m /\ DOMAIN s = 1..(m + 1) /\ m \in DOMAIN calls[t]
  BY <1>2, <1>6, <1>7
<1>9. calls'[t] = s /\ \A u \in Thread : u # t => calls'[u] = calls[u]
  BY <1>0, <1>1 DEF StackInv
<1> HIDE DEF s
<1>10. \A n \in DOMAIN s :
          \/ n \in 1..(m - 1) /\ s[n] = calls[t][n] /\ s[n].pc = "level"
          \/ n = m /\ s[n] = call
          \/ n = m + 1 /\ s[n] = note
  <2> TAKE n \in DOMAIN s
  <2>1. n \in 1..(m - 1) \/ n = m \/ n = m + 1 BY <1>2, <1>8
  <2>2. CASE n \in 1..(m - 1)
    <3>1. s[n] = Under(t)[n] BY <1>6, <2>2
    <3>2. Under(t)[n] = calls[t][n] /\ Under(t)[n].pc = "level" BY <1>2, <2>2
    <3> QED BY <2>2, <3>1, <3>2
  <2> QED BY <1>6, <2>1, <2>2
<1>11. mutex = t BY <1>0, <1>1, <1>2, <1>8 DEF OwnerInv, SettingUp
<1>12. \A u \in Thread : u # t => \A n \in DOMAIN calls[u] : calls[u][n].pc \notin SettingUp
  BY <1>0, <1>11 DEF OwnerInv
<1>13. StackInv'
  <2>1. calls' \in [Thread -> Seq(Call)] BY <1>0, <1>1, <1>6 DEF StackInv
  <2>2. \A n \in 1..(Len(s) - 1) : n \in DOMAIN s /\ n # m + 1 BY <1>2, <1>6, <1>8
  <2>3. \A n \in 1..(Len(s) - 1) : s[n].pc = "level" BY <1>3, <1>10, <2>2
  <2> QED BY <1>0, <1>9, <2>1, <2>3 DEF StackInv
<1>14. OwnerInv' BY <1>3, <1>4, <1>9, <1>10, <1>12 DEF OwnerInv, SettingUp
<1>15. SerialInv'
  <2>1. call.checked <= serial /\ note.checked <= serial
    BY <1>0, <1>2, <1>3, <1>4, <1>8 DEF SerialInv
  <2>2. \A n \in DOMAIN s : s[n].checked <= serial
    BY <1>0, <1>2, <1>8, <1>10, <2>1 DEF SerialInv
  <2> QED BY <1>0, <1>1, <1>5, <1>9, <2>2 DEF SerialInv
<1>16. MarkedInv'
  <2>1. \A u \in Thread : \A n \in DOMAIN calls[u] : calls[u][n].cls \in Class
    BY <1>0, CallTypes
  <2>2. call.checked = serial => cls[c].serial = serial
    BY <1>0, <1>1, <1>2, <1>3, <1>8 DEF MarkedInv, SettingUp, c
  <2>3. \A n \in DOMAIN s : s[n].pc \in SettingUp \union {"level", "use"} /\ s[n].checked = serial
          => cls'[s[n].cls].serial = serial
    <3> SUFFICES ASSUME NEW n \in DOMAIN s,
                        s[n].pc \in SettingUp \union {"level", "use"}, s[n].checked = serial
                 PROVE  cls'[s[n].cls].serial = serial
      OBVIOUS
    <3>1. CASE n \in 1..(m - 1) /\ s[n] = calls[t][n]
      <4>1. n \in DOMAIN calls[t] BY <1>2, <1>8, <3>1
      <4>2. cls[calls[t][n].cls].serial = serial BY <1>0, <3>1, <4>1 DEF MarkedInv
      <4> QED BY <1>5, <2>1, <3>1, <4>1, <4>2
    <3>2. CASE s[n] = call BY <1>3, <1>5, <2>2, <3>2
    <3>3. CASE s[n] = note BY <1>4, <3>3 DEF SettingUp
    <3> QED BY <1>10, <3>1, <3>2, <3>3
  <2> QED BY <1>0, <1>1, <1>5, <1>9, <2>1, <2>3 DEF MarkedInv
<1>17. ForceInv'
  <2> SUFFICES ASSUME NEW d \in Class, cls'[d].serial = serial, Idles(d)' PROVE InForce(d)'
    BY <1>1 DEF ForceInv
  <2>0. ~Adding /\ ~Adding' BY <1>1, <1>11 DEF Adding, In
  <2>1. CASE d = c
    <3>1. PICK last : last = LastOf(Naming(d, Len(chains))) OBVIOUS
    <3>2. /\ cls'[d].minlvl = chains[last].minlvl
          /\ cls'[d].chain.block = block /\ cls'[d].chain.at = last
      BY <1>5, <2>1, <3>1
    <3>3. /\ Announced' = Len(chains) /\ Naming(d, Announced)' = Naming(d, Len(chains))
          /\ UNCHANGED <<chains, block>>
      BY <1>1, <2>0 DEF Announced, Naming, Names, setupvars
    <3> QED BY <3>1, <3>2, <3>3 DEF InForce
  <2>2. CASE d # c
    <3>1. Idles(d)
      <4>1. calls[t][m].cls # d BY <1>2, <2>2 DEF c
      <4>2. \A n \in DOMAIN calls[t] : n # m => calls[t][n].pc = "level" BY <1>2, <1>8
      <4> QED BY <1>12, <4>1, <4>2 DEF Idles, SettingUp
    <3>2. InForce(d) BY <1>0, <1>5, <2>2, <3>1 DEF ForceInv
    <3> QED BY <1>1, <1>5, <2>0, <2>2, <3>2 DEF InForce, Announced, Naming, Names, setupvars
  <2> QED BY <2>1, <2>2
<1> QED BY <1>5, <1>13, <1>14, <1>15, <1>16, <1>17 DEF LogInv

\* A class has the settings in force of the chains there were, when one is added.
LEMMA AddKeeps ==
  ASSUME LogInv, Add PROVE LogInv'
<1>0. FieldsInv /\ StackInv /\ OwnerInv /\ SerialInv /\ MarkedInv /\ ForceInv BY DEF LogInv
<1> DEFINE e == [name |-> conf.name, minlvl |-> conf.level]
<1>1. /\ Idle(Main) /\ mutex = NULL /\ mutex' = Main /\ Main # NULL
      /\ chains' = Append(chains, e) /\ block' \in live' /\ UNCHANGED <<serial, cls, calls>>
  BY SettingsAssumption, LoggingAssumption DEF Add, At, AddChain
<1>2. PICK S : chains \in Seq(S) BY <1>0 DEF FieldsInv
<1>3. PICK n : n = Len(chains) OBVIOUS
<1> HIDE DEF e
<1>4. chains \in Seq(S \union {e}) BY <1>2
<1>5. /\ chains' \in Seq(S \union {e}) /\ Len(chains') = n + 1 /\ n \in Nat /\ n >= 1
      /\ \A i \in 1..n : chains'[i] = chains[i]
  BY <1>0, <1>1, <1>3, <1>4 DEF FieldsInv
<1>6. FieldsInv' BY <1>0, <1>1, <1>5, SettingsAssumption DEF FieldsInv
<1>7. StackInv' /\ SerialInv' /\ MarkedInv' BY <1>0, <1>1 DEF StackInv, SerialInv, MarkedInv
<1>8. OwnerInv' BY <1>0, <1>1, LoggingAssumption DEF OwnerInv
<1>9. ForceInv'
  <2> SUFFICES ASSUME NEW c \in Class, cls[c].serial = serial, Idles(c) PROVE InForce(c)'
    BY <1>1 DEF ForceInv, Idles
  <2>1. InForce(c) BY <1>0 DEF ForceInv
  <2>2. ~Adding /\ Adding' BY <1>1 DEF Adding, In, Idle
  <2>3. Announced = n /\ Announced' = n BY <1>3, <1>5, <2>2 DEF Announced
  <2>4. Naming(c, n)' = Naming(c, n)
    <3>1. \A i \in 2..n : i \in 1..n BY <1>5
    <3> QED BY <1>5, <3>1 DEF Naming, Names
  <2>5. LastOf(Naming(c, n)) \in 1..n
    <3>1. Naming(c, n) \in SUBSET (1..n) /\ Naming(c, n) # {} BY <1>5 DEF Naming
    <3>2. \E i \in Naming(c, n) : \A j \in Naming(c, n) : j <= i BY <1>5, <3>1, Largest
    <3>3. LastOf(Naming(c, n)) \in Naming(c, n) BY <3>2 DEF LastOf
    <3> QED BY <3>1, <3>3
  <2>6. chains'[LastOf(Naming(c, n))] = chains[LastOf(Naming(c, n))] BY <1>5, <2>5
  <2> QED BY <1>1, <2>1, <2>2, <2>3, <2>4, <2>6 DEF InForce
<1> QED BY <1>6, <1>7, <1>8, <1>9 DEF LogInv

\* When the serial has been raised no class is current.
LEMMA RaiseKeeps ==
  ASSUME LogInv, Raise PROVE LogInv'
<1>0. FieldsInv /\ StackInv /\ OwnerInv /\ SerialInv /\ MarkedInv /\ ForceInv BY DEF LogInv
<1>1. /\ serial' = serial + 1 /\ Idle(Main) /\ mutex = Main /\ mutex' = NULL
      /\ UNCHANGED <<chains, block, live, cls, calls>>
  BY DEF Raise, At, RaiseSerial, Unlock
<1>2. FieldsInv' /\ StackInv' BY <1>0, <1>1 DEF FieldsInv, StackInv
<1>3. OwnerInv'
  <2>1. calls[Main] = <<>> /\ DOMAIN <<>> = 1..0 BY <1>1 DEF Idle
  <2>2. 1..0 = {} BY SMT
  <2>3. DOMAIN calls[Main] = {} BY <2>1, <2>2
  <2> QED BY <1>0, <1>1, <2>3 DEF OwnerInv
<1>4. \A u \in Thread : \A n \in DOMAIN calls[u] :
         calls[u][n].checked \in Nat /\ calls[u][n].checked <= serial
  BY <1>0, CallTypes DEF SerialInv
<1>5. SerialInv' BY <1>0, <1>1, <1>4 DEF SerialInv
<1>6. MarkedInv' BY <1>0, <1>1, <1>4 DEF MarkedInv, SerialInv
<1>7. ForceInv' BY <1>0, <1>1 DEF ForceInv, SerialInv
<1> QED BY <1>2, <1>3, <1>5, <1>6, <1>7 DEF LogInv

-----------------------------------------------------------------------------
\* No step of a message and no step on contexts disturbs what is said of classes.
LEMMA OthersKeep ==
  ASSUME LogInv, NEW t \in Thread, Others(t) PROVE LogInv'
<1>1. CASE MessageStep(t)
  BY <1>1, QuietMessage, ResetupKeeps, DefaultKeeps, MatchKeeps DEF MessageStep
<1>2. ASSUME NEW c \in Class, Message(t, c, WARN) PROVE LogInv'
  BY <1>2, BeginKeeps DEF Message
<1>3. CASE PushContext(t) \/ PopContext(t) \/ ClearContext(t)
  BY <1>3, ElsewhereKept DEF PushContext, PopContext, ClearContext
<1> QED BY <1>1, <1>2, <1>3 DEF Others

\* A getter may log; but for that settings_configure adds chains only.
LEMMA MainKeeps ==
  ASSUME LogInv, MainStep PROVE LogInv'
<1>1. ASSUME NEW value, NEW hasdefault, Warn(value, hasdefault) PROVE LogInv'
  <2>1. CASE Begin(Main, Self, WARN) /\ UNCHANGED <<setupvars, cls, mutex>>
    BY <2>1, BeginKeeps, SettingsAssumption
  <2>2. CASE UNCHANGED lvars BY <2>2, ElsewhereKept DEF lvars
  <2> QED BY <1>1, <2>1, <2>2 DEF Warn
<1>2. CASE UNCHANGED lvars BY <1>2, ElsewhereKept DEF lvars
<1>3. CASE Verbosity \/ Name \/ ClassLevel \/ Target
  BY <1>1, <1>2, <1>3 DEF Verbosity, Name, ClassLevel, Target
<1>4. CASE Configure \/ Done \/ Free BY <1>2, <1>4 DEF Configure, Done, Free
<1> QED BY <1>3, <1>4, AddKeeps, RaiseKeeps DEF MainStep

\* Calls, classes, chains and the mutex agree between any two steps.
THEOREM LoggingInvariant == Spec => []LogInv
<1>1. Init => LogInv
  <2> SUFFICES ASSUME LoggingInit PROVE LogInv BY DEF Init
  <2>1. \A t \in Thread : calls[t] = <<>> BY DEF LoggingInit
  <2>2. \A t \in Thread : DOMAIN calls[t] = {} /\ Len(calls[t]) = 0
    <3>1. <<>> \in Seq(Call) /\ Len(<<>>) = 0 OBVIOUS
    <3>2. DOMAIN <<>> = 1..0 OBVIOUS
    <3>3. 1..0 = {} BY SMT
    <3> QED BY <2>1, <3>1, <3>2, <3>3
  <2>3. \A c \in Class : cls[c].serial = 0 BY DEF LoggingInit
  <2>4. FieldsInv
    <3>1. PICK one : one = <<Default>> OBVIOUS
    <3>2. one \in Seq({Default}) /\ Len(one) = 1 BY <3>1
    <3>3. chains = one BY <3>1 DEF LoggingInit
    <3>4. Len(chains) >= 1 /\ \E S : chains \in Seq(S) BY <3>2, <3>3
    <3> QED BY <3>4 DEF FieldsInv, LoggingInit
  <2>5. StackInv
    <3>1. calls \in [Thread -> Seq(Call)] BY DEF LoggingInit
    <3> QED BY <2>2, <3>1 DEF StackInv
  <2>6. OwnerInv /\ MarkedInv BY <2>2 DEF OwnerInv, MarkedInv
  <2>7. SerialInv BY <2>2, <2>3 DEF SerialInv, LoggingInit
  <2>8. ForceInv BY <2>3 DEF ForceInv, LoggingInit
  <2> QED BY <2>4, <2>5, <2>6, <2>7, <2>8 DEF LogInv
<1>2. LogInv /\ [Next]_vars => LogInv'
  <2> SUFFICES ASSUME LogInv, [Next]_vars PROVE LogInv' OBVIOUS
  <2>1. CASE UNCHANGED vars BY <2>1, ElsewhereKept DEF vars, lvars
  <2> QED BY <2>1, OthersKeep, MainKeeps DEF Next
<1> QED BY <1>1, <1>2, PTL DEF Spec

\* Who does not see a class being set up as In does, sees no call of it at all.
LEMMA NotRewriting ==
  ASSUME StackInv, NEW c \in Class, ~Rewriting(c) PROVE Idles(c)
<1> SUFFICES ASSUME NEW t \in Thread, NEW n \in DOMAIN calls[t],
                    calls[t][n].pc \in SettingUp, calls[t][n].cls = c
             PROVE  FALSE
  BY DEF Idles
<1>1. calls[t] \in Seq(Call) BY DEF StackInv
<1>2. n = Len(calls[t])
  <2>1. n \in 1..Len(calls[t]) BY <1>1
  <2> QED BY <1>1, <2>1 DEF StackInv, SettingUp
<1>3. calls[t] # <<>> BY <1>1
<1>4. Now(t) = calls[t][n] BY <1>2 DEF Now
<1> QED BY <1>3, <1>4 DEF Rewriting, In, Idle, SettingUp

\* A class marked as current has the settings of the last chain that names it,
\* whoever logs and configures in whatever order (logger_resetup).
THEOREM SettingsInForce == Spec => []CurrentIsInForce
<1>1. LogInv => CurrentIsInForce
  BY NotRewriting DEF LogInv, ForceInv, InForce, CurrentIsInForce
<1> QED BY <1>1, LoggingInvariant, PTL

\* Once the serial is raised and no thread sets the class up, who finds the
\* serials equal has its chain in memory (logger_enabled, without the mutex).
THEOREM WindowIsNarrow == Spec => []DanglingOnlyInWindow
<1>1. LogInv => DanglingOnlyInWindow
  <2> SUFFICES ASSUME LogInv, NEW t \in Thread, In(t, "use"), Now(t).checked = serial,
                      ~Adding, ~Rewriting(Now(t).cls)
               PROVE  cls[Now(t).cls].chain.block \in live
    BY DEF DanglingOnlyInWindow
  <2> DEFINE c == Now(t).cls
             m == Len(calls[t])
  <2>1. StackInv /\ ~Idle(t) BY DEF LogInv, In
  <2>2. Now(t) \in Call /\ Now(t) = calls[t][m] /\ m \in Nat \ {0} BY <2>1, UnderFacts
  <2>3. calls[t] \in Seq(Call) BY <2>1 DEF StackInv
  <2>4. m \in DOMAIN calls[t] BY <2>2, <2>3
  <2>5. c \in Class BY <2>2 DEF Call
  <2>6. cls[c].serial = serial BY <2>2, <2>4 DEF LogInv, MarkedInv, In
  <2>7. Idles(c) BY <2>1, <2>5, NotRewriting
  <2>8. InForce(c) BY <2>5, <2>6, <2>7 DEF LogInv, ForceInv
  <2>9. cls[c].chain.block = block BY <2>8 DEF InForce
  <2> QED BY <2>9 DEF LogInv, FieldsInv
<1> QED BY <1>1, LoggingInvariant, PTL

-----------------------------------------------------------------------------
(* How a configuration is forgotten.                                       *)

\* Until somebody has logged too early, no class carries the serial 1, nor is
\* anybody on the way to give it to one: while the first chain is being added who
\* logs finds another serial and waits for the mutex.
EarlyInv == /\ serial >= 1
            /\ serial = 1 => Len(chains) = 1 \/ Adding
            /\ early = {} => /\ \A c \in Class : cls[c].serial # 1
                             /\ serial = 1 /\ Len(chains) = 1
                                => \A t \in Thread : calls[t] = <<>>

\* There are chains, and their number is one.
LEMMA ChainsLength ==
  ASSUME LogInv PROVE Len(chains) \in Nat /\ serial \in Nat
<1>1. \E S : chains \in Seq(S) BY DEF LogInv, FieldsInv
<1> QED BY <1>1 DEF LogInv, SerialInv

\* Steps that add no chain and begin no message.
LEMMA EarlyElsewhere ==
  ASSUME LogInv, EarlyInv, UNCHANGED <<setupvars, cls, mutex, calls, early>>
  PROVE  EarlyInv' /\ ~(Len(chains') < Len(chains))
<1>1. Adding' <=> Adding BY DEF Adding, In, Idle, Now
<1> QED BY <1>1, ChainsLength DEF EarlyInv, setupvars

\* The first step of a message: too early, it is noted.
LEMMA EarlyBegin ==
  ASSUME LogInv, EarlyInv, NEW t \in Thread, NEW c \in Class, Begin(t, c, WARN),
         UNCHANGED <<setupvars, cls, mutex>>
  PROVE  EarlyInv' /\ ~(Len(chains') < Len(chains))
<1>1. Adding' <=> Adding BY BeginAdding
<1>2. CASE serial = 1 /\ Len(chains) = 1
  <2>1. t \in early' BY <1>2 DEF Begin
  <2> QED BY <1>1, <2>1, ChainsLength DEF EarlyInv, setupvars
<1>3. CASE ~(serial = 1 /\ Len(chains) = 1)
  <2>1. early' = early BY <1>3 DEF Begin
  <2> QED BY <1>1, <1>3, <2>1, ChainsLength DEF EarlyInv, setupvars
<1> QED BY <1>2, <1>3

\* A message that goes on makes the chains anew only for a class that logged
\* too early.
LEMMA EarlyMessage ==
  ASSUME LogInv, EarlyInv, NEW t \in Thread, MessageStep(t)
  PROVE  EarlyInv' /\ (Len(chains') < Len(chains) => early # {})
<1>0. FieldsInv /\ StackInv /\ OwnerInv /\ SerialInv BY DEF LogInv
<1>1. calls[t] # <<>> /\ early' = early
  BY DEF MessageStep, Check, Resetup, ResetupDefault, ResetupMatch, Enabled, Use,
     In, Idle, StaysOut
<1>2. Len(chains) \in Nat /\ serial \in Nat BY ChainsLength
<1>3. early = {} => ~(serial = 1 /\ Len(chains) = 1) BY <1>1 DEF EarlyInv
<1>4. Now(t).cls \in Class
  <2>1. Now(t) \in Call BY <1>0, <1>1, UnderFacts DEF Idle
  <2> QED BY <2>1 DEF Call
<1>5. ASSUME UNCHANGED setupvars, \A c \in Class : early = {} => cls'[c].serial # 1,
             Adding => Adding'
      PROVE  EarlyInv' /\ (Len(chains') < Len(chains) => early # {})
  BY <1>1, <1>2, <1>3, <1>5 DEF EarlyInv, setupvars
<1>6. CASE Check(t) \/ Enabled(t) \/ Use(t)
  <2>1. Adding <=> Adding' BY <1>6, QuietAdding
  <2> QED BY <1>5, <1>6, <2>1 DEF Check, Enabled, Use, EarlyInv
<1>7. CASE ResetupDefault(t) \/ ResetupMatch(t)
  <2>1. PICK i : TakeOver(Now(t).cls, i) BY <1>7 DEF ResetupDefault, ResetupMatch
  <2>2. UNCHANGED setupvars /\ mutex' \in {mutex, NULL}
    BY <1>7 DEF ResetupDefault, ResetupMatch, setupvars
  <2>3. \A c \in Class : cls'[c].serial = cls[c].serial
    BY <1>0, <1>4, <2>1, <2>2, TakeOverFacts DEF FieldsInv
  <2>4. ~Adding
    <3>1. In(t, "default") \/ In(t, "match") BY <1>7 DEF ResetupDefault, ResetupMatch
    <3>2. Now(t) = calls[t][Len(calls[t])] /\ Len(calls[t]) \in DOMAIN calls[t]
      BY <1>0, <1>1, UnderFacts DEF Idle, StackInv
    <3>3. mutex = t BY <1>0, <3>1, <3>2 DEF OwnerInv, In, SettingUp
    <3> QED BY <3>1, <3>3 DEF Adding
  <2> QED BY <1>5, <2>2, <2>3, <2>4 DEF EarlyInv
<1>8. CASE Resetup(t)
  <2>0. ~Adding BY <1>8 DEF Resetup, Adding
  <2>1. cls' = [cls EXCEPT ![Now(t).cls].serial = serial'] BY <1>8 DEF Resetup
  <2>2. \A c \in Class : cls'[c].serial = IF c = Now(t).cls THEN serial' ELSE cls[c].serial
    BY <1>0, <2>1 DEF FieldsInv
  <2>3. CASE early = {}
    <3>1. ~Unset(Now(t).cls) BY <1>4, <2>3 DEF EarlyInv, Unset
    <3>2. UNCHANGED setupvars BY <1>8, <3>1 DEF Resetup
    <3>3. serial' # 1 BY <1>3, <2>0, <2>3, <3>2 DEF setupvars, EarlyInv
    <3> QED BY <1>5, <2>0, <2>2, <3>2, <3>3 DEF EarlyInv
  <2>4. CASE early # {} /\ UNCHANGED setupvars BY <1>5, <2>0, <2>4
  <2>5. CASE early # {} /\ Reinitialize
    <3>2. serial' = serial + 1 BY <2>5 DEF Reinitialize
    <3> QED BY <1>1, <1>2, <2>5, <3>2 DEF EarlyInv
  <2> QED BY <1>8, <2>3, <2>4, <2>5 DEF Resetup
<1> QED BY <1>6, <1>7, <1>8 DEF MessageStep

\* A chain more, and then the serial raised.
LEMMA EarlyAdd ==
  ASSUME LogInv, EarlyInv, Add \/ Raise
  PROVE  EarlyInv' /\ ~(Len(chains') < Len(chains))
<1>1. CASE Add
  <2> DEFINE e == [name |-> conf.name, minlvl |-> conf.level]
  <2>1. /\ chains' = Append(chains, e) /\ UNCHANGED <<serial, cls, calls, early>>
        /\ mutex' = Main /\ Main # NULL /\ Idle(Main)
    BY <1>1, SettingsAssumption, LoggingAssumption DEF Add, At, AddChain
  <2>2. PICK S : chains \in Seq(S) BY DEF LogInv, FieldsInv
  <2> HIDE DEF e
  <2>3. chains \in Seq(S \union {e}) BY <2>2
  <2>4. Len(chains') = Len(chains) + 1 /\ Len(chains) \in Nat BY <2>1, <2>3
  <2>5. Adding' BY <2>1 DEF Adding, In, Idle
  <2>6. Len(chains) >= 1 BY DEF LogInv, FieldsInv
  <2> QED BY <2>1, <2>4, <2>5, <2>6 DEF EarlyInv
<1>2. CASE Raise
  <2>1. serial' = serial + 1 /\ UNCHANGED <<chains, cls, early>>
    BY <1>2 DEF Raise, RaiseSerial, Unlock
  <2> QED BY <2>1, ChainsLength DEF EarlyInv
<1> QED BY <1>1, <1>2

\* So does every step keep it.
LEMMA EarlyNext ==
  ASSUME LogInv, EarlyInv, [Next]_vars
  PROVE  EarlyInv' /\ (Len(chains') < Len(chains) => early # {})
<1>1. CASE UNCHANGED lvars BY <1>1, EarlyElsewhere DEF lvars
<1>2. ASSUME NEW t \in Thread, Others(t)
      PROVE  EarlyInv' /\ (Len(chains') < Len(chains) => early # {})
  <2>1. CASE MessageStep(t) BY <2>1, EarlyMessage
  <2>2. ASSUME NEW c \in Class, Message(t, c, WARN)
        PROVE  EarlyInv' /\ ~(Len(chains') < Len(chains))
    BY <2>2, EarlyBegin DEF Message
  <2>3. CASE PushContext(t) \/ PopContext(t) \/ ClearContext(t)
    BY <2>3, EarlyElsewhere DEF PushContext, PopContext, ClearContext
  <2> QED BY <1>2, <2>1, <2>2, <2>3 DEF Others
<1>3. ASSUME NEW value, NEW hasdefault, Warn(value, hasdefault)
      PROVE  EarlyInv' /\ ~(Len(chains') < Len(chains))
  <2>1. CASE Begin(Main, Self, WARN) /\ UNCHANGED <<setupvars, cls, mutex>>
    BY <2>1, EarlyBegin, SettingsAssumption
  <2>2. CASE UNCHANGED lvars BY <2>2, EarlyElsewhere DEF lvars
  <2> QED BY <1>3, <2>1, <2>2 DEF Warn
<1>4. CASE Verbosity \/ Name \/ ClassLevel \/ Target
  BY <1>1, <1>3, <1>4 DEF Verbosity, Name, ClassLevel, Target
<1>5. CASE Configure \/ Done \/ Free BY <1>1, <1>5 DEF Configure, Done, Free
<1>6. CASE UNCHANGED vars BY <1>1, <1>6 DEF vars
<1> QED BY <1>2, <1>4, <1>5, <1>6, EarlyAdd DEF Next, MainStep

\* So it holds throughout.
LEMMA EarlyInvariant == Spec => [](LogInv /\ EarlyInv)
<1>1. Init => EarlyInv
  <2> SUFFICES ASSUME LoggingInit PROVE EarlyInv BY DEF Init
  <2>1. Len(chains) = 1 BY DEF LoggingInit
  <2>2. \A c \in Class : cls[c].serial = 0 BY DEF LoggingInit
  <2>3. \A t \in Thread : calls[t] = <<>> BY DEF LoggingInit
  <2>4. serial = 1 BY DEF LoggingInit
  <2> QED BY <2>1, <2>2, <2>3, <2>4 DEF EarlyInv
<1>2. LogInv /\ EarlyInv /\ [Next]_vars => EarlyInv' BY EarlyNext
<1> QED BY <1>1, <1>2, LoggingInvariant, PTL DEF Spec

\* A configuration is forgotten only after a message that came before the first
\* chain: the test of logger_resetup for the serial 1 does no other harm.
THEOREM Forgetting == Spec => ForgottenOnlyAfterEarlyMessage
<1>1. LogInv /\ EarlyInv /\ [Next]_vars => [Len(chains') < Len(chains) => early # {}]_lvars
  BY EarlyNext
<1> QED BY <1>1, EarlyInvariant, PTL DEF Spec, ForgottenOnlyAfterEarlyMessage
-----------------------------------------------------------------------------
(* Contexts.                                                               *)

\* Every context is under the key of one thread, before one other, or neither.
CtxInv ==
  /\ contexts \subseteq Ctx
  /\ top \in [Thread -> contexts \union {NULL}]
  /\ prev \in [Ctx -> contexts \union {NULL}]
  /\ \A s, t \in Thread : top[s] = top[t] /\ top[s] # NULL => s = t
  /\ \A x, y \in Ctx : prev[x] = prev[y] /\ prev[x] # NULL => x = y
  /\ \A x \in Ctx, t \in Thread : prev[x] = top[t] => prev[x] = NULL

\* q are the contexts that thread t pushed and has not popped, the last at the end.
Pushed(t, q) == /\ depth[t] > 0 => q[depth[t]] = top[t]
                /\ \A i \in 1..(depth[t] - 1) : prev[q[i + 1]] = q[i]
DepthInv(t) == depth[t] \in Nat /\ \E q \in [1..depth[t] -> Ctx] : Pushed(t, q)
DepthsInv == depth \in [Thread -> Nat] /\ (early = {} => \A t \in Thread : DepthInv(t))

\* The stack of a thread is closed under prev, and is its own.
LEMMA StackFacts ==
  ASSUME CtxInv, NEW t \in Thread
  PROVE  /\ Stack(t) \subseteq contexts
         /\ top[t] # NULL => top[t] \in Stack(t)
         /\ \A y \in Stack(t) : prev[y] \in Stack(t) \union {NULL}
         /\ \A s \in Thread : s # t => top[s] \notin Stack(t)
         /\ \A x \in Ctx \ Stack(t) : prev[x] \notin Stack(t)
<1>1. NULL \notin Ctx /\ Stack(t) \subseteq Ctx BY LoggingAssumption DEF Stack
<1>2. Stack(t) \subseteq contexts
  <2>1. ASSUME NEW x \in Stack(t) PROVE x \in contexts
    <3>1. top[t] \in contexts BY <2>1 DEF CtxInv, Stack
    <3>2. contexts \in SUBSET Ctx /\ \A y \in contexts : prev[y] \in contexts \union {NULL}
      BY DEF CtxInv
    <3> QED BY <2>1, <3>1, <3>2 DEF Stack
  <2> QED BY <2>1
<1>3. top[t] # NULL => top[t] \in Stack(t) BY DEF Stack, CtxInv
<1>4. \A y \in Stack(t) : prev[y] \in Stack(t) \union {NULL}
  <2> SUFFICES ASSUME NEW y \in Stack(t), prev[y] # NULL PROVE prev[y] \in Stack(t) OBVIOUS
  <2>1. prev[y] \in Ctx BY <1>1 DEF CtxInv
  <2>2. ASSUME NEW S \in SUBSET Ctx, top[t] \in S, \A z \in S : prev[z] \in S \union {NULL}
        PROVE  prev[y] \in S
    <3>1. y \in S BY <2>2 DEF Stack
    <3> QED BY <2>2, <3>1
  <2> QED BY <2>1, <2>2 DEF Stack
<1>5. \A y \in Stack(t) : y = top[t] \/ \E w \in Stack(t) : prev[w] = y
  <2> SUFFICES ASSUME NEW y \in Stack(t), y # top[t], \A w \in Stack(t) : prev[w] # y
               PROVE  FALSE
    OBVIOUS
  <2> DEFINE S == Stack(t) \ {y}
  <2>1. top[t] \in S BY <1>3 DEF Stack
  <2>2. \A z \in S : prev[z] \in S \union {NULL} BY <1>4
  <2>3. S \in SUBSET Ctx BY <1>1
  <2> HIDE DEF S
  <2>4. y \in S BY <2>1, <2>2, <2>3 DEF Stack
  <2> QED BY <2>4 DEF S
<1>6. ASSUME NEW s \in Thread, s # t PROVE top[s] \notin Stack(t)
  <2> SUFFICES ASSUME top[s] \in Stack(t) PROVE FALSE OBVIOUS
  <2>1. top[s] # NULL BY <1>1
  <2>2. top[s] # top[t] BY <1>6, <2>1 DEF CtxInv
  <2>3. PICK w \in Stack(t) : prev[w] = top[s] BY <1>5, <2>2
  <2> QED BY <1>1, <2>1, <2>3 DEF CtxInv
<1>7. ASSUME NEW x \in Ctx \ Stack(t) PROVE prev[x] \notin Stack(t)
  <2> SUFFICES ASSUME prev[x] \in Stack(t) PROVE FALSE OBVIOUS
  <2>1. prev[x] # NULL BY <1>1
  <2>2. prev[x] # top[t] BY <2>1 DEF CtxInv
  <2>3. PICK w \in Stack(t) : prev[w] = prev[x] BY <1>5, <2>2
  <2> QED BY <1>1, <2>1, <2>3 DEF CtxInv
<1> QED BY <1>2, <1>3, <1>4, <1>6, <1>7

\* So no two threads share a context.
LEMMA StacksApart ==
  ASSUME CtxInv, NEW s \in Thread, NEW t \in Thread, s # t
  PROVE  Stack(s) \intersect Stack(t) = {}
<1> DEFINE S == Stack(s) \ Stack(t)
<1>1. S \in SUBSET Ctx BY DEF Stack
<1>2. \A y \in S : prev[y] \in S \union {NULL} BY <1>1, StackFacts
<1>3. ASSUME NEW x \in Stack(s) PROVE x \in S
  <2>1. top[s] \in S BY <1>3, StackFacts DEF Stack
  <2> HIDE DEF S
  <2> QED BY <1>1, <1>2, <1>3, <2>1 DEF Stack
<1> QED BY <1>3

\* The contexts of a stack are in memory, and each is its top or before another.
LEMMA PushedFacts ==
  ASSUME CtxInv, NEW t \in Thread, depth[t] \in Nat, NEW q \in [1..depth[t] -> Ctx],
         Pushed(t, q)
  PROVE  \A i \in 1..depth[t] :
            /\ q[i] \in contexts
            /\ q[i] = top[t] \/ \E y \in Ctx : prev[y] = q[i]
            /\ i < depth[t] => q[i] # top[t]
<1> SUFFICES ASSUME NEW i \in 1..depth[t]
             PROVE  /\ q[i] \in contexts
                    /\ q[i] = top[t] \/ \E y \in Ctx : prev[y] = q[i]
                    /\ i < depth[t] => q[i] # top[t]
  OBVIOUS
<1>1. q[i] \in Ctx /\ q[i] # NULL BY LoggingAssumption
<1>2. CASE i = depth[t]
  <2>1. q[i] = top[t] BY <1>2 DEF Pushed
  <2> QED BY <1>1, <1>2, <2>1 DEF CtxInv
<1>3. CASE i < depth[t]
  <2>1. i \in 1..(depth[t] - 1) /\ i + 1 \in 1..depth[t] BY <1>3
  <2>2. q[i + 1] \in Ctx /\ prev[q[i + 1]] = q[i] BY <2>1 DEF Pushed
  <2> QED BY <1>1, <2>2 DEF CtxInv
<1> QED BY <1>2, <1>3
\* What others do leaves the stack of a thread as it is.
LEMMA PushedStays ==
  ASSUME NEW s \in Thread, depth[s] \in Nat, NEW q \in [1..depth[s] -> Ctx], Pushed(s, q),
         depth'[s] = depth[s], top'[s] = top[s],
         \A i \in 1..depth[s] : prev'[q[i]] = prev[q[i]]
  PROVE  DepthInv(s)'
<1>1. \A i \in 1..(depth[s] - 1) : i + 1 \in 1..depth[s] OBVIOUS
<1>2. \A i \in 1..(depth[s] - 1) : prev'[q[i + 1]] = q[i] BY <1>1 DEF Pushed
<1>3. Pushed(s, q)' BY <1>2 DEF Pushed
<1> QED BY <1>3 DEF DepthInv

\* Push, pop and clear keep the contexts in order.
LEMMA PushKeeps ==
  ASSUME CtxInv, DepthsInv, NEW t \in Thread, PushContext(t) PROVE CtxInv' /\ DepthsInv'
<1>0. PICK x : x = NewContext OBVIOUS
<1>1. /\ x \in Ctx \ contexts /\ x # NULL
      /\ contexts' = contexts \union {x} /\ early' = early
      /\ prev' = [prev EXCEPT ![x] = top[t]] /\ top' = [top EXCEPT ![t] = x]
      /\ depth' = [depth EXCEPT ![t] = @ + 1]
  <2>1. \E y : y \in Ctx \ contexts BY DEF PushContext, CtxInv
  <2>2. x \in Ctx \ contexts BY <1>0, <2>1 DEF NewContext
  <2> QED BY <1>0, <2>2, LoggingAssumption DEF PushContext, Push
<1>2. CtxInv'
  <2>1. /\ prev'[x] = top[t] /\ top'[t] = x
        /\ \A y \in Ctx : y # x => prev'[y] = prev[y]
        /\ \A s \in Thread : s # t => top'[s] = top[s]
    BY <1>1 DEF CtxInv
  <2>2. /\ \A y \in Ctx : prev[y] # x
        /\ \A s \in Thread : top[s] # x
    BY <1>1 DEF CtxInv
  <2>3. contexts' \subseteq Ctx /\ top' \in [Thread -> contexts' \union {NULL}] BY <1>1 DEF CtxInv
  <2>4. prev' \in [Ctx -> contexts' \union {NULL}] BY <1>1 DEF CtxInv
  <2>5. \A s, u \in Thread : top'[s] = top'[u] /\ top'[s] # NULL => s = u
    BY <2>1, <2>2 DEF CtxInv
  <2>6. \A y, z \in Ctx : prev'[y] = prev'[z] /\ prev'[y] # NULL => y = z
    BY <2>1 DEF CtxInv
  <2>7. \A y \in Ctx, s \in Thread : prev'[y] = top'[s] => prev'[y] = NULL
    <3> SUFFICES ASSUME NEW y \in Ctx, NEW s \in Thread, prev'[y] = top'[s], prev'[y] # NULL
                 PROVE  FALSE
      OBVIOUS
    <3>1. prev'[y] # x BY <2>1, <2>2
    <3>2. s # t /\ prev'[y] = top[s] BY <2>1, <3>1
    <3> QED BY <2>1, <3>2 DEF CtxInv
  <2> QED BY <2>3, <2>4, <2>5, <2>6, <2>7 DEF CtxInv
<1>3. depth' \in [Thread -> Nat] BY <1>1 DEF DepthsInv
<1>4. ASSUME early = {}, NEW s \in Thread PROVE DepthInv(s)'
  <2>1. depth[s] \in Nat BY DEF DepthsInv
  <2>2. PICK q \in [1..depth[s] -> Ctx] : Pushed(s, q) BY <1>4 DEF DepthsInv, DepthInv
  <2>3. \A i \in 1..depth[s] : q[i] # x BY <1>1, <2>1, <2>2, PushedFacts
  <2>4. \A i \in 1..depth[s] : prev'[q[i]] = prev[q[i]] BY <1>1, <2>2, <2>3 DEF CtxInv
  <2>5. CASE s # t
    <3>1. depth'[s] = depth[s] /\ top'[s] = top[s] BY <1>1, <2>5 DEF CtxInv, DepthsInv
    <3> QED BY <2>1, <2>2, <2>4, <3>1, PushedStays
  <2>6. CASE s = t
    <3>0. PICK d : d = depth[t] OBVIOUS
    <3>00. PICK r : r = [i \in 1..(d + 1) |-> IF i <= d THEN q[i] ELSE x] OBVIOUS
    <3>1. depth'[t] = d + 1 /\ top'[t] = x /\ prev'[x] = top[t] BY <1>1, <3>0 DEF CtxInv, DepthsInv
    <3>2. r \in [1..(d + 1) -> Ctx] /\ r[d + 1] = x /\ \A i \in 1..d : r[i] = q[i]
      BY <1>1, <2>1, <2>2, <2>6, <3>0, <3>00
    <3>3. ASSUME NEW i \in 1..d PROVE prev'[r[i + 1]] = r[i]
      <4>1. CASE i = d
        BY <2>1, <2>2, <2>6, <3>0, <3>1, <3>2, <4>1 DEF Pushed
      <4>2. CASE i < d
        <5>1. i \in 1..(d - 1) /\ i + 1 \in 1..d BY <2>1, <2>6, <3>0, <4>2
        <5> QED BY <2>2, <2>4, <2>6, <3>0, <3>2, <5>1 DEF Pushed
      <4> QED BY <2>1, <2>6, <3>0, <4>1, <4>2
    <3>4. Pushed(t, r)'
      <4>1. d + 1 > 0 /\ (d + 1) - 1 = d BY <2>1, <2>6, <3>0
      <4> QED BY <3>1, <3>2, <3>3, <4>1 DEF Pushed
    <3> QED BY <1>3, <2>6, <3>1, <3>2, <3>4 DEF DepthInv
  <2> QED BY <2>5, <2>6
<1> QED BY <1>1, <1>2, <1>3, <1>4 DEF DepthsInv

\* Popping: the context under it is the one pushed before.
LEMMA PopKeeps ==
  ASSUME CtxInv, DepthsInv, NEW t \in Thread, PopContext(t) PROVE CtxInv' /\ DepthsInv'
<1>0. PICK x : x = top[t] OBVIOUS
<1>1. /\ x \in contexts /\ x \in Ctx /\ x # NULL /\ depth[t] \in Nat \ {0}
      /\ contexts' = contexts \ {x} /\ early' = early
      /\ prev' = [prev EXCEPT ![x] = NULL] /\ top' = [top EXCEPT ![t] = prev[x]]
      /\ depth' = [depth EXCEPT ![t] = @ - 1]
  BY <1>0 DEF PopContext, CtxInv, DepthsInv
<1>2. /\ prev'[x] = NULL /\ top'[t] = prev[x]
      /\ \A y \in Ctx : y # x => prev'[y] = prev[y]
      /\ \A s \in Thread : s # t => top'[s] = top[s]
  BY <1>1 DEF CtxInv
<1>3. /\ \A y \in Ctx : prev[y] # x
      /\ \A s \in Thread : s # t => top[s] # x
  BY <1>0, <1>1 DEF CtxInv
<1>4. CtxInv'
  <2>1. contexts' \subseteq Ctx BY <1>1 DEF CtxInv
  <2>2. top' \in [Thread -> contexts' \union {NULL}]
    <3>1. \A s \in Thread : top'[s] \in contexts' \union {NULL}
      BY <1>1, <1>2, <1>3 DEF CtxInv
    <3>2. top' \in [Thread -> contexts \union {NULL}] BY <1>1 DEF CtxInv
    <3> QED BY <3>1, <3>2
  <2>3. prev' \in [Ctx -> contexts' \union {NULL}]
    <3>1. \A y \in Ctx : prev'[y] \in contexts' \union {NULL}
      BY <1>1, <1>2, <1>3 DEF CtxInv
    <3>2. prev' \in [Ctx -> contexts \union {NULL}] BY <1>1 DEF CtxInv
    <3> QED BY <3>1, <3>2
  <2>4. \A s, u \in Thread : top'[s] = top'[u] /\ top'[s] # NULL => s = u
    BY <1>1, <1>2 DEF CtxInv
  <2>5. \A y, z \in Ctx : prev'[y] = prev'[z] /\ prev'[y] # NULL => y = z
    BY <1>2 DEF CtxInv
  <2>6. \A y \in Ctx, s \in Thread : prev'[y] = top'[s] => prev'[y] = NULL
    BY <1>1, <1>2 DEF CtxInv
  <2> QED BY <2>1, <2>2, <2>3, <2>4, <2>5, <2>6 DEF CtxInv
<1>5. depth' \in [Thread -> Nat]
  <2>1. depth[t] - 1 \in Nat BY <1>1
  <2> QED BY <1>1, <2>1 DEF DepthsInv
<1>6. ASSUME early = {}, NEW s \in Thread PROVE DepthInv(s)'
  <2>1. depth[s] \in Nat BY DEF DepthsInv
  <2>2. PICK q \in [1..depth[s] -> Ctx] : Pushed(s, q) BY <1>6 DEF DepthsInv, DepthInv
  <2>3. CASE s # t
    <3>1. depth'[s] = depth[s] /\ top'[s] = top[s] BY <1>1, <2>3 DEF CtxInv, DepthsInv
    <3>2. \A i \in 1..depth[s] : q[i] # x
      BY <1>3, <2>1, <2>2, <2>3, PushedFacts
    <3>3. \A i \in 1..depth[s] : prev'[q[i]] = prev[q[i]] BY <1>2, <2>2, <3>2
    <3> QED BY <2>1, <2>2, <3>1, <3>3, PushedStays
  <2>4. CASE s = t
    <3>0. PICK d : d = depth[t] - 1 OBVIOUS
    <3>00. PICK r : r = [i \in 1..d |-> q[i]] OBVIOUS
    <3>1. depth'[t] = d /\ d \in Nat /\ depth[t] = d + 1
      <4>1. depth'[t] = depth[t] - 1 BY <1>1 DEF DepthsInv
      <4> QED BY <1>1, <3>0, <4>1
    <3>2. r \in [1..d -> Ctx] /\ \A i \in 1..d : r[i] = q[i] /\ q[i] # x /\ q[i] \in Ctx
      <4>1. \A i \in 1..d : i \in 1..depth[t] /\ i < depth[t] BY <1>1, <3>1
      <4>2. \A i \in 1..d : q[i] # x /\ q[i] \in Ctx
        BY <1>0, <2>1, <2>2, <2>4, <4>1, PushedFacts
      <4> QED BY <3>00, <4>2
    <3>3. ASSUME d > 0 PROVE r[d] = top'[t]
      <4>1. d \in 1..(depth[t] - 1) /\ d + 1 = depth[t] BY <1>1, <3>1, <3>3
      <4>2. prev[q[d + 1]] = q[d] BY <2>2, <2>4, <4>1 DEF Pushed
      <4>3. q[d + 1] = x BY <1>0, <1>1, <2>2, <2>4, <4>1 DEF Pushed
      <4> QED BY <1>2, <3>1, <3>2, <4>1, <4>2, <4>3
    <3>4. ASSUME NEW i \in 1..(d - 1) PROVE prev'[r[i + 1]] = r[i]
      <4>1. i \in 1..(depth[t] - 1) /\ i \in 1..d /\ i + 1 \in 1..d BY <3>1
      <4>2. prev[q[i + 1]] = q[i] BY <2>2, <2>4, <4>1 DEF Pushed
      <4> QED BY <1>2, <3>2, <4>1, <4>2
    <3>5. Pushed(t, r)' BY <3>1, <3>3, <3>4 DEF Pushed
    <3> QED BY <2>4, <3>1, <3>2, <3>5 DEF DepthInv
  <2> QED BY <2>3, <2>4
<1> QED BY <1>1, <1>4, <1>5, <1>6 DEF DepthsInv

\* Clearing: the contexts of the other threads stay, none being in two stacks.
LEMMA ClearKeeps ==
  ASSUME CtxInv, DepthsInv, NEW t \in Thread, ClearContext(t) PROVE CtxInv' /\ DepthsInv'
<1>1. /\ contexts' = contexts \ Stack(t) /\ early' = early
      /\ prev' = [x \in Ctx |-> IF x \in Stack(t) THEN NULL ELSE prev[x]]
      /\ top' = [top EXCEPT ![t] = NULL] /\ depth' = [depth EXCEPT ![t] = 0]
  BY DEF ClearContext
<1>2. /\ \A x \in Stack(t) : prev'[x] = NULL
      /\ \A x \in Ctx \ Stack(t) : prev'[x] = prev[x] /\ prev[x] \notin Stack(t)
      /\ top'[t] = NULL /\ \A s \in Thread : s # t => top'[s] = top[s] /\ top[s] \notin Stack(t)
  <2>1. Stack(t) \subseteq Ctx BY DEF Stack
  <2> QED BY <1>1, <2>1, StackFacts DEF CtxInv
<1>3. CtxInv'
  <2>1. contexts' \subseteq Ctx BY <1>1 DEF CtxInv
  <2>2. top' \in [Thread -> contexts' \union {NULL}]
    <3>1. \A s \in Thread : top'[s] \in contexts' \union {NULL} BY <1>1, <1>2 DEF CtxInv
    <3>2. top' \in [Thread -> contexts \union {NULL}] BY <1>1 DEF CtxInv
    <3> QED BY <3>1, <3>2
  <2>3. prev' \in [Ctx -> contexts' \union {NULL}]
    <3>1. \A x \in Ctx : prev'[x] \in contexts' \union {NULL} BY <1>1, <1>2 DEF CtxInv
    <3> QED BY <1>1, <3>1
  <2>4. \A s, u \in Thread : top'[s] = top'[u] /\ top'[s] # NULL => s = u
    BY <1>2 DEF CtxInv
  <2>5. \A y, z \in Ctx : prev'[y] = prev'[z] /\ prev'[y] # NULL => y = z
    BY <1>2 DEF CtxInv
  <2>6. \A y \in Ctx, s \in Thread : prev'[y] = top'[s] => prev'[y] = NULL
    BY <1>2 DEF CtxInv
  <2> QED BY <2>1, <2>2, <2>3, <2>4, <2>5, <2>6 DEF CtxInv
<1>4. depth' \in [Thread -> Nat] BY <1>1 DEF DepthsInv
<1>5. ASSUME early = {}, NEW s \in Thread PROVE DepthInv(s)'
  <2>1. depth[s] \in Nat BY DEF DepthsInv
  <2>2. PICK q \in [1..depth[s] -> Ctx] : Pushed(s, q) BY <1>5 DEF DepthsInv, DepthInv
  <2>3. CASE s # t
    <3>1. depth'[s] = depth[s] /\ top'[s] = top[s] BY <1>1, <2>3 DEF CtxInv, DepthsInv
    <3> DEFINE T == {i \in 1..depth[s] : q[i] \in Stack(t)}
    <3>2. T = {}
      <4> SUFFICES ASSUME T # {} PROVE FALSE OBVIOUS
      <4>1. PICK n \in T : \A m \in T : m <= n BY <2>1, Largest
      <4>2. CASE n = depth[s]
        BY <1>2, <2>1, <2>2, <2>3, <4>1, <4>2 DEF Pushed
      <4>3. CASE n < depth[s]
        <5>1. n \in 1..(depth[s] - 1) /\ n + 1 \in 1..depth[s] BY <2>1, <4>1, <4>3
        <5>2. prev[q[n + 1]] = q[n] /\ q[n + 1] \in Ctx BY <2>2, <5>1 DEF Pushed
        <5>3. q[n + 1] \in Stack(t) BY <1>2, <4>1, <5>2
        <5>4. n + 1 \in T BY <5>1, <5>3
        <5> QED BY <2>1, <4>1, <5>4
      <4> QED BY <2>1, <4>1, <4>2, <4>3
    <3>3. \A i \in 1..depth[s] : prev'[q[i]] = prev[q[i]] BY <1>2, <2>2, <3>2
    <3> QED BY <2>1, <2>2, <3>1, <3>3, PushedStays
  <2>4. CASE s = t
    <3>1. depth'[t] = 0 BY <1>1 DEF DepthsInv
    <3>0. PICK r : r = [i \in 1..0 |-> t] OBVIOUS
    <3>2. r \in [1..0 -> Ctx] /\ \A i \in 1..(0 - 1) : FALSE BY <3>0
    <3>3. Pushed(t, r)' BY <3>1, <3>2 DEF Pushed
    <3>4. r \in [1..depth'[t] -> Ctx] /\ depth'[t] \in Nat BY <3>1, <3>2
    <3>5. \E u \in [1..depth'[t] -> Ctx] : Pushed(t, u)' BY <3>3, <3>4
    <3> QED BY <2>4, <3>4, <3>5 DEF DepthInv
  <2> QED BY <2>3, <2>4
<1> QED BY <1>1, <1>3, <1>4, <1>5 DEF DepthsInv
\* A message that goes on makes chains and key anew only after an early one.
LEMMA MessageFrame ==
  ASSUME LogInv, EarlyInv, NEW t \in Thread, MessageStep(t)
  PROVE  /\ early' = early /\ UNCHANGED <<prev, contexts, depth>>
         /\ UNCHANGED <<setupvars, top>> \/ (early # {} /\ Reinitialize)
<1>1. CASE Resetup(t)
  <2>1. Now(t).cls \in Class /\ calls[t] # <<>>
    <3>1. calls[t] # <<>> BY <1>1 DEF Resetup, In, Idle
    <3>2. Now(t) \in Call BY <3>1, UnderFacts DEF LogInv, Idle
    <3> QED BY <3>1, <3>2 DEF Call
  <2>2. Unset(Now(t).cls) => early # {} BY <2>1 DEF EarlyInv, Unset
  <2> QED BY <1>1, <2>2 DEF Resetup, Reinitialize, ctxvars
<1>2. CASE Check(t) \/ ResetupDefault(t) \/ ResetupMatch(t) \/ Enabled(t) \/ Use(t)
  BY <1>2 DEF Check, ResetupDefault, ResetupMatch, Enabled, Use, StaysOut, ctxvars
<1> QED BY <1>1, <1>2 DEF MessageStep

\* Nothing else touches the contexts.
LEMMA CtxElsewhere ==
  ASSUME CtxInv, DepthsInv, UNCHANGED ctxvars, early' = {} => early = {}
  PROVE  CtxInv' /\ DepthsInv'
<1>1. UNCHANGED <<top, prev, contexts, depth>> BY DEF ctxvars
<1>2. CtxInv' BY <1>1 DEF CtxInv
<1>3. ASSUME early = {}, NEW s \in Thread PROVE DepthInv(s)'
  <2>1. depth[s] \in Nat BY DEF DepthsInv
  <2>2. PICK q \in [1..depth[s] -> Ctx] : Pushed(s, q) BY <1>3 DEF DepthsInv, DepthInv
  <2> QED BY <1>1, <2>1, <2>2, PushedStays
<1> QED BY <1>1, <1>2, <1>3 DEF DepthsInv

\* No program step does more to the contexts than push, pop and clear, but for
\* the message that makes the key anew.
LEMMA CtxNext ==
  ASSUME LogInv, EarlyInv, CtxInv, DepthsInv, [Next]_vars PROVE CtxInv' /\ DepthsInv'
<1>1. CASE UNCHANGED lvars BY <1>1, CtxElsewhere DEF lvars
<1>2. ASSUME NEW t, NEW c, Begin(t, c, WARN), UNCHANGED ctxvars PROVE CtxInv' /\ DepthsInv'
  <2>1. early \subseteq early' BY <1>2 DEF Begin
  <2> QED BY <1>2, <2>1, CtxElsewhere
<1>3. ASSUME NEW t \in Thread, MessageStep(t) PROVE CtxInv' /\ DepthsInv'
  <2>1. early' = early /\ UNCHANGED <<prev, contexts, depth>> BY <1>3, MessageFrame
  <2>2. CASE UNCHANGED top BY <2>1, <2>2, CtxElsewhere DEF ctxvars
  <2>3. CASE early # {} /\ Reinitialize
    <3>1. top' = [s \in Thread |-> NULL] BY <2>3 DEF Reinitialize
    <3>2. CtxInv' BY <2>1, <3>1 DEF CtxInv
    <3> QED BY <2>1, <2>3, <3>2 DEF DepthsInv
  <2> QED BY <1>3, <2>2, <2>3, MessageFrame
<1>4. ASSUME NEW t \in Thread, Others(t) PROVE CtxInv' /\ DepthsInv'
  <2>1. CASE PushContext(t) \/ PopContext(t) \/ ClearContext(t)
    BY <2>1, PushKeeps, PopKeeps, ClearKeeps
  <2>2. CASE MessageStep(t) BY <1>3, <2>2
  <2>3. ASSUME NEW c, Message(t, c, WARN) PROVE CtxInv' /\ DepthsInv' BY <1>2, <2>3 DEF Message
  <2> QED BY <1>4, <2>1, <2>2, <2>3 DEF Others
<1>5. ASSUME NEW value, NEW hasdefault, Warn(value, hasdefault) PROVE CtxInv' /\ DepthsInv'
  BY <1>1, <1>2, <1>5 DEF Warn
<1>6. CASE Verbosity \/ Name \/ ClassLevel \/ Target
  BY <1>1, <1>5, <1>6 DEF Verbosity, Name, ClassLevel, Target
<1>7. CASE Configure \/ Done \/ Free BY <1>1, <1>7 DEF Configure, Done, Free
<1>8. CASE Add \/ Raise
  BY <1>8, CtxElsewhere DEF Add, AddChain, Raise, RaiseSerial, Unlock
<1>9. CASE UNCHANGED vars BY <1>1, <1>9 DEF vars
<1> QED BY <1>4, <1>6, <1>7, <1>8, <1>9 DEF Next, MainStep

\* Every thread has the contexts it pushed, whoever logs and configures.
LEMMA ContextInvariant == Spec => [](CtxInv /\ DepthsInv)
<1>1. Init => CtxInv /\ DepthsInv
  <2> SUFFICES ASSUME LoggingInit PROVE CtxInv /\ DepthsInv BY DEF Init
  <2>1. /\ top = [t \in Thread |-> NULL] /\ prev = [x \in Ctx |-> NULL] /\ contexts = {}
        /\ depth = [t \in Thread |-> 0]
    BY DEF LoggingInit
  <2>2. CtxInv BY <2>1 DEF CtxInv
  <2>3. ASSUME NEW t \in Thread PROVE DepthInv(t)
    <3>1. depth[t] = 0 BY <2>1
    <3>2. PICK r : r = [i \in 1..0 |-> t] OBVIOUS
    <3>3. r \in [1..0 -> Ctx] /\ \A i \in 1..(0 - 1) : FALSE BY <3>2
    <3>4. Pushed(t, r) BY <3>1, <3>3 DEF Pushed
    <3>5. r \in [1..depth[t] -> Ctx] /\ depth[t] \in Nat BY <3>1, <3>3
    <3> QED BY <3>4, <3>5 DEF DepthInv
  <2> QED BY <2>1, <2>2, <2>3 DEF DepthsInv
<1>2. LogInv /\ EarlyInv /\ CtxInv /\ DepthsInv /\ [Next]_vars => CtxInv' /\ DepthsInv'
  BY CtxNext
<1> QED BY <1>1, <1>2, EarlyInvariant, PTL DEF Spec

\* A thread that pushed contexts finds one to pop and shares none, for any
\* number of threads and contexts, as long as nobody logged too early
\* (logger_popcontext, which does not test for NULL).
THEOREM PopsFind == Spec => []PopFindsContext
<1>1. CtxInv /\ DepthsInv => PopFindsContext
  <2> SUFFICES ASSUME CtxInv, DepthsInv, early = {} PROVE PopFindsContext
    BY DEF PopFindsContext
  <2>1. ASSUME NEW t \in Thread, depth[t] > 0 PROVE top[t] # NULL
    <3>1. depth[t] \in Nat /\ \E q \in [1..depth[t] -> Ctx] : Pushed(t, q)
      BY DEF DepthsInv, DepthInv
    <3>2. PICK q \in [1..depth[t] -> Ctx] : Pushed(t, q) BY <3>1
    <3>3. depth[t] \in 1..depth[t] BY <2>1, <3>1
    <3>4. q[depth[t]] \in Ctx BY <3>2, <3>3
    <3> QED BY <2>1, <3>2, <3>4, LoggingAssumption DEF Pushed
  <2>2. \A s, t \in Thread : s # t => Stack(s) \intersect Stack(t) = {} BY StacksApart
  <2>3. \A x, y \in Ctx : prev[x] = prev[y] /\ prev[x] # NULL => x = y BY DEF CtxInv
  <2> QED BY <2>1, <2>2, <2>3 DEF PopFindsContext
<1> QED BY <1>1, ContextInvariant, PTL
-----------------------------------------------------------------------------
(* The handles.                                                            *)

\* The handles o and d and the lost documents lo share the documents docs, each
\* of them a number of A that is not 0, and no two of them the same one.
Held(o, d, docs, lo, A) ==
  /\ o \in A \union {NULL} /\ d \in A \union {NULL}
  /\ lo \subseteq A \ {0} /\ o \notin lo /\ d \notin lo
  /\ o = d => o \in {0, NULL}
  /\ docs = ({o, d} \union lo) \ {0, NULL}

\* No document has two owners, and none is from the future.
DocInv == opened \in Nat /\ Held(own, default, documents, lost, 0..opened)

\* Opening a file again with a handle, whether it opens or not, and freeing one.
LEMMA HeldStays ==
  ASSUME NEW A, NEW B, A \subseteq B, NEW x \in B \ A, x # 0, 0 \in A, NULL \notin B,
         NEW o, NEW d, NEW docs, NEW lo, Held(o, d, docs, lo, A)
  PROVE  /\ Held(o, x, (docs \ {d}) \union {x}, lo, B)
         /\ Held(o, 0, docs, lo \union ({d} \ {0, NULL}), B)
         /\ Held(x, d, docs \union {x}, lo \union ({o} \ {0, NULL}), B)
         /\ Held(0, d, docs, lo \union ({o} \ {0, NULL}), B)
         /\ Held(NULL, d, docs \ {o}, lo, A)
<1>1. Held(o, x, (docs \ {d}) \union {x}, lo, B) BY DEF Held
<1>2. Held(o, 0, docs, lo \union ({d} \ {0, NULL}), B) BY DEF Held
<1>3. Held(x, d, docs \union {x}, lo \union ({o} \ {0, NULL}), B) BY DEF Held
<1>4. Held(0, d, docs, lo \union ({o} \ {0, NULL}), B) BY DEF Held
<1>5. Held(NULL, d, docs \ {o}, lo, A) BY DEF Held
<1> QED BY <1>1, <1>2, <1>3, <1>4, <1>5

\* Opening a file again deletes the document that was there, or loses it.
LEMMA DocNext == DocInv /\ [Next]_vars => DocInv'
<1> SUFFICES ASSUME DocInv, [Next]_vars PROVE DocInv' OBVIOUS
<1>1. CASE UNCHANGED <<own, default, documents, opened, lost>> BY <1>1 DEF DocInv
<1> DEFINE x == opened + 1
           A == 0..opened
           B == 0..x
<1>2. /\ A \subseteq B /\ x \in B \ A /\ x # 0 /\ 0 \in A /\ x \in Nat
      /\ \A n \in B : n \in Nat
  BY DEF DocInv
<1>3. NULL \notin B /\ NULL \notin documents /\ 0 \notin documents
  BY <1>2, SettingsAssumption DEF DocInv, Held
<1>4. Held(own, default, documents, lost, A) BY DEF DocInv
<1> HIDE DEF A, B, x
<1>7. /\ Held(own, x, (documents \ {default}) \union {x}, lost, B)
      /\ Held(own, 0, documents, lost \union ({default} \ {0, NULL}), B)
      /\ Held(x, default, documents \union {x}, lost \union ({own} \ {0, NULL}), B)
      /\ Held(0, default, documents, lost \union ({own} \ {0, NULL}), B)
      /\ Held(NULL, default, documents \ {own}, lost, A)
  BY <1>2, <1>3, <1>4, HeldStays
<1>8. ASSUME NEW f \in File, NEW isdefault \in BOOLEAN, Access(f, isdefault) PROVE DocInv'
  <2>1. /\ opened' = x
        /\ isdefault /\ f.opens =>
             /\ default' = x /\ own' = own /\ lost' = lost \union ({} \ {0, NULL})
             /\ documents' = (documents \ {default}) \union ({x} \ {0})
        /\ isdefault /\ ~f.opens =>
             /\ default' = 0 /\ own' = own /\ lost' = lost \union ({default} \ {0, NULL})
             /\ documents' = documents \union ({0} \ {0})
        /\ ~isdefault /\ f.opens =>
             /\ own' = x /\ default' = default /\ lost' = lost \union ({own} \ {0, NULL})
             /\ documents' = (documents \ {NULL}) \union ({x} \ {0})
        /\ ~isdefault /\ ~f.opens =>
             /\ own' = 0 /\ default' = default /\ lost' = lost \union ({own} \ {0, NULL})
             /\ documents' = documents \union ({0} \ {0})
    BY <1>8 DEF Access, DeleteOld, x
  <2>2. /\ {x} \ {0} = {x} /\ documents \union ({0} \ {0}) = documents
        /\ documents \ {NULL} = documents /\ lost \union ({} \ {0, NULL}) = lost
    BY <1>2, <1>3
  <2>3. opened' \in Nat /\ 0..opened' = B BY <1>2, <2>1 DEF B
  <2>4. Held(own', default', documents', lost', B)
    <3>1. CASE isdefault /\ f.opens BY <1>7, <2>1, <2>2, <3>1
    <3>2. CASE isdefault /\ ~f.opens BY <1>7, <2>1, <2>2, <3>2
    <3>3. CASE ~isdefault /\ f.opens BY <1>7, <2>1, <2>2, <3>3
    <3>4. CASE ~isdefault /\ ~f.opens BY <1>7, <2>1, <2>2, <3>4
    <3> QED BY <1>8, <3>1, <3>2, <3>3, <3>4
  <2> QED BY <2>3, <2>4 DEF DocInv
<1>9. CASE Free
  <2>1. /\ own' = NULL /\ documents' = documents \ {own}
        /\ UNCHANGED <<default, opened, lost>>
    BY <1>9 DEF Free
  <2> QED BY <1>7, <2>1 DEF DocInv, A
<1>10. CASE Verbosity \/ Add \/ Raise \/ Name \/ ClassLevel \/ Target \/ Done
  BY <1>1, <1>10 DEF Verbosity, Add, Raise, Name, ClassLevel, Target, Done, StaysPut
<1>11. ASSUME NEW t \in Thread, Others(t) PROVE DocInv'
  BY <1>1, <1>11 DEF Others, svars
<1>12. CASE UNCHANGED vars BY <1>1, <1>12 DEF vars, svars
<1> QED BY <1>8, <1>9, <1>10, <1>11, <1>12 DEF Next, MainStep, Configure

-----------------------------------------------------------------------------
(* settings_configure.                                                     *)

\* The chain an entry of the file stands for, and that for all classes.
ChainOf(entry) == [name |-> IF entry.name = Absent THEN NULL ELSE entry.name,
                   minlvl |-> IF entry.verbosity \in Level THEN entry.verbosity ELSE ERROR]
ForAll == [name |-> NULL, minlvl |-> WantedForAll]

ConfLabel == {"idle", "verbosity", "name", "level", "target", "add", "raise", "done",
              "crashed"}
ConfType == [pc : ConfLabel, file : File, i : Nat, name : Class \union {NULL}, level : Level]

\* Where settings_configure is in the file, and what its variables hold.
ConfInv ==
  /\ conf \in ConfType
  /\ conf.pc \in {"name", "level", "target"} => conf.i \in 1..Len(Entries)
  /\ conf.pc \in {"add", "raise"} => conf.i \in 0..Len(Entries)
  /\ conf.pc \in {"idle", "verbosity", "done"} => conf.i = 0
  /\ conf.pc \in {"level", "target"} => conf.name = ChainOf(Current).name
  /\ conf.pc = "target" => conf.level = ChainOf(Current).minlvl
  /\ conf.pc = "add" => [name |-> conf.name, minlvl |-> conf.level]
                           = IF conf.i = 0 THEN ForAll ELSE ChainOf(Current)

\* What the files may say.
LEMMA FileFacts ==
  ASSUME NEW f \in File
  PROVE  /\ f.cmdline \in Nat /\ f.opens \in BOOLEAN
         /\ f.classes \in Seq(Entry) /\ Len(f.classes) \in Nat
         /\ \A i \in 1..Len(f.classes) :
               /\ f.classes[i].name \in Class \union {Absent}
               /\ ChainOf(f.classes[i]) \in Chain
<1>1. f.cmdline \in Nat /\ f.opens \in BOOLEAN /\ f.classes \in Seq(Entry)
  BY SettingsAssumption
<1>2. Len(f.classes) \in Nat BY <1>1
<1>3. ASSUME NEW i \in 1..Len(f.classes)
      PROVE  f.classes[i].name \in Class \union {Absent} /\ ChainOf(f.classes[i]) \in Chain
  <2>1. f.classes[i] \in Entry BY <1>1, <1>2
  <2> QED BY <2>1 DEF Entry, ChainOf, Chain, Level, ERROR, DIAG
<1> QED BY <1>1, <1>2, <1>3

\* Each step of settings_configure goes on in the file.
LEMMA ConfNext == ConfInv /\ [Next]_vars => ConfInv'
<1> SUFFICES ASSUME ConfInv, [Next]_vars PROVE ConfInv' OBVIOUS
<1>0. /\ conf \in ConfType /\ conf.file \in File
      /\ Entries \in Seq(Entry) /\ Len(Entries) \in Nat
  BY FileFacts DEF ConfInv, ConfType, Entries
<1>1. CASE UNCHANGED conf
  BY <1>1 DEF ConfInv, ForAll, WantedForAll, Entries, Current
<1>2. CASE Configure
  <2>1. PICK f \in File : conf' = [conf EXCEPT !.pc = IF f.opens THEN "verbosity" ELSE "done",
                                               !.file = f]
    BY <1>2 DEF Configure
  <2>2. conf.i = 0 BY <1>2 DEF Configure, At, ConfInv
  <2>3. /\ conf' \in ConfType /\ conf'.pc \in {"verbosity", "done"} /\ conf'.i = 0
    BY <1>0, <2>1, <2>2 DEF ConfType, ConfLabel
  <2> QED BY <2>3 DEF ConfInv
<1>3. CASE Verbosity
  <2>1. conf' = [conf EXCEPT !.pc = "add", !.name = NULL, !.level = Generic] /\ conf.i = 0
    BY <1>3 DEF Verbosity, At, ConfInv
  <2>2. Generic = WantedForAll /\ Generic \in Level
    BY <1>0, FileFacts
       DEF Generic, WantedForAll, FromCmdline, MostOf, Level, ERROR, DIAG
  <2>3. /\ conf' \in ConfType /\ conf'.pc = "add" /\ conf'.i = 0 /\ conf'.file = conf.file
        /\ conf'.name = NULL /\ conf'.level = Generic
    BY <1>0, <2>1, <2>2 DEF ConfType, ConfLabel
  <2>4. WantedForAll' = WantedForAll /\ Len(Entries)' = Len(Entries)
    BY <2>3 DEF WantedForAll, Entries
  <2> QED BY <1>0, <2>2, <2>3, <2>4 DEF ConfInv, ForAll
<1>10. CASE Add
  <2>1. conf' = [conf EXCEPT !.pc = "raise"] /\ conf.i \in 0..Len(Entries)
    BY <1>10 DEF Add, At, ConfInv
  <2>2. /\ conf' \in ConfType /\ conf'.pc = "raise" /\ conf'.i = conf.i
        /\ conf'.file = conf.file
    BY <1>0, <2>1 DEF ConfType, ConfLabel
  <2>3. Entries' = Entries BY <2>2 DEF Entries
  <2> QED BY <2>1, <2>2, <2>3 DEF ConfInv
<1>4. CASE Raise
  <2>1. conf' = NextClass /\ conf.pc = "raise" /\ conf.i \in 0..Len(Entries)
    BY <1>4 DEF Raise, At, ConfInv
  <2>2. /\ conf' \in ConfType /\ conf'.file = conf.file
        /\ \/ conf'.pc = "name" /\ conf'.i \in 1..Len(Entries)
           \/ conf'.pc = "done" /\ conf'.i = 0
    <3>1. PICK j, pc : /\ conf' = [conf EXCEPT !.i = j, !.pc = pc]
                       /\ \/ j \in 1..Len(Entries) /\ pc = "name"
                          \/ j = 0 /\ pc = "done"
      <4>1. conf.i + 1 <= Len(Entries) => conf.i + 1 \in 1..Len(Entries) BY <1>0, <2>1
      <4> QED BY <2>1, <4>1 DEF NextClass
    <3>2. j \in Nat /\ pc \in ConfLabel BY <3>1 DEF ConfLabel
    <3> QED BY <1>0, <3>1, <3>2 DEF ConfType
  <2>3. Entries' = Entries BY <2>2 DEF Entries
  <2> QED BY <2>2, <2>3 DEF ConfInv
<1>5. CASE Name
  <2>1. /\ conf' = [conf EXCEPT !.pc = "level", !.name = ChainOf(Current).name]
        /\ conf.pc = "name" /\ conf.i \in 1..Len(Entries)
    BY <1>5 DEF Name, At, ConfInv, ChainOf
  <2>2. ChainOf(Current).name \in Class \union {NULL}
    BY <1>0, <2>1, FileFacts DEF Current, Entries, Chain
  <2>3. /\ conf' \in ConfType /\ conf'.file = conf.file /\ conf'.i = conf.i
        /\ conf'.pc = "level" /\ conf'.name = ChainOf(Current).name
    BY <1>0, <2>1, <2>2 DEF ConfType, ConfLabel
  <2>4. Entries' = Entries /\ Current' = Current BY <2>3 DEF Entries, Current
  <2> QED BY <2>1, <2>3, <2>4 DEF ConfInv
<1>6. CASE ClassLevel
  <2>1. /\ conf.pc = "level" /\ conf.i \in 1..Len(Entries)
        /\ \E pc \in {"target", "crashed"} :
              conf' = [conf EXCEPT !.pc = pc, !.level = ChainOf(Current).minlvl]
    BY <1>6 DEF ClassLevel, At, ConfInv, ChainOf
  <2>2. ChainOf(Current).minlvl \in Level
    BY <1>0, <2>1, FileFacts DEF Current, Entries, Chain
  <2>3. /\ conf' \in ConfType /\ conf'.file = conf.file /\ conf'.i = conf.i
        /\ conf'.pc \in {"target", "crashed"} /\ conf'.name = conf.name
        /\ conf'.level = ChainOf(Current).minlvl
    BY <1>0, <2>1, <2>2 DEF ConfType, ConfLabel
  <2>4. Entries' = Entries /\ Current' = Current BY <2>3 DEF Entries, Current
  <2> QED BY <2>1, <2>3, <2>4 DEF ConfInv
<1>7. CASE Target
  <2>1. conf' = [conf EXCEPT !.pc = "add"] /\ conf.pc = "target" /\ conf.i \in 1..Len(Entries)
    BY <1>7 DEF Target, At, ConfInv
  <2>2. /\ conf' \in ConfType /\ conf'.file = conf.file /\ conf'.i = conf.i /\ conf'.pc = "add"
        /\ conf'.name = conf.name /\ conf'.level = conf.level
    BY <1>0, <2>1 DEF ConfType, ConfLabel
  <2>3. Entries' = Entries /\ Current' = Current BY <2>2 DEF Entries, Current
  <2>4. [name |-> conf.name, minlvl |-> conf.level] = ChainOf(Current)
    BY <2>1 DEF ConfInv, ChainOf
  <2> QED BY <1>0, <2>1, <2>2, <2>3, <2>4 DEF ConfInv
<1>8. CASE Done
  <2>1. conf' = [conf EXCEPT !.pc = "idle"] /\ conf.i = 0 BY <1>8 DEF Done, At, ConfInv
  <2>2. conf' \in ConfType /\ conf'.pc = "idle" /\ conf'.i = 0
    BY <1>0, <2>1 DEF ConfType, ConfLabel
  <2> QED BY <2>2 DEF ConfInv
<1>9. CASE Free \/ (\E t \in Thread : Others(t)) \/ UNCHANGED vars
  BY <1>1, <1>9 DEF Free, Others, vars, svars
<1> QED BY <1>2, <1>3, <1>4, <1>5, <1>6, <1>7, <1>8, <1>9, <1>10 DEF Next, MainStep

\* The place in the file is right in every state.
LEMMA ConfInvariant == Spec => [](ConfInv /\ DocInv)
<1>1. Init => ConfInv /\ DocInv
  <2> SUFFICES ASSUME Init PROVE ConfInv /\ DocInv OBVIOUS
  <2>1. PICK f \in File : conf = [pc |-> "idle", file |-> f, i |-> 0, name |-> NULL,
                                  level |-> ERROR]
    BY SettingsAssumption DEF Init
  <2>2. conf \in ConfType /\ conf.pc = "idle" /\ conf.i = 0
    BY <2>1 DEF ConfType, ConfLabel, Level, ERROR, DIAG
  <2>3. ConfInv BY <2>2 DEF ConfInv
  <2>4. Held(NULL, NULL, {}, {}, 0..0) BY DEF Held
  <2>5. DocInv BY <2>4 DEF Init, DocInv
  <2> QED BY <2>3, <2>5
<1>2. ConfInv /\ DocInv /\ [Next]_vars => ConfInv' /\ DocInv' BY ConfNext, DocNext
<1> QED BY <1>1, <1>2, PTL DEF Spec

-----------------------------------------------------------------------------
(* The chains.                                                             *)

ChainsInv == /\ chains \in Seq(Chain \union {Default})
             /\ Len(chains) >= 1
             /\ \A i \in 2..Len(chains) : chains[i] \in Chain
             /\ mutex \in Thread \union {NULL}

\* Chains are added by settings_configure, and made anew only after somebody
\* has logged too early.
LEMMA ChainsFrame ==
  ASSUME LogInv, EarlyInv, [Next]_vars
  PROVE  /\ early \subseteq early'
         /\ Add \/ UNCHANGED chains \/ (early # {} /\ chains' = <<Default>>)
         /\ mutex' \in Thread \union {NULL, mutex}
<1> DEFINE P == /\ early \subseteq early'
                /\ UNCHANGED chains \/ (early # {} /\ chains' = <<Default>>)
                /\ mutex' \in Thread \union {NULL, mutex}
<1>1. UNCHANGED <<chains, mutex, early>> => P OBVIOUS
<1>2. ASSUME NEW t, NEW c, Begin(t, c, WARN), UNCHANGED <<setupvars, mutex>> PROVE P
  BY <1>2 DEF Begin, setupvars
<1>3. ASSUME NEW value, NEW hasdefault, Warn(value, hasdefault) PROVE P
  BY <1>1, <1>2, <1>3 DEF Warn, lvars, setupvars
<1>4. CASE Verbosity \/ Name \/ ClassLevel \/ Target
  BY <1>1, <1>3, <1>4 DEF Verbosity, Name, ClassLevel, Target, lvars, setupvars
<1>5. CASE Configure \/ Done \/ Free \/ UNCHANGED vars
  BY <1>1, <1>5 DEF Configure, Done, Free, vars, lvars, setupvars
<1>6. ASSUME NEW t \in Thread, Others(t) PROVE P
  <2>1. CASE MessageStep(t)
    <3>1. /\ early' = early
          /\ UNCHANGED <<setupvars, top>> \/ (early # {} /\ Reinitialize)
      BY <2>1, MessageFrame
    <3>2. mutex' \in {t, NULL, mutex}
      BY <2>1 DEF MessageStep, Check, Resetup, ResetupDefault, ResetupMatch, Enabled, Use
    <3> QED BY <3>1, <3>2 DEF setupvars, Reinitialize
  <2>2. ASSUME NEW c, Message(t, c, WARN) PROVE P BY <1>2, <2>2 DEF Message
  <2>3. CASE PushContext(t) \/ PopContext(t) \/ ClearContext(t)
    BY <1>1, <2>3 DEF PushContext, PopContext, ClearContext, setupvars
  <2> QED BY <1>6, <2>1, <2>2, <2>3 DEF Others
<1>7. CASE Add BY <1>7, SettingsAssumption DEF Add, AddChain
<1>8. CASE Raise BY <1>8 DEF Raise, RaiseSerial, Unlock
<1> QED BY <1>4, <1>5, <1>6, <1>7, <1>8 DEF Next, MainStep

\* A chain is what settings_configure adds, but for the first.
LEMMA ChainsNext ==
  ASSUME LogInv, EarlyInv, ConfInv, ChainsInv, [Next]_vars PROVE ChainsInv'
<1>1. mutex' \in Thread \union {NULL} BY ChainsFrame DEF ChainsInv
<1>2. CASE UNCHANGED chains BY <1>1, <1>2 DEF ChainsInv
<1>3. CASE chains' = <<Default>>
  <2> DEFINE one == <<Default>>
  <2>1. one \in Seq(Chain \union {Default}) /\ Len(one) = 1 OBVIOUS
  <2>2. 2..1 = {} BY SMT
  <2> QED BY <1>1, <1>3, <2>1, <2>2 DEF ChainsInv
<1>4. CASE Add
  <2>1. PICK x : x = [name |-> conf.name, minlvl |-> conf.level] OBVIOUS
  <2>2. chains' = Append(chains, x) BY <1>4, <2>1 DEF Add, AddChain
  <2>3. x \in Chain BY <2>1 DEF ConfInv, ConfType, Chain
  <2>4. chains \in Seq(Chain \union {Default}) BY DEF ChainsInv
  <2>5. /\ chains' \in Seq(Chain \union {Default}) /\ Len(chains') = Len(chains) + 1
        /\ Len(chains) \in Nat /\ chains'[Len(chains) + 1] = x
        /\ \A i \in 1..Len(chains) : chains'[i] = chains[i]
    BY <2>2, <2>3, <2>4
  <2>6. ASSUME NEW i \in 2..Len(chains') PROVE chains'[i] \in Chain
    <3>1. i \in 2..Len(chains) \/ i = Len(chains) + 1 BY <2>5
    <3>2. CASE i \in 2..Len(chains)
      <4>1. i \in 1..Len(chains) BY <2>5, <3>2
      <4> QED BY <2>5, <3>2, <4>1 DEF ChainsInv
    <3> QED BY <2>3, <2>5, <3>1, <3>2
  <2> QED BY <1>1, <2>5, <2>6 DEF ChainsInv
<1> QED BY <1>2, <1>3, <1>4, ChainsFrame

\* The chains are of the types logger_configurecls gives them.
LEMMA ChainsInvariant == Spec => []ChainsInv
<1>1. Init => ChainsInv
  <2> SUFFICES ASSUME Init PROVE ChainsInv OBVIOUS
  <2> DEFINE one == <<Default>>
  <2>1. one \in Seq(Chain \union {Default}) /\ Len(one) = 1 OBVIOUS
  <2>2. 2..1 = {} BY SMT
  <2> QED BY <2>1, <2>2 DEF Init, LoggingInit, ChainsInv
<1>2. LogInv /\ EarlyInv /\ ConfInv /\ ChainsInv /\ [Next]_vars => ChainsInv' BY ChainsNext
<1> QED BY <1>1, <1>2, EarlyInvariant, ConfInvariant, PTL DEF Spec

\* Handles, documents, chains and contexts are as they should be between any
\* two steps, for any number of threads, files and configurations: no handle has
\* a document that was deleted, and every document that no handle has was lost
\* when a handle that had it was opened again (settings_access).
THEOREM HandlesAreHeld == Spec => []SettingsInv
<1>1. LogInv /\ CtxInv /\ ConfInv /\ DocInv /\ ChainsInv => SettingsInv
  <2> SUFFICES ASSUME LogInv, CtxInv, ConfInv, DocInv, ChainsInv PROVE SettingsInv
    OBVIOUS
  <2>1. \A t \in Thread : \A n \in DOMAIN calls[t] : calls[t][n] \in Call
    BY DEF LogInv, StackInv
  <2>2. DocumentsAreHeld /\ {own, default} \subseteq documents \union {NULL, 0}
    BY DEF DocInv, Held, DocumentsAreHeld
  <2>3. SettingsTypeOK
    BY <2>2 DEF ConfInv, ConfType, ConfLabel, SettingsTypeOK
  <2>4. top \in [Thread -> contexts \union {NULL}] /\ prev \in [Ctx -> contexts \union {NULL}]
    BY DEF CtxInv
  <2>5. TypeOK BY <2>1, <2>3, <2>4 DEF TypeOK, LogInv, FieldsInv, ChainsInv
  <2> QED BY <2>2, <2>5 DEF SettingsInv
<1> QED BY <1>1, LoggingInvariant, ContextInvariant, ConfInvariant, ChainsInvariant, PTL
-----------------------------------------------------------------------------
(* A configuration is what the file says.                                  *)

\* The last n chains of ch are first and those of the first n - 1 entries of es,
\* and there is another before them.
WrittenAs(ch, n, first, es) ==
  /\ n < Len(ch)
  /\ n >= 1 => ch[(Len(ch) - n) + 1] = first
  /\ \A j \in 1..(n - 1) : ch[(Len(ch) - n) + 1 + j] = ChainOf(es[j])

\* Who has added a chain and not raised the serial is the program, at that.
AddingInv == Adding => conf.pc = "raise"

\* Only the steps of logger_configurecls begin and end that.
LEMMA AddingNext ==
  ASSUME LogInv, ConfInv, AddingInv, [Next]_vars PROVE AddingInv'
<1>1. CASE UNCHANGED <<mutex, calls, conf>> BY <1>1 DEF AddingInv, Adding, In, Idle, Now
<1>2. CASE Verbosity \/ Name \/ ClassLevel \/ Target
  <2>1. ~Adding BY <1>2 DEF AddingInv, Verbosity, Name, ClassLevel, Target, At
  <2>2. CASE UNCHANGED lvars BY <2>1, <2>2 DEF AddingInv, Adding, In, Idle, Now, lvars
  <2>3. CASE Begin(Main, Self, WARN) /\ mutex' = mutex
    BY <2>1, <2>3, BeginAdding, SettingsAssumption DEF AddingInv
  <2> QED BY <1>2, <2>2, <2>3 DEF Verbosity, Name, ClassLevel, Target, Warn
<1>3. CASE Configure \/ Done
  <2>1. ~Adding BY <1>3 DEF AddingInv, Configure, Done, At
  <2>2. UNCHANGED lvars BY <1>3 DEF Configure, Done
  <2> QED BY <2>1, <2>2 DEF AddingInv, Adding, In, Idle, Now, lvars
<1>4. CASE Add
  <2>1. conf \in ConfType /\ conf' = [conf EXCEPT !.pc = "raise"] BY <1>4 DEF Add, ConfInv
  <2> QED BY <2>1 DEF AddingInv, ConfType
<1>5. CASE Raise
  <2>1. mutex' = NULL BY <1>5 DEF Raise, RaiseSerial, Unlock
  <2>2. ~Adding' BY <2>1 DEF Adding
  <2> QED BY <2>2 DEF AddingInv
<1>6. CASE Free \/ UNCHANGED vars BY <1>1, <1>6 DEF Free, vars, lvars, svars
<1>7. ASSUME NEW t \in Thread, Others(t) PROVE AddingInv'
  <2>0. UNCHANGED conf BY <1>7 DEF Others, svars
  <2>1. CASE Check(t) \/ Enabled(t) \/ Use(t) BY <2>0, <2>1, QuietAdding DEF AddingInv
  <2>2. CASE ResetupMatch(t) BY <2>2 DEF ResetupMatch, AddingInv, Adding
  <2>3. ASSUME NEW from, NEW to \in {"default", "match"}, In(t, from), GoTo(t, to), mutex' = t
        PROVE  ~Adding'
    <3> DEFINE call == [Now(t) EXCEPT !.pc = to]
    <3>1. StackInv /\ ~Idle(t) BY <2>3 DEF LogInv, In
    <3>2. call \in Call /\ call.pc = to BY <3>1, UnderFacts DEF Call
    <3>3. Continue(t, call) BY <2>3 DEF GoTo
    <3> HIDE DEF call
    <3>4. In(t, to)' BY <3>1, <3>2, <3>3, ContinueFacts
    <3> QED BY <2>3, <3>4 DEF Adding
  <2>4. CASE Resetup(t) BY <2>3, <2>4 DEF Resetup, AddingInv
  <2>5. CASE ResetupDefault(t)
    <3>1. ~Idle(t) /\ StackInv /\ OwnerInv BY <2>5 DEF ResetupDefault, In, LogInv
    <3>2. Now(t) = calls[t][Len(calls[t])] /\ Len(calls[t]) \in DOMAIN calls[t]
      BY <3>1, UnderFacts DEF StackInv
    <3>3. mutex = t BY <2>5, <3>1, <3>2 DEF OwnerInv, ResetupDefault, In, SettingUp
    <3> QED BY <2>3, <2>5, <3>3 DEF ResetupDefault, AddingInv
  <2>6. ASSUME NEW c \in Class, Message(t, c, WARN) PROVE AddingInv'
    BY <2>0, <2>6, BeginAdding DEF Message, AddingInv
  <2>7. CASE PushContext(t) \/ PopContext(t) \/ ClearContext(t)
    BY <1>1, <2>0, <2>7 DEF PushContext, PopContext, ClearContext
  <2> QED BY <1>7, <2>1, <2>2, <2>4, <2>5, <2>6, <2>7 DEF Others, MessageStep
<1> QED BY <1>2, <1>3, <1>4, <1>5, <1>6, <1>7 DEF Next, MainStep

\* How many chains this configuration has added.
Added == CASE conf.pc = "done" /\ conf.file.opens -> Len(Entries) + 1
           [] conf.pc \in {"name", "level", "target", "add"} -> conf.i
           [] conf.pc = "raise" -> conf.i + 1
           [] OTHER -> 0

WrittenInv == early = {} => WrittenAs(chains, Added, ForAll, Entries)

\* One more chain at the end.
LEMMA WrittenGrows ==
  ASSUME NEW S, NEW ch \in Seq(S), NEW n \in Nat, NEW first, NEW es, NEW x \in S,
         WrittenAs(ch, n, first, es),
         n = 0 => x = first, n # 0 => x = ChainOf(es[n])
  PROVE  WrittenAs(Append(ch, x), n + 1, first, es)
<1>1. PICK new : new = Append(ch, x) OBVIOUS
<1>2. PICK len \in Nat : len = Len(ch) OBVIOUS
<1>3. /\ Len(new) = len + 1 /\ new[len + 1] = x
      /\ \A k \in 1..len : new[k] = ch[k]
  BY <1>1, <1>2
<1>4. n < len /\ Len(new) - (n + 1) = len - n /\ len - n >= 1 /\ n + 1 < Len(new)
      /\ len - n \in Nat
  BY <1>2, <1>3 DEF WrittenAs
<1>5. new[(len - n) + 1] = first
  <2>1. CASE n = 0
    <3>1. (len - n) + 1 = len + 1 BY <2>1
    <3> QED BY <1>3, <2>1, <3>1
  <2>2. CASE n >= 1
    <3>1. (len - n) + 1 \in 1..len BY <1>2, <1>4, <2>2
    <3> QED BY <1>2, <1>3, <2>2, <3>1 DEF WrittenAs
  <2> QED BY <2>1, <2>2
<1>6. ASSUME NEW j \in 1..((n + 1) - 1) PROVE new[(len - n) + 1 + j] = ChainOf(es[j])
  <2>1. CASE j = n
    <3>1. (len - n) + 1 + j = len + 1 BY <1>2, <2>1
    <3> QED BY <1>3, <1>6, <2>1, <3>1
  <2>2. CASE j # n
    <3>1. j \in 1..(n - 1) /\ (len - n) + 1 + j \in 1..len BY <1>2, <1>4, <1>6, <2>2
    <3>2. ch[(len - n) + 1 + j] = ChainOf(es[j]) BY <1>2, <3>1 DEF WrittenAs
    <3> QED BY <1>3, <3>1, <3>2
  <2> QED BY <2>1, <2>2
<1>7. WrittenAs(new, n + 1, first, es)
  <2>1. PICK d : d = len - n OBVIOUS
  <2>2. Len(new) - (n + 1) = d BY <1>4, <2>1
  <2>3. \A j \in 1..((n + 1) - 1) : new[d + 1 + j] = ChainOf(es[j]) BY <1>6, <2>1
  <2>4. new[d + 1] = first BY <1>5, <2>1
  <2> QED BY <1>4, <2>2, <2>3, <2>4 DEF WrittenAs
<1> QED BY <1>1, <1>7

\* Every other step of the program adds nothing, or starts over.
LEMMA AddedFrame ==
  ASSUME ConfInv, [Next]_vars, ~Add
  PROVE  Added' = 0 \/ (Added' = Added /\ UNCHANGED <<Entries, ForAll>>)
<1>0. conf \in ConfType BY DEF ConfInv
<1>1. CASE UNCHANGED conf
  BY <1>1 DEF Added, Entries, ForAll, WantedForAll
<1>6. CASE Raise
  <2>1. /\ conf.pc = "raise" /\ conf' = NextClass /\ conf.i \in 0..Len(Entries)
        /\ conf.i \in Nat
    BY <1>6 DEF Raise, At, ConfInv, ConfType
  <2>2. Len(Entries) \in Nat BY <1>0, FileFacts DEF ConfType, Entries
  <2>3. /\ conf'.file = conf.file
        /\ \/ conf'.pc = "name" /\ conf'.i = conf.i + 1
           \/ conf'.pc = "done" /\ conf.i = Len(Entries)
    BY <1>0, <2>1, <2>2 DEF NextClass, ConfType
  <2>4. Entries' = Entries /\ ForAll' = ForAll BY <2>3 DEF Entries, ForAll, WantedForAll
  <2>5. Added = conf.i + 1 BY <2>1 DEF Added
  <2>6. Added' = conf.i + 1 \/ Added' = 0 BY <2>3, <2>4 DEF Added
  <2> QED BY <2>4, <2>5, <2>6
<1>2. CASE Configure
  <2>1. PICK f \in File : conf' = [conf EXCEPT !.pc = IF f.opens THEN "verbosity" ELSE "done",
                                               !.file = f]
    BY <1>2 DEF Configure
  <2>2. IF f.opens THEN conf'.pc = "verbosity" ELSE conf'.pc = "done" /\ ~conf'.file.opens
    BY <1>0, <2>1, SettingsAssumption DEF ConfType
  <2> QED BY <2>2 DEF Added
<1>3. CASE Verbosity \/ Name \/ ClassLevel \/ Target
  <2>1. /\ conf'.file = conf.file /\ conf'.i = conf.i
        /\ \/ conf.pc = "verbosity" /\ conf.i = 0
           \/ conf.pc \in {"name", "level", "target"}
        /\ conf'.pc \in {"name", "level", "target", "add", "crashed"}
    BY <1>0, <1>3 DEF Verbosity, Name, ClassLevel, Target, At, ConfInv, ConfType
  <2>2. UNCHANGED <<Entries, ForAll>> BY <2>1 DEF Entries, ForAll, WantedForAll
  <2>3. Added = conf.i BY <2>1 DEF Added
  <2>4. Added' = conf.i \/ Added' = 0 BY <2>1 DEF Added
  <2> QED BY <2>2, <2>3, <2>4
<1>4. CASE Done
  <2>1. conf'.pc = "idle" BY <1>0, <1>4 DEF Done, ConfType
  <2> QED BY <2>1 DEF Added
<1>5. CASE Free \/ (\E t \in Thread : Others(t)) \/ UNCHANGED vars
  BY <1>1, <1>5 DEF Free, Others, vars, svars
<1> QED BY <1>2, <1>3, <1>4, <1>5, <1>6 DEF Next, MainStep

\* What a step adds goes to the end, and nothing that was added goes away
\* unless somebody has logged too early.
LEMMA WrittenNext ==
  ASSUME LogInv, EarlyInv, ConfInv, ChainsInv, WrittenInv, [Next]_vars PROVE WrittenInv'
<1> SUFFICES ASSUME early' = {} PROVE WrittenAs(chains, Added, ForAll, Entries)'
  BY DEF WrittenInv
<1>1. early = {} BY ChainsFrame
<1>2. WrittenAs(chains, Added, ForAll, Entries) BY <1>1 DEF WrittenInv
<1>3. chains \in Seq(Chain \union {Default}) /\ Len(chains) \in Nat
  <2>1. chains \in Seq(Chain \union {Default}) BY DEF ChainsInv
  <2> QED BY <2>1
<1>0. conf \in ConfType BY DEF ConfInv
<1>6. CASE Added' = 0
  <2>1. chains' \in Seq(Chain \union {Default}) /\ Len(chains') >= 1
    BY ChainsNext DEF ChainsInv
  <2> QED BY <1>6, <2>1 DEF WrittenAs
<1>4. CASE Add
  <2>1. /\ conf.pc = "add" /\ conf' = [conf EXCEPT !.pc = "raise"]
        /\ chains' = Append(chains, [name |-> conf.name, minlvl |-> conf.level])
        /\ conf.i \in 0..Len(Entries)
    BY <1>4 DEF Add, At, AddChain, ConfInv
  <2>2. PICK x : x = [name |-> conf.name, minlvl |-> conf.level] OBVIOUS
  <2>3. x \in Chain \union {Default} BY <2>2 DEF ConfInv, ConfType, Chain
  <2>4. /\ conf.i = 0 => x = ForAll
        /\ conf.i # 0 => x = ChainOf(Entries[conf.i])
    BY <2>1, <2>2 DEF ConfInv, Current
  <2>5. Added = conf.i BY <2>1 DEF Added
  <2>6. conf.i \in Nat BY <1>0 DEF ConfType
  <2>7. WrittenAs(Append(chains, x), conf.i + 1, ForAll, Entries)
    BY <1>2, <1>3, <2>3, <2>4, <2>5, <2>6, WrittenGrows
  <2>8. conf'.file = conf.file /\ conf'.pc = "raise" /\ conf'.i = conf.i
    BY <1>0, <2>1 DEF ConfType
  <2>9. Entries' = Entries /\ ForAll' = ForAll BY <2>8 DEF Entries, ForAll, WantedForAll
  <2>10. Added' = conf.i + 1 BY <2>8 DEF Added
  <2> QED BY <2>1, <2>2, <2>7, <2>9, <2>10
<1>5. CASE ~Add
  <2>1. chains' = chains BY <1>1, <1>5, ChainsFrame
  <2>2. CASE Added' = Added /\ UNCHANGED <<Entries, ForAll>> BY <1>2, <2>1, <2>2
  <2> QED BY <1>5, <1>6, <2>2, AddedFrame
<1> QED BY <1>4, <1>5
\* Between its steps the program has written the file as far as it has come.
LEMMA WrittenInvariant == Spec => [](WrittenInv /\ AddingInv)
<1>3. Init => AddingInv BY DEF Init, LoggingInit, AddingInv, Adding
<1>1. Init => WrittenInv
  <2> SUFFICES ASSUME Init PROVE WrittenInv OBVIOUS
  <2> DEFINE one == <<Default>>
  <2>1. Len(one) = 1 OBVIOUS
  <2>2. chains = one /\ Added = 0 BY DEF Init, LoggingInit, Added
  <2> QED BY <2>1, <2>2 DEF WrittenInv, WrittenAs
<1>2. LogInv /\ EarlyInv /\ ConfInv /\ ChainsInv /\ WrittenInv /\ [Next]_vars => WrittenInv'
  BY WrittenNext
<1>4. LogInv /\ ConfInv /\ AddingInv /\ [Next]_vars => AddingInv' BY AddingNext
<1> QED BY <1>1, <1>2, <1>3, <1>4, EarlyInvariant, ConfInvariant, ChainsInvariant, PTL DEF Spec

\* The largest number of a set of numbers is LastOf.
LEMMA LastOfIs ==
  ASSUME NEW S, S \subseteq Nat, NEW m \in S, \A j \in S : j <= m PROVE LastOf(S) = m
<1>1. \A i \in S : (\A j \in S : j <= i) => i = m OBVIOUS
<1> QED BY <1>1 DEF LastOf

\* The last chain that names a class is that of the last entry that does, or
\* the one for all.
LEMMA WrittenLast ==
  ASSUME ConfInv, ChainsInv, NEW c \in Class,
         WrittenAs(chains, Len(Entries) + 1, ForAll, Entries)
  PROVE  chains[LastOf(Naming(c, Len(chains)))].minlvl = Wanted(c)
<1>1. /\ conf.file \in File /\ Entries \in Seq(Entry) /\ Len(Entries) \in Nat
      /\ \A i \in 1..Len(Entries) : Entries[i].name \in Class \union {Absent}
  BY FileFacts DEF ConfInv, ConfType, Entries
<1>2. chains \in Seq(Chain \union {Default}) /\ Len(chains) \in Nat
  <2>1. chains \in Seq(Chain \union {Default}) BY DEF ChainsInv
  <2> QED BY <2>1
<1>3. PICK K \in Nat : K = Len(Entries) BY <1>1
<1>4. PICK L \in Nat : L = Len(chains) BY <1>2
<1>5. PICK b : b = L - K OBVIOUS
<1>6. b \in Nat /\ b >= 2 /\ b + K = L BY <1>3, <1>4, <1>5 DEF WrittenAs
<1>7. chains[b] = ForAll /\ \A j \in 1..K : chains[b + j] = ChainOf(Entries[j])
  <2>1. (L - (K + 1)) + 1 = b /\ (K + 1) - 1 = K /\ K + 1 >= 1 BY <1>5
  <2>2. /\ chains[(L - (K + 1)) + 1] = ForAll
        /\ \A j \in 1..((K + 1) - 1) : chains[(L - (K + 1)) + 1 + j] = ChainOf(Entries[j])
    BY <1>3, <1>4, <2>1 DEF WrittenAs
  <2> QED BY <2>1, <2>2
<1> DEFINE naming == {i \in 1..K : Entries[i].name \in {Absent, c}}
           N == Naming(c, Len(chains))
<1>8. /\ N \subseteq 1..L /\ N \subseteq Nat /\ b \in N
  <2>1. 2..L \subseteq 1..L /\ 1 \in 1..L /\ b \in 2..L /\ 1..L \subseteq Nat BY <1>6
  <2>2. chains[b].name = NULL BY <1>7 DEF ForAll
  <2> QED BY <1>4, <2>1, <2>2 DEF Naming, Names
<1>9. \A j \in 1..K : b + j \in N <=> j \in naming
  <2> TAKE j \in 1..K
  <2>1. b + j \in 2..L /\ b + j # 1 BY <1>6
  <2>2. b + j \in N <=> chains[b + j].name \in {NULL, c} BY <1>4, <2>1 DEF Naming, Names
  <2>3. chains[b + j].name = IF Entries[j].name = Absent THEN NULL ELSE Entries[j].name
    <3>1. chains[b + j] = ChainOf(Entries[j]) BY <1>7
    <3>2. ChainOf(Entries[j]).name = IF Entries[j].name = Absent THEN NULL ELSE Entries[j].name
      BY DEF ChainOf
    <3> QED BY <3>1, <3>2
  <2>4. Entries[j].name \in Class \union {Absent} BY <1>1, <1>3
  <2>5. NULL \notin Class BY LoggingAssumption
  <2> QED BY <2>2, <2>3, <2>4, <2>5
<1>10. \A n \in N : n <= b \/ (n - b \in 1..K /\ n = b + (n - b))
  <2> TAKE n \in N
  <2>1. n \in 1..L BY <1>8
  <2> QED BY <1>6, <2>1
<1>11. Wanted(c) = IF naming = {} THEN WantedForAll
                   ELSE ChainOf(Entries[LastOf(naming)]).minlvl
  <2>1. DOMAIN Entries = 1..K BY <1>1, <1>3
  <2> QED BY <2>1 DEF Wanted, ChainOf
<1> HIDE DEF N, naming
<1>12. CASE naming = {}
  <2>1. \A n \in N : n <= b BY <1>9, <1>10, <1>12
  <2>2. LastOf(N) = b BY <1>8, <2>1, LastOfIs
  <2> QED BY <1>7, <1>11, <1>12, <2>2 DEF ForAll, N
<1>13. CASE naming # {}
  <2>0. naming \in SUBSET (1..K) /\ naming \subseteq Nat BY DEF naming
  <2>1. PICK m \in naming : \A j \in naming : j <= m BY <1>13, <2>0, Largest
  <2>2. LastOf(naming) = m BY <2>0, <2>1, LastOfIs
  <2>3. m \in 1..K /\ b + m \in N BY <1>9, <2>0, <2>1
  <2>4. \A n \in N : n <= b + m
    <3> TAKE n \in N
    <3>1. CASE n <= b BY <1>6, <1>8, <2>3, <3>1
    <3>2. CASE n - b \in 1..K /\ n = b + (n - b)
      <4>1. n - b \in naming BY <1>9, <3>2
      <4>2. n - b <= m BY <2>1, <4>1
      <4> QED BY <1>6, <1>8, <2>3, <4>2
    <3> QED BY <1>10, <3>1, <3>2
  <2>5. LastOf(N) = b + m BY <1>8, <2>3, <2>4, LastOfIs
  <2> QED BY <1>7, <1>11, <1>13, <2>2, <2>3, <2>5 DEF N
<1> QED BY <1>12, <1>13

\* What settings_configure promises, for every file, any number of classes and
\* whoever logs meanwhile: a class that has been set up since it returned has
\* the level of its last entry, else that for all.
THEOREM Configured == Spec => []AsConfigured
<1>1. LogInv /\ ConfInv /\ ChainsInv /\ WrittenInv /\ AddingInv => AsConfigured
  <2> SUFFICES ASSUME LogInv, ConfInv, ChainsInv, WrittenInv, AddingInv,
                      conf.pc = "done", conf.file.opens, early = {},
                      NEW c \in Class, cls[c].serial = serial, ~Rewriting(c)
               PROVE  cls[c].minlvl = Wanted(c)
    BY DEF AsConfigured
  <2>1. Added = Len(Entries) + 1 BY DEF Added
  <2>2. chains[LastOf(Naming(c, Len(chains)))].minlvl = Wanted(c)
    BY <2>1, WrittenLast DEF WrittenInv
  <2>3. Idles(c) BY NotRewriting DEF LogInv
  <2>4. Announced = Len(chains) BY DEF AddingInv, Announced
  <2> QED BY <2>2, <2>3, <2>4 DEF LogInv, ForceInv, InForce
<1> QED BY <1>1, LoggingInvariant, ConfInvariant, ChainsInvariant, WrittenInvariant, PTL
=============================================================================
