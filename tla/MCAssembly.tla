----------------------------- MODULE MCAssembly -----------------------------
(* Small instances of Assembly for TLC.                                    *)
EXTENDS Assembly

CONSTANTS
  acme, bank,                  \* tenants
  scan, web, pay, feed, ghost, \* tools
  kyc, aml, memo, fraud, loop, pool, desk, spare, customDesk,  \* names
  name, icp,                   \* parameters
  email, ssn                   \* kinds of identifiers

\* Two tools of the platform, one MCP tool of each tenant; ghost is an invention.
Descriptors ==
  (scan :> [owner |-> Global, sideEffecting |-> FALSE, untrusted |-> FALSE]) @@
  (web  :> [owner |-> Global, sideEffecting |-> FALSE, untrusted |-> TRUE]) @@
  (pay  :> [owner |-> acme, sideEffecting |-> TRUE, untrusted |-> TRUE]) @@
  (feed :> [owner |-> bank, sideEffecting |-> FALSE, untrusted |-> TRUE])

Policy(r, a, n) == [inject |-> TRUE, review |-> r, pii |-> TRUE, allow |-> a, steps |-> n]
Hard(a) == [agent |-> a, hard |-> TRUE]
Soft(a) == [agent |-> a, hard |-> FALSE]

Tpl(n, ds, g, ts) ==
  [name |-> n, params |-> {name}, required |-> {name}, defaults |-> {}, deps |-> ds,
   guard |-> g, grantable |-> ts, preset |-> FALSE, required_tools |-> {}]

\* A chain of three with a soft shortcut, a cycle of two, and a form that its
\* defaults do not fill.
SmallCatalog ==
  [n \in Names |->
     CASE n = kyc -> Tpl(kyc, <<>>, Policy(FALSE, {email}, 1), {scan, web})
       [] n = aml -> Tpl(aml, <<Hard(kyc), Hard(fraud)>>, Policy(TRUE, {}, 2), {scan})
       [] n = memo -> Tpl(memo, <<Soft(kyc), Hard(aml)>>, Policy(FALSE, {}, 2), {scan})
       [] n = fraud -> [Tpl(fraud, <<Hard(kyc)>>, Policy(FALSE, {}, 2), {scan})
                          EXCEPT !.params = {name, icp}, !.required = {name, icp}]
       [] n = loop -> Tpl(loop, <<Hard(pool)>>, Policy(FALSE, {}, 2), {scan})
       [] n = pool -> Tpl(pool, <<Soft(kyc), Hard(loop)>>, Policy(FALSE, {}, 2), {scan})
       [] OTHER -> NoTemplate]

SmallCustomName == [n \in Scratch |-> customDesk]

SmallMaxRequests == [e \in Engines |-> IF e = "llm" THEN 2 ELSE 4]

Plain == [tools |-> {}, risky |-> FALSE, review |-> FALSE]
Ask(w, t, n) ==
  [tenant |-> w, template |-> t, name |-> n, typed |-> TRUE, given |-> {}, bad |-> {},
   text |-> Plain, picks |-> {}, tick |-> FALSE, approved |-> {}, auto |-> TRUE]

SmallRequests ==
  {Ask(acme, memo, memo),
   [Ask(acme, aml, aml) EXCEPT !.auto = FALSE],
   Ask(acme, loop, loop),
   [Ask(acme, fraud, fraud) EXCEPT !.given = {icp}, !.bad = {icp}],
   [Ask(acme, fraud, fraud) EXCEPT !.given = {icp}, !.typed = FALSE],
   [Ask(acme, NoTemplate, desk) EXCEPT !.picks = {pay, feed, ghost}, !.approved = {pay}],
   [Ask(acme, memo, memo) EXCEPT !.text.tools = {pay, web}, !.approved = {pay}],
   Ask(bank, customDesk, desk)}

\* Little; and everything, loosely guarded and depending on a chain that may lead back.
SmallProposals ==
  {[name |-> desk, tools |-> {scan}, deps |-> <<>>, guard |-> Policy(FALSE, {}, Unset),
    risk |-> Keep, human |-> FALSE],
   [name |-> desk, tools |-> Tools, deps |-> <<Hard(aml)>>,
    guard |-> [inject |-> FALSE, review |-> FALSE, pii |-> FALSE, allow |-> {email, ssn}, steps |-> 3],
    risk |-> "low", human |-> FALSE]}

SmallPatches ==
  {[tools |-> {scan, pay, feed}, approved |-> {}, guard |-> <<>>, human |-> Keep],
   [tools |-> {web, pay}, approved |-> {pay}, guard |-> [inject |-> FALSE, steps |-> 3], human |-> FALSE],
   [tools |-> Keep, approved |-> {}, guard |-> [review |-> FALSE, allow |-> {ssn}], human |-> Keep]}

=============================================================================
