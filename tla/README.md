# Verification of my-besu-net

TLA+ models, TLC runs and TLAPS proofs for the permissioned digital-asset demo
in this repository: a trimmed T-REX (ERC-3643) token on a private Besu network,
a backend that signs and relays transactions, an optional gateway process in
front of the node, and a browser page; and for the Python scripts of the two
skills under `.agents/skills/`, which develop the project beside it.  Sources
are cited relative to the repository root.

Contents: [the system](#the-system), [the modules](#the-modules),
[the runs](#the-runs), [fairness](#fairness), [the proofs](#the-proofs),
[findings](#findings), [limits](#limits), [the plan](#the-plan).

## The system

```
 browser page --HTTP--> backend-api --RPC--> Besu node: registries, token
 (App, AdminPanel,        |   |  \            ^    ^
  TransferDashboard)      |   |   SQLite      |    |
                          |   +--HTTP--> chain-gateway
                          |      (gateway mode)
 contracts/scripts, scripts/seed.js -- the same keys, without the backend --+
```

| Component | State it keeps | Operations | Talks to |
|---|---|---|---|
| `ClaimTopicsRegistry.sol` | `claimTopics` array, `isRequired` mapping | add, remove (swap and pop), read | read by IdentityRegistry |
| `TrustedIssuersRegistry.sol` | issuer list, flags, trust per topic | add, remove, read | read by IdentityRegistry |
| `IdentityRegistryStorage.sol`, `IdentityRegistry.sol` | bound registry; per wallet a flag and a nested map of claims | bind, register, remove, add claim, `isVerified` | the storage obeys only the bound registry |
| `Token.sol`, `BasicCompliance.sol` | balances, supply, allowances | mint, transfer, approve, transferFrom, each gated in `_update` | asks `isVerified` |
| OpenZeppelin `Ownable` | owner of each contract | transfer, renounce | every administrative call |
| `ChainService.ts` + services | one `NonceManager` per identity: cached promise, delta | send, `tx.wait()`, `resetNonce` in the catch | node RPC |
| `GatewayChainService.ts` | nothing but the promise of a call | POST, poll the receipt up to 60 times | chain-gateway |
| `chain-gateway` | receipts in memory, its own NonceManager | POST (202 and a background wait), GET receipt | node RPC |
| backend-api routes, services, audit log | SQLite table `transfers` | onboard, mint, transfer, two reads | chain, database |
| `contracts/scripts/*.ts` | none | register, claim, mint, transfer, deploy | node RPC, address file |
| `scripts/seed.js`, compose | none | deploy, restart backend, onboard, mint | all of the above |
| frontend | React state of App, AdminPanel, TransferDashboard | switch tab, onboard, mint, switch identity, send | backend-api |
| `run_eval.py` | a command file per task in a shared directory, worker processes | run a query, parse claude's stream, merge the verdicts | `claude -p` |
| `run_loop.py`, `improve_description.py`, `generate_report.py` | history, current description, report file | split, evaluate, improve, shorten, conclude | run_eval, claude |
| `quick_validate.py`, `package_skill.py` | a .skill file | validate, zip | SKILL.md, which its author edits |
| `aggregate_benchmark.py` | benchmark.json | load the grades, summarise | graders that write meanwhile |
| `generate_review.py`, `viewer.html` | feedback.json; comments, timer and dialogs of each page | launch over an older server, serve, save, submit | browser pages that stay open |
| `extract_mermaid.py`, `mermaid_to_image.py`, `resilient_diagram.py` | .mmd files, images, a document with references | extract, validate, replace, render, generate with advice | `mmdc`, an author |

### What is hard here, and what correct means

*Contracts.*  A transaction runs alone, so the difficulty is the *sequence*:
registries are edited in any order by their owners, ownership is renounced, the
storage is rebound, and verification is recomputed from whatever the topics are
at that moment.  Correct means: the array and the mapping of each registry agree
after every swap-and-pop; the balances add up to the supply; tokens are created
for, and move between, verified wallets only; and onboarding done along the
services' paths is never undone by them.

*Sending.*  `ChainService` shares one `NonceManager` per identity between
concurrent HTTP requests.  A nonce is reserved synchronously, the pending count
behind it arrives later, a failed send resets the manager while others hold
reservations of the old promise, scripts use the same key beside it, and
`tx.wait()` has no timeout.  Correct means: a call that resolves has executed; a
call that is refused never executes, not even later out of the pool; the manager
skips no nonce by itself.

*Gateway.*  Receipts are in memory, the wait is in the background, polling is
bounded, and either process may restart.  Correct means the same promise as
direct sending, and that every call ends.

*backend-api.*  `alreadyRegistered` and `alreadyVerified` are read before an
await and acted on after it; the answer "verified" is a constant; the audit row
is written after the wait and outside the try block.  Correct means: a 200 is
true now and later; the log holds confirmed transfers, each once, and every
transfer a caller was told about; whatever is missing has a named cause.

*Deployment.*  The suite is built by nine transactions and becomes known through
a file that processes read once.  Compose down wipes the chain and not the
file; `seed.js` restarts one of the two processes that hold addresses.  Correct
means: on its chain the file names one complete suite, "Seed complete" is true
of the suite in use, and the seed can be repeated.

*Frontend.*  Answers come back in any order and each continuation writes the
state it finds with the values it captured.  Correct means: `busy` is exact, no
transfer goes to oneself, and whatever went wrong on the screen is over once the
tab is opened anew.

*Description loop.*  Workers share one command directory and each watches a
stream that arrives in chunks, may stop, or may outlive its process.  Correct
means: a verdict is earned or named as cut short; no file stays behind a living
pool; the improver never learns what is held out; what is shipped is what scored
best; and the loop ends.

*Benchmark and review.*  Graders write while the aggregation reads; a second
launch kills the server a page still talks to, and a timer set before a submit
fires after it.  Correct means: the numbers are those of the grades that stood
whole, and "Review Complete" means that the comments are in the file.

*Diagrams.*  Three scripts meet in one directory over files named by number,
hash, kind or title, while the document is edited and `mmdc` may lie.  Correct
means: an image shows the code it is referred to for, is found after a full
batch, a reported success is one, and the advice on a failure is the guide's best.

`PROJECT.json` lists every hazard at its line with the properties that cover it.  A
hazard that the code does not guard against, so that what it names does happen, has
no property but a note, and is described under [findings](#findings) or
[limits](#limits).

## The modules

| Module | Models | State | Actions |
|---|---|---|---|
| `Ownable` | OpenZeppelin's `Ownable`, external | `owner` | `SetOwner` |
| `ClaimTopicsRegistry` | the topics registry | `topics`, `required` | add, remove with `SwapAndPop` |
| `TrustedIssuersRegistry` | the issuers registry | list, flags, trust | add, remove |
| `IdentityRegistry` | registry and storage | `boundRegistry`, `registered`, claims | bind, register, remove, claim |
| `Token` | token and compliance | balances, supply, allowances | mint, transfer, approve, transferFrom |
| `TRexSuite` | all contracts together, one action per transaction | the union | `Next`: any account, any contract; `ServiceNext`: what services and scripts sign |
| `CompliantLedger` | what the suite promises, without registries | eligible, balance, issued | issue, move, requalify |
| `SendPipeline` | NonceManager, send/wait/catch, the node's pool | promise, delta, counts, pool, request positions | reserve, count answered or failed, broadcast, settle, mine, fault, restart |
| `AbstractSend` | what the services rely on when they call | state and effect of each call | begin, execute, resolve, reject, lose track |
| `Gateway` | the gateway transport, both processes | promise, tries, handler, receipt, fate | POST, reply, poll, waits, restarts |
| `BackendApi` | the POST routes, services and audit log over `TRexSuite` | body, handler position, fate, answer, audit | post, check, send, mine, confirm, read, losses |
| `Frontend` | the page | tab, cards, dashboard record, requests | tab, run, switch, edit, send, execute, answer, deliver |
| `Deployment` | compose, `deploy.ts`, the address file, process starts, `seed.js` | chain by address, file, addresses held, cached nonce, step of the seed | up, down, deploy, save, restart, wait, API call, die |
| `EvalQuery` | run_eval: pool, command files, stream parser; claude is external | batch, tasks, command files, broken rounds | launch, emit, exit, read a chunk, time out, a worker dies |
| `ImproveLoop` | run_loop over `EvalQuery`, with improver and reports | position, split, description, history, what the improver was shown | begin, score, improve, shorten, conclude |
| `SkillPackage` | author, validation, packaging over `ImproveLoop` | the .skill file | apply, package |
| `Benchmark` | aggregate_benchmark beside graders | run directories, results, benchmark.json | grade, list evals and configurations, load, summarise, write |
| `Review` | review servers, pages and feedback.json of two iterations | files, server, pages, posts under way, comments | launch, kill, answer, type, timer, navigate, submit, reopen |
| `Diagrams` | the three diagram scripts on one directory | document, .mmd files, images, the script at work | edit, extract, validate, replace, batch, generate, search, advise |
| `MCTRexSuite`, `MCBackendApi`, `MCDeployment`, `MCSkillPackage`, `MCDiagrams` | sets and sums a configuration file cannot write | none | none |
| `MCSkillReview` | `Benchmark` and `Review` side by side | the union | a step of either |
| `*_proofs` | theorems about the module of that name; `BackendApi_proofs` is about `TRexSuite` too, `SkillLoop_proofs` about `SkillPackage` with all it extends, `Review_proofs` about `Benchmark` too | none | none |

Composition: the four contract modules extend one another in the order in which
the contracts read each other and meet in `TRexSuite`; `BackendApi` extends
`TRexSuite`, so its transactions are the suite's own actions.  `SendPipeline`
and `Gateway` are two implementations of `AbstractSend`.  `BackendApi` does not
repeat the nonces: a transaction there is pooled, then executed, reverted or
replaced, and an answer is a success, a refusal or unknown, which is exactly
what `AbstractSend` leaves possible.  This is how the proofs about the two
transports carry to the services.  `Frontend` sees of the backend only that it
may execute, refuse or fail.

How a model's step relates to the code: Solidity functions are atomic.  In the
TypeScript an action is the code from one `await` to the next, so `Reserve` is
`NonceManager.sendTransaction` up to its first await, `Settle` is everything a
service does after `tx.wait()`, its catch block with `resetNonce` included, and
`Confirm` is the continuation that inserts the row, since `recordTransfer` is a
synchronous `node:sqlite` call.  In Python a step is what a script does between two
moments at which another process can interfere: one chunk read, one
directory listed, one run looked at, one file opened or written.  `AcceptPost` is broadcast, `createPending`,
the 202 and the start of the background wait.

Definitions marked "Mutant" are deliberate bugs: each is the replacement for the
definition below it that shows that a property is able to fail.

## The runs

| Run | Module, configuration | Distinct states | Question |
|---|---|---|---|
| `suite` | MCTRexSuite, Suite | 184 320 | do tokens stay backed, and move only between verified wallets, whatever any account does?  Do arrays and mappings agree, and does renouncing seal the identity set? |
| `reregister` | MCTRexSuite, Reregister | violation | is a wallet registered afresh unverified? |
| `pipeline` | SendPipeline, Pipeline | 125 085 | are the answers true, are nonces skipped, what can a wait wait for? |
| `pipeline_hang` | SendPipeline, PipelineHang | violation | does every broadcast settle? |
| `gateway` | Gateway, Gateway | 40 106 | the same promise through restarts; does every call end? |
| `backend` | MCBackendApi, Backend | 1 046 097 | are answers and audit log true to the chain; do services ever freeze a balance or unverify a wallet? |
| `frontend` | Frontend, Frontend | 509 749 | is `busy` exact, is nothing sent to oneself, does opening the tab again repair a page that failures or overlapping answers left wrong? |
| `deployment` | MCDeployment, Deployment | 907 406 | does the address file ever name half a suite, is "Seed complete" true, can the seed be repeated? |
| `eval_loop` | MCSkillPackage, EvalLoop | 398 444 | are verdicts earned and files cleaned up, does the test set stay unseen, is the best shipped, does the loop end? |
| `holdout_zero` | MCSkillPackage, HoldoutZero | violation | does a loop with nothing held out fail only for its improver or its SKILL.md? |
| `review` | MCSkillReview, Review | 2 537 188 | does the benchmark count exactly the whole grades; does "Review Complete" mean saved? |
| `diagrams` | MCDiagrams, Diagrams | 2 381 832 | do images show their code, are successes real, do the scripts agree on names, does the search give the advice the whole guide calls for? |

### Bounds, and why they are enough

* **Suite**: two wallets besides the admin, two topics, one issuer, `MaxUint` 2
  standing for 2^256 - 1, anson allowed to approve beatrice, the storage bound to
  the registry or to the admin, registry and storage renounced in any order.
  Every comparison of `_update` is reached on both sides: a mint at the top of
  the word, a whole balance, zero, and a transfer to oneself.  Topics come and
  go, so a holder's verification is lost and regained.  Longer arrays, with a
  middle element to swap out, are covered by `TopicsAlwaysInSync` and
  `IssuersAlwaysListed`, which hold for any.
* **Pipeline**: three requests, one script transaction, one fault.  Three is the
  least for a failed send, one that holds the old promise, and one that starts after
  the reset.  The fault is a lost answer, a pending-count query that fails and
  leaves its rejected promise cached until the reset, or a restart; a rejection
  nobody handles ends the process and is that restart.  With a script and a fault,
  collisions below the account's nonce and inside the pool both happen, and so does
  a replacement.
* **Gateway**: two calls, three tries for the code's 60, two faults, so that
  one call can meet a restart of both processes.
* **Backend**: three requests, six bodies (both onboarding steps, a mint,
  transfers both ways, one sender the routes do not know), four script calls,
  one loss.  Two requests race on one wallet while a third depends on the result.
  The chain below is that of `ServiceSpec`, so the same run checks what the
  services and scripts can do to verification; `MaxUint` is 3 there.
* **Deployment**: two runs of the seed, one compose down, one mint from the page at
  any moment, one failing step, either transport; at the start no address file, or
  that of a second deployment on an earlier chain.  Addresses follow nonces, so this
  file names nothing after a wipe, while the one of a first deployment names
  contracts that the next deployment brings back; the run comes to that one by a
  seed, a teardown and the other seed.  One failure is enough for a seed that dies
  half way and for a restart that fails with a deployment before it; the theorems
  cover any number of each, and any file.
* **Frontend**: two identities, one request more than the dashboard opens by
  itself, one fault, amount 1.
* **Eval loop**: two workers for at most three tasks, so that one waits for a
  place; two rounds, the least with something to choose from and something to
  show the improver; one fault.  Of the three eval sets one repeats its train
  query as a test query and one wants and does not want the same query.
* **Review**: two evals of two configurations, one run each, one grade changed
  afterwards; two iterations of two runs, two edits, two launches, three posts,
  one fault: the least for a page that meets the server of another iteration.
* **Diagrams**: a document of two blocks, three diagrams of which `mmdc` refuses
  two, titles that agree where they are cut, three scripts one after another,
  one misbehaviour.  Three guides: none found; one like that of the skill, with an
  entry for all diagrams, a tie, the best match of one complaint last, and five
  entries for the three places that stand for the code's five
  (`resilient_diagram.py:257`; the 3 at line 662 is only what is printed); and one
  whose match has no number, which alone makes `generate` add a web query to a match.

Requests are interchangeable but the audit log and the configuration's bodies
are not symmetric in the wallets, so no symmetry reduction is used.  Deadlock
is not checked where a behaviour legitimately ends, when all requests of a
bounded run are over.

## Fairness

Safety runs use none.  `SendPipeline!FairSpec` assumes that the node produces
blocks (QBFT, one every two seconds) and answers a count query, that an
estimate or a broadcast comes back one way or the other, and that the event
loop runs the continuation of a settled wait.  It does not assume that anybody
sends anything, nor that an estimate succeeds or fails.  `Gateway!FairSpec`
assumes that both event loops run: the send returns, the reply arrives, the
timer of the next poll fires.  It does *not* assume that a transaction is ever
mined; that is what makes `EveryCallEnds` worth stating.
`SkillPackage!FairSpec` assumes that the scripts' own steps happen, their clocks
running out among them; claude owes nothing, neither an event nor its end.

## The proofs

Thirty-eight theorems, in eight modules, checked by TLAPS for every value of the
constants that satisfies the named assumptions.  Every safety invariant, action
property and refinement that a passing run checks is among them.  The
assumptions say

* of the contracts: there are finitely many accounts (an address is a word of
  twenty bytes), the admin is one and a trusted issuer, wallets and issuers are
  accounts, the zero address is nobody, the word is a natural number, an amount
  fits it, since ethers encodes no other;
* of the processes: the set of requests is finite and the bounds are natural
  numbers; anson, beatrice and the admin are three; an address file left from
  before is not of this chain;
* of the scripts: eval sets are sequences of queries wanted or not, a percentage
  is one, directories and runs are numbered and finite, an iteration has a run,
  a guide is a finite list and there is a place to show.

**Induction over data.**  Sums, folds, maxima and rankings are the community
modules' operators, which are recursive functions once their definitions are
expanded.  The library's induction rules take a predicate and cannot be
instantiated here; what can be cited is that strict inclusion of finite sets, and
`<` on the naturals, are well founded.  Each induction is therefore an argument by
a least counterexample, with the set of cases that hold as a set (`SubsetInduction`,
`LeastExists`).  Lemmas of the form "the equation has a solution, and two solutions
agree" then give the equations of each fold.

**`BackendApi_proofs`**, about `TRexSuite` and about `BackendApi` over it.

*The suite.*  `TypeCorrect`; `TopicsAlwaysInSync`; `IssuersAlwaysListed`;
`ImplementsCompliantLedger`; `SealingIsFinal`; `ServicesKeepHoldersVerified`;
`ServicesNeverUnverify`; `SupplyAlwaysBacked`; `BalancesNeverWrap`.  The heart of
the first group is a lemma about `SwapAndPop`: removing an element of a sequence
without duplicates leaves one without duplicates that has exactly the other
elements.  With it the two registry invariants are inductive together with their
types.  Refinement goes action by action: a mint is `Issue`, a transfer between
two accounts is `Move`, a transfer to oneself and an approval stutter, every
registry call is `Requalify`.  For the services, the inductive invariant
`ServiceInv` adds to "every holder is verified" that the KYC topic is still the
one required topic and the storage still bound; without that, `isVerified` after
a step could not be related to the one before.  For the supply, `SumSplits` lets
any account be taken out of the sum first; a transfer changes two places of it,
or one twice when the sender is the recipient, in the order in which `_update`
writes.  That no balance exceeds the supply follows, which is what the unchecked
additions of ERC20 rest on.

*The API.*  `AuditAlwaysSound`; `UnloggedAlwaysHasACause`; `RefusalsAlwaysFinal`;
`ApiRefinesServices`; `AnswersAlwaysTrue`; `LogAlwaysReconciles`.  That the state is
well typed is the lemma `BackendTyped`.  `HandlerInv` adds to the first three what
the point a handler has reached says of its transaction (none before the send,
executed while balances are read, a pooled one nobody waits for was cut off) and
that a row exists only from the read on.  Lemma `OneRequest` reduces a step that
leaves the log alone to the request it is about; the one that appends uses
`AppendFresh`.  `Succeeds`, an `ENABLED`, is never expanded: no argument needs to
know whether an estimate was right.  `TruthInv` adds `ServiceInv` of the suite and
that an executed call has had its effect; since every step of the API is one of
`ServiceSpec`, along which registrations and verifications stay, answers stay true.
By `ApiRefinesServices`, `ServicesKeepHoldersVerified` and `ServicesNeverUnverify`
hold behind the API too.  `LedgerInv` relates balances to *executed* calls, as long
as scripts only onboard: only this is inductive, since a row follows its transaction
by two awaits; log and answers agree with the executed calls once nothing is under
way and nothing was lost.

**`SendPipeline_proofs`.**  `PipelineTypeCorrect`; `PipelineImplementsSend`;
`GapsAlwaysHeld`.  The inductive invariant `IInv` has four parts.  `TypeOK` is
not inductive alone because nonces are computed from reservations.
`TicketInv`: for each promise the reservations number 0, 1, 2, ... without a
hole and `delta` counts those of the cached one.  `PoolInv`: one pooled
transaction per nonce, none below the account's, a request's only under the
nonce it reserved.  `FateInv`: what is mined is no longer pooled, and what a
request was told is true.  `IInv` is enough for the refinement: a rejection
needs that the transaction is neither executed nor pooled, so it can never
execute later.  `GapsAlwaysHeld` also needs `BaseInv`: below a resolved pending
count, and below a script's transaction, no nonce is missing.  Then a gap is at
or above the base of some promise and below one of its reservations, and by
`TicketInv` some request holds it.

**`Gateway_proofs`.**  `ReceiptsAlwaysAgree`; `GatewayImplementsSend`.  The
invariant ties, per call, the handler to the receipt and the fate: until the
broadcast there is no transaction and no receipt, and a rejected call has no
handler left that could still broadcast.  A lemma that a step of one call leaves
the others alone reduces the proof to one call.

**`Deployment_proofs`.**  `StackAlwaysTyped`; `FileAlwaysNamesASuite`;
`ReseedingAlwaysWorks`; `SeedAlwaysHonest`.  `FileInv` says what the steps of
`deploy.ts` done so far have built at the addresses in `made`, that nothing but
`Down` unbuilds it (`Keeps`), and that no file is of a chain still to come.
`ReseedInv` adds, for direct transport and no failure, what each later step of the
seed rests on: the file is the one just written, the backend holds it, its cached
nonce fits whoever sent meanwhile, and the onboarding done so far is in that suite.
Then no call can be refused.  `HonestInv` drops both restrictions.  Its core is
`UsesOK`: the process that signs works on a suite of this chain, or on addresses it
read from a file of an earlier one, and in the latter case nobody is verified in any
other registry; so an onboarding that was accepted was accepted by the registry that
"Seed complete" speaks of.  Mints are counted by who asked for them, the seed or the
page, so the seed's own is exact whatever the page adds.  This holds for any files
left from earlier chains, although addresses recur after a wipe.

**`Frontend_proofs`.**  `TypesAlwaysOK`; `NoTransferToSelf`; `BusyAlwaysExact`;
`ScreenAlwaysCurrent`.  `NeverToSelf` is about requests; what makes it inductive is
that sender and recipient differ on the screen, through every switch of either
selector.  `BusyInv` says by sets what `BusyIsExact` counts: the requests out for a
card are none, or one when it is busy.  For the last, `CurrentInv`: while nothing has
failed or overlapped since the tab was opened on a quiet page, either only reads
are out, every answer on its way is the truth, and each of balance and log is shown
or awaited; or one send is out and nothing else.  A quiet page awaits nothing, so it
shows both.  The number of faults before the opening does not enter: mounting starts
from nothing and asks for everything.

**`SkillLoop_proofs`.**  `FilesAlwaysOwned`; `TestAlwaysUnseen`;
`BestAlwaysShipped`; `VerdictsAlwaysEarned`.  The first needs that there are no
tasks between batches and that a file is known by its round and task.  The second
needs that every entry of the history has train results, about train queries only,
so that nothing the improver is shown can be of another kind once the blinding has
taken the test fields.  The third, `ShipInv`, follows the split (a fold over the
eval set, so both halves are sequences of items), the rounds (each entry's scores
are natural numbers, computed from that round's results) and the end: a first
maximum of a history exists, and result, report and SKILL.md all choose it.  The
fourth, `VerdictInv`, says of a worker that still watches what it can have read:
nothing, or the start of the one stream that begins with the task's own command,
in which case the call is open.

**`Diagrams_proofs`.**  `ImagesAlwaysShowTheirCode`; `SuccessIsAlwaysReal`;
`ReferencesAlwaysResolve`; `AdviceIsAlwaysBest`.  Names of `get_filename` carry their
diagram, so files, images and references with such a name agree with it, and a lying
`mmdc` can leave an older image there only of the same diagram.  A batch that has had
no failure has an image, or a lie, for every file it has behind it; files that appear
meanwhile belong to no batch.  `RefsInv` adds that each block last extracted under
the default prefix has its file under the number of its first copy, and that a
reference is of just that form: so both scripts name the same file, and since the
name carries the diagram, a lie over an older image is no exception here.  For the
advice, `SearchOK` is the loop invariant of the search: the matches after k entries
are those of the first k that score, each once and each in front of those it beats.
Lemmas `Insertion` and `PlaceKeeps` say that putting one more entry
behind its equals keeps this, which is where the stable sort matters; the cut at the
end then drops none that belongs in front.

**`Review_proofs`**, about `Review` and `Benchmark`.  `CompleteAlwaysSaved`;
`NumbersAlwaysHonest`.  `SavedInv` follows, per iteration, the comments a person has
written through the text area, the page's map, the posts under way and the file: an
open page holds the comments unless it was loaded without them (`NotedAt`), the last
post of a page under way or, when there is none, the file has them, unless a timer
is due or a download took them (`FileAt`), and after a submit that last post is the
submit (`DoneAt`).  The last is not inductive without the others, because a post
carries the map of the moment it was sent.  `BenchInv` speaks of the directories
passed so far: each grade found whole there is in the results (`ResultsInv`) and in
the sums of its configuration (`SumsInv`); what was passed comes before what is
still to do (`AheadInv`), so a configuration enters the order behind those seen
earlier (`OrderInv`), and when the first eval has both the first two are 1 and 2.

**Model-checked only.**  Liveness is outside what TLAPS proves:
`WaitsOnlyBehindAbandoned`, `EveryCallEnds` and `LoopEnds` are checked by TLC on the
runs' instances.  So are the three properties the code violates, which have
counterexamples.  Opaque to the provers are the builtins behind `SelectSeq` and
`SortSeq` of the standard modules; `Benchmark` visits the least directory of a set
and `Diagrams` inserts one entry after the other instead.

## Findings

1. **A deleted identity keeps its claims** (`reregister`).
   `IdentityRegistryStorage.sol:45` deletes a struct with a nested mapping;
   Solidity leaves the mapping.  Remove a verified wallet, register it again,
   and it is verified at once, against
   `contracts/test/compliance.test.ts:73`, "reports a freshly registered wallet
   as registered but not yet verified".
2. **A send can still hang** (`pipeline_hang`).  `PROJECT.md:21` calls the hang
   behind a wasted nonce fixed by `resetNonce`.  With two sends in flight the
   second already holds the nonce after the wasted one; the reset helps only
   sends that start later.  `WaitsOnlyBehindAbandoned` shows that this is the
   only way to hang.
3. **`--holdout 0` fails on its own report** (`holdout_zero`).
   `run_loop.py:254` offers "0 to disable".  `run_loop` then stores `None` under
   `test_results`, `generate_report.py:220` gets that `None` because the key is
   there, and iterates over it: a TypeError after the first round, unless
   reports are switched off.

Disagreements seen while reading, with no run of their own.

*Application.*

* `docs/prd.md:140` (FR-7) requires a row for every successful transfer; a lost
  RPC answer or a crash between execution and insert (`TransferService.ts:31`)
  leaves none.  `UnloggedHasACause` is the exact statement; `docs/prd.md:186` is
  weaker than FR-7 and calls the write best-effort.
* `docs/prd.md:111` (US-010), "Current identity's live balance is displayed":
  `refreshBalance` (`TransferDashboard.tsx:30`) writes whatever answer comes last,
  so a switch during a request can leave another identity's balance.  A read that
  fails, or a send whose answer is lost, leaves the screen behind the chain.
  `ScreenIsCurrent` names these conditions and says that opening the tab again ends them.  A failing refresh also
  replaces the success message of a send (`TransferDashboard.tsx:64`).
* `docs/deliverables.md:522`: a clean checkout "produces a working demo".
  `deployed-addresses.json` is git-ignored and bind-mounted
  (`docker-compose.yml:59`); when it is missing, compose up creates a directory,
  backend-api dies reading it and `saveDeployedAddresses` fails on it.  That
  Docker creates the directory is an assumption about Docker (`Mount`).
* `README.md:130` calls the seed "safe to re-run any time after a teardown",
  which `ReseedingWorks` shows for direct transport only: chain-gateway is not
  restarted, so with it a second seed on one chain fails on its stale nonce or
  addresses, or completes on the old suite with a second mint.  What `seed.js:85`
  prints, "Anson has 1000 DAT", is also false with either transport when somebody
  mints or transfers with the page before that line; `SeedIsHonest` is about the
  seed's own mint.  After a restart that failed, seed.js goes on with the
  old suite, and a gateway added to the running stack then reads the newer file:
  "Seed complete" says nothing about what it works on (`SeedIsHonest`).
* `docs/architecture.md:116` promises a 503 and a retry for an unreachable chain
  while `errorHandler.ts` answers 400 or 500: no line of the backend gives a 503, so
  no action of `BackendApi` does, and no property is stated about the status codes
  alone; `backend-api/src/chain/errors.ts:1`
  says that a raw RPC error never reaches the caller while the fallback to
  `shortMessage` passes one on; `docs/chain-gateway.md:30` says that a call
  resolves only once settled while `pollReceipt` gives up after 60 tries;
  `IdentityRegistryStorage.sol:9` says that the owner may rebind once while
  nothing counts; `docs/architecture.md:115` describes a banner that the page
  does not have.

*Skill scripts.*

* `split_eval_set` splits items, `run_loop` divides results by query text: a
  query in both halves has no test result, and a test set of such queries scores
  every round 0 of 0 (`NothingHeldOut`).  Strata of one item each leave nothing to
  train on, and the loop ends after one round as `all_passed`.
* The second answer of the improver is not measured again, so a description over
  the limit can be the best; the validator then refuses it.
* The delta of the benchmark is the first configuration that entered the results
  minus the second, and a configuration without a grade counts as 0;
  `runs_per_configuration` is the constant 3.  Each directory is listed at its own
  turn of the loops (lines 86, 101, 111), so a run made after that is not counted.
  The layout SKILL.md describes, with
  descriptive names and no `run-*`, is not the one that is read.
* `viewer.html:1048` takes every answer of the server for a success, and a timer or
  an arrow key after a submit overwrites "complete" with "in_progress":
  `CompleteMeansSaved` lists what parts the page from its file: a page of another
  iteration on the same port, a save behind a submit, a kill in the middle of a
  write, a page loaded without its comments.  What it adds is that nothing else does.
* The web query of `resilient_diagram.py` is for a search without a match, or whose
  best match has no number (line 535).  The shipped guide has entries for "All
  diagrams", which score for every failure, and numbers all its entries, so with it
  a web query is never given; `resilient-workflow.md:504` describes it as the normal
  next step.  A known message found in full can be outranked by an entry with more
  common words.

## Limits

* A call that reverts changes nothing and is not a step of the suite; its effect
  on the sender's nonce is in `SendPipeline`.  Zero addresses as arguments revert
  and are therefore not enumerated.  `BasicCompliance.boundToken` is written and
  never read, and left out; `canTransfer` is the constant the code returns.
* Uint256 is `0..MaxUint`; checked arithmetic reverts outside it.  `Number(balance)`
  in `routes.ts:88`, which rounds above 2^53, is not modelled.
* The node is external: a pool with one transaction per nonce, blocks in nonce
  order, the pending count as the first unused nonce.  Gas price, pool eviction
  and reorganisation are left out; QBFT blocks are final.
* Topics and trusted issuers are edited in `TRexSuite` by anybody who owns their
  registries, but not by the services, so `HoldersVerified` and `VerifiedIsTerminal`
  are about onboarding and its replays.  A new topic unverifies every holder at once;
  the contracts promise nothing about that, and no property does.
* A worker of `run_eval` that raises counts as not triggered (`run_eval.py:221`), for
  an unwanted query a pass.  The model keeps this; `BestIsShipped` is about the choice
  by these scores, not about how they came to be.
* A lost answer in `BackendApi` and `SendPipeline` stands for any RPC error that
  leaves open whether the node took the transaction.  A crash of the backend leaves
  it open too for every handler that was sending at that moment.
* `Deployment` keeps of a suite what seeding depends on (bound, trusted,
  registered, verified, mints by seed and by page), takes one API call as one step, since
  `SendPipeline` is about sends that overlap, leaves the page's transfers out, which
  change nothing of this and are signed by anson and beatrice, and counts a transaction of
  `deploy.ts` that fails for any reason as a fault.  The audit database beside
  a wiped chain is left out.
* Wording, logging, layout, React's StrictMode double mount and the two GET
  routes, which only read, are left out.
* claude, `mmdc`, graders, browsers and authors are external: claude follows one
  of four event streams and may stop in any of them; the eight hash digits of
  `get_filename` tell diagrams apart; a page has one tab per workspace, so the
  tab that `webbrowser.open` adds takes the place of one that was left open
  (`generate_review.py:461`), and the server takes posts in order.  `lsof` being
  absent, another program on the port, and with them the fallback to a free port
  (lines 444-447) are left out.
* Of the skill scripts, these are left out because they change no state that a
  property is about: the standalone mains of run_eval, improve_description and
  generate_report, benchmark.md, `--static` and `embed_file`, rounding and the
  square root of the variance, time and tokens of the benchmark, rendering of one
  file or of standard input, and the parser of the troubleshooting guide.
* Not modelled: Besu's configuration and the compose files (a third party's) and
  the test suites (read as statements of intent).

## The plan

Done: the contract suite, both transports, the backend, the page, deployment and
seeding, the description loop with packaging, benchmark and review, the diagram
scripts; and a theorem for every safety property that the passing runs check.  What
would come next, in this order:

1. The audit database beside a chain that is wiped, as a composition of
   `Deployment` with `BackendApi`.
2. That `BackendApi`'s calls behave as `AbstractSend` allows, as a refinement of its
   own; so far the argument is the one under "The modules".
3. The rounding of `Number(balance)`, once the demo holds amounts that reach it.
