------------------------------ MODULE WafRules ------------------------------
(***************************************************************************)
(* The rules for API keys that an admin generates for the firewall         *)
(* (src/api/account/admin.py: generate_waf_json_and_upload).  Seven files, *)
(* one after the other: each takes its keys from a query of its own, made  *)
(* when its turn comes, and is put into the bucket, which may fail.  The   *)
(* first blocks the keys that are revoked or have expired, the others put  *)
(* a label on the keys of one tier, by which they are limited.             *)
(***************************************************************************)
EXTENDS Integers, Sequences, FiniteSets

CONSTANTS
  Generators,  \* the runs of the action at a time
  Keys,        \* the API keys
  FirstKeys,   \* those that there are at first
  Settings,    \* the rows that admins may give to a key
  LastDate,    \* bound on the clock
  Demo,        \* DEMO_API_KEY, which the rule for unlimited keys adds
  NoKey

VARIABLES
  date,        \* the clock
  apiKeys,     \* the AccountAPIKey row of each key, or NoKey
  ruleFiles,   \* the keys of each file in the bucket
  generating,  \* the runs of the action
  fixed        \* history: the keys that a run has dealt with since they changed

wafVars == <<date, apiKeys, ruleFiles, generating, fixed>>

Never == LastDate + 1

(* rate_limit and analysis_rate_limit; keys of the first tier have no rule.*)
(* "unlimited" is NULL, which is what the forms save for an empty choice; a*)
(* row with an empty text, which no code writes, is left out.              *)
Tiers == {"1", "2", "3", "unlimited"}
KeyRow == [revoked: BOOLEAN, expires: 0..Never, rate: Tiers, analysis: Tiers]

(* The files in their order: whom they block or label.                     *)
Rules ==
  <<[field |-> "blocked", tier |-> "1"],
    [field |-> "analysis", tier |-> "unlimited"],
    [field |-> "analysis", tier |-> "3"], [field |-> "analysis", tier |-> "2"],
    [field |-> "rate", tier |-> "unlimited"],
    [field |-> "rate", tier |-> "3"], [field |-> "rate", tier |-> "2"]>>

Waiting == [rule |-> 0, read |-> {}, untouched |-> {}, first |-> FALSE]

WafTypeOK ==
  /\ date \in 0..LastDate
  /\ apiKeys \in [Keys -> KeyRow \cup {NoKey}]
  /\ ruleFiles \in [DOMAIN Rules -> SUBSET (Keys \cup {Demo})]
  /\ generating \in [Generators -> [rule: 0..2 * Len(Rules) + 1, first: BOOLEAN,
                       read: SUBSET (Keys \cup {Demo}), untouched: SUBSET Keys]]
  /\ fixed \subseteq Keys

NewKey == [revoked |-> FALSE, expires |-> Never, rate |-> "1", analysis |-> "1"]

WafInit ==
  /\ date = 0
  /\ apiKeys = [k \in Keys |-> IF k \in FirstKeys THEN NewKey ELSE NoKey]
  /\ ruleFiles = [n \in DOMAIN Rules |-> {}]
  /\ generating = [g \in Generators |-> Waiting]
  /\ fixed = {}

-----------------------------------------------------------------------------
Issued == {k \in Keys : apiKeys[k] # NoKey}

Expired(key) == key.expires <= date

InForce(key) == ~key.revoked /\ ~Expired(key)

(* Whom a rule is for; a key is in its rules by its prefix.                *)
Fits(rule, key) ==
  CASE rule.field = "blocked" -> key.revoked \/ Expired(key)
    [] rule.field = "analysis" -> InForce(key) /\ key.analysis = rule.tier
    [] rule.field = "rate" -> InForce(key) /\ key.rate = rule.tier

(* Keys that change are no longer dealt with.                              *)
Change(changed) ==
  /\ fixed' = fixed \ changed
  /\ generating' = [g \in Generators |->
                     [generating[g] EXCEPT !.untouched = @ \ changed]]
  /\ UNCHANGED ruleFiles

AddKey ==
  \E k \in Keys \ Issued :
    /\ apiKeys' = [apiKeys EXCEPT ![k] = NewKey]
    /\ Change({k})
    /\ UNCHANGED date

(* A key that is revoked cannot be used again.                             *)
EditKey ==
  \E k \in Issued : \E setting \in Settings \ {apiKeys[k]} :
    /\ apiKeys[k].revoked => setting.revoked
    /\ apiKeys' = [apiKeys EXCEPT ![k] = setting]
    /\ Change({k})
    /\ UNCHANGED date

DeleteKey ==
  \E k \in Issued :
    /\ apiKeys' = [apiKeys EXCEPT ![k] = NoKey]
    /\ Change({k})
    /\ UNCHANGED date

WafTick ==
  /\ date < LastDate
  /\ date' = date + 1
  /\ Change({k \in Issued : apiKeys[k].expires = date + 1})
  /\ UNCHANGED apiKeys

-----------------------------------------------------------------------------
(* Even numbers: the file is to be read; odd ones: it is to be put.        *)
NumberOf(g) == generating[g].rule \div 2

Proceed(g, next) ==
  /\ generating' = [generating EXCEPT ![g] = next]
  /\ UNCHANGED <<date, apiKeys>>

StartGenerating(g) ==
  /\ generating[g].rule = 0
  /\ Proceed(g, [rule |-> 2, read |-> {}, untouched |-> Keys,
                 first |-> \A h \in Generators : generating[h].rule = 0])
  /\ UNCHANGED <<ruleFiles, fixed>>

(* The demo key is added to the unlimited keys, if there are any.          *)
KeysFor(rule) ==
  LET keys == {k \in Issued : Fits(rule, apiKeys[k])} IN
  IF rule.field = "rate" /\ rule.tier = "unlimited" /\ keys # {}
  THEN keys \cup {Demo} ELSE keys

ReadFor(g, keys) ==
  /\ generating[g].rule > 0 /\ generating[g].rule % 2 = 0
  /\ Proceed(g, [generating[g] EXCEPT !.rule = @ + 1, !.read = keys])
  /\ UNCHANGED <<ruleFiles, fixed>>

ReadKeysOfRule(g) == ReadFor(g, KeysFor(Rules[NumberOf(g)]))

(* Plausible bug: the queries of the tiers do not look at the expiry.      *)
ReadKeysUnexpired(g) ==
  LET rule == Rules[NumberOf(g)] IN
  ReadFor(g, {k \in Issued :
                \/ Fits(rule, apiKeys[k])
                \/ rule.field = "rate" /\ ~apiKeys[k].revoked /\ apiKeys[k].rate = rule.tier})

(* The keys that did not change during a run that was not begun during     *)
(* another one are dealt with when it ends.                                *)
PutRule(g) ==
  LET n == NumberOf(g)
      job == generating[g]
      last == n = Len(Rules) IN
  /\ job.rule % 2 = 1
  /\ ruleFiles' = [ruleFiles EXCEPT ![n] = job.read]
  /\ Proceed(g, IF last THEN Waiting ELSE [job EXCEPT !.rule = @ + 1, !.read = {}])
  /\ fixed' = IF last /\ job.first THEN fixed \cup job.untouched ELSE fixed

(* The upload raises, which ends the action.                               *)
PutFails(g) ==
  /\ generating[g].rule > 0
  /\ Proceed(g, Waiting)
  /\ UNCHANGED <<ruleFiles, fixed>>

WafNext ==
  \/ AddKey \/ EditKey \/ DeleteKey \/ WafTick
  \/ \E g \in Generators :
       StartGenerating(g) \/ ReadKeysOfRule(g) \/ PutRule(g) \/ PutFails(g)

-----------------------------------------------------------------------------
(* Once a run has ended that no other was ahead of, a key that did not     *)
(* change since it began is in all the files that it should be in and in   *)
(* no other, however much other keys changed, and whatever later runs put  *)
(* or failed to put (each file has a reading of its own).                  *)
RulesFitKeys ==
  \A k \in fixed, n \in DOMAIN Rules :
    k \in ruleFiles[n] <=> k \in Issued /\ Fits(Rules[n], apiKeys[k])
=============================================================================
