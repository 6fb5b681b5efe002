------------------------------- MODULE Flash -------------------------------
(***************************************************************************)
(* hal::Flash: listing the pages of a flash memory.                        *)
(*                                                                         *)
(* get_page_info() asks for one page after another until there is none,    *)
(* which the driver reports as an error, and goes through the pages twice: *)
(* it counts them in order to reserve space, and then collects them.  Each *)
(* request is made in an api::ErrorScope of its own.                       *)
(*                                                                         *)
(* ErrorScope is not part of the repository.  When it is opened it resets  *)
(* the context or leaves it, and when it is closed the context is what it  *)
(* was before, or without an error.                                        *)
(***************************************************************************)
EXTENDS Context, Sequences

CONSTANT MaxPages   \* a bound on how many pages a memory has

ASSUME MaxPagesAssumption == MaxPages \in Nat

VARIABLES
    pages,      \* how many pages the memory has
    pass,       \* pass[t]: whether t's get_page_info counts or collects
    step,       \* step[t]: the statement of its loop
    count,      \* count[t]: its variable count
    is_done,    \* is_done[t]: its variable is_done
    result,     \* result[t]: its result, as the numbers of the pages
    saved,      \* saved[t]: the context that its ErrorScope was opened in
    hampered    \* history: hampered[t]: it began with an error pending, or a
                \* request for a page that exists failed

locals == <<count, is_done, result, saved, hampered>>
flashVars == <<pages, pass, step, locals>>

FlashInit ==
    /\ pages \in 0 .. MaxPages
    /\ pass = [t \in Threads |-> "none"]
    /\ step = [t \in Threads |-> "idle"]
    /\ count = [t \in Threads |-> 0]
    /\ is_done = [t \in Threads |-> FALSE]
    /\ result = [t \in Threads |-> <<>>]
    /\ saved = [t \in Threads |-> Fresh]
    /\ hampered = [t \in Threads |-> FALSE]

-----------------------------------------------------------------------------
\* erase_page, write_page, get_size, get_page_from_address, get_info and
\* get_version are one request each, none of which changes the pages there are.
FlashRequest(t) ==
    /\ step[t] = "idle"
    /\ Requested(t)
    /\ UNCHANGED flashVars

At(t, s, next) == step[t] = s /\ step' = [step EXCEPT ![t] = next]

ListBegin(t) ==
    /\ At(t, "idle", "open")
    /\ pass' = [pass EXCEPT ![t] = "count"]
    /\ hampered' = [hampered EXCEPT ![t] = IsError(ctx[t])]
    /\ UNCHANGED <<ctx, pages, count, is_done, result, saved>>

\* api::ErrorScope es;
ListOpenScope(t) ==
    /\ At(t, "open", "ask")
    /\ saved' = [saved EXCEPT ![t] = ctx[t]]
    /\ Reset(t) \/ UNCHANGED ctx
    /\ UNCHANGED <<pages, pass, count, is_done, result, hampered>>

\* const auto info = get_page_info(count);  There is such a page: it is
\* counted, and in the second pass collected.
ListPage(t) ==
    /\ At(t, "ask", "close")
    /\ Done(t)
    /\ count[t] < pages
    /\ count' = [count EXCEPT ![t] = @ + 1]
    /\ result' = IF pass[t] = "push"
                 THEN [result EXCEPT ![t] = Append(@, count[t])]
                 ELSE result
    /\ UNCHANGED <<pages, pass, is_done, saved, hampered>>

\* Without an answer the size of the page is the 0 it was initialized with.
ListNoPage(t) ==
    /\ At(t, "ask", "close")
    /\ NotDone(t)
    /\ is_done' = [is_done EXCEPT ![t] = TRUE]
    /\ hampered' = [hampered EXCEPT ![t] = @ \/ count[t] < pages]
    /\ UNCHANGED <<pages, pass, count, result, saved>>

\* The condition of the loop, and what comes after it.
ListLoop(t) ==
    /\ step[t] = "close"
    /\ \/ /\ ~is_done[t]
          /\ step' = [step EXCEPT ![t] = "open"]
          /\ UNCHANGED <<pass, count, is_done>>
       \/ /\ is_done[t]
          /\ pass[t] = "count" /\ count[t] # 0
          /\ step' = [step EXCEPT ![t] = "open"]
          /\ pass' = [pass EXCEPT ![t] = "push"]
          /\ count' = [count EXCEPT ![t] = 0]
          /\ is_done' = [is_done EXCEPT ![t] = FALSE]
       \/ /\ is_done[t]
          /\ pass[t] = "push" \/ count[t] = 0
          /\ step' = [step EXCEPT ![t] = "return"]
          /\ UNCHANGED <<pass, count, is_done>>
    /\ UNCHANGED <<pages, result, saved, hampered>>

\* A variant that has no ErrorScope to close.
ListUnscoped(t) == ListLoop(t) /\ UNCHANGED ctx

\* The end of the block closes the ErrorScope.
ListCloseScope(t) ==
    /\ ListLoop(t)
    /\ \E c \in {saved[t], Fresh} : ctx' = [ctx EXCEPT ![t] = c]

ListReturn(t) ==
    /\ At(t, "return", "idle")
    /\ pass' = [pass EXCEPT ![t] = "none"]
    /\ count' = [count EXCEPT ![t] = 0]
    /\ is_done' = [is_done EXCEPT ![t] = FALSE]
    /\ result' = [result EXCEPT ![t] = <<>>]
    /\ saved' = [saved EXCEPT ![t] = Fresh]
    /\ hampered' = [hampered EXCEPT ![t] = FALSE]
    /\ UNCHANGED <<ctx, pages>>

FlashStep(t) ==
    \/ FlashRequest(t)
    \/ ListBegin(t) \/ ListOpenScope(t) \/ ListPage(t) \/ ListNoPage(t)
    \/ ListCloseScope(t) \/ ListReturn(t)

-----------------------------------------------------------------------------
FlashOK ==
    /\ pages \in 0 .. MaxPages
    /\ pass \in [Threads -> {"none", "count", "push"}]
    /\ step \in [Threads -> {"idle", "open", "ask", "close", "return"}]
    /\ count \in [Threads -> 0 .. MaxPages]
    /\ is_done \in [Threads -> BOOLEAN]
    /\ result \in [Threads -> Seq(Nat)]
    /\ \A t \in Threads : Len(result[t]) <= MaxPages
    /\ saved \in [Threads -> {Failed, Fresh}]
    /\ hampered \in [Threads -> BOOLEAN]

\* The error that ends a pass ends nothing else: unless a request for a page
\* that exists fails, or an error was pending before, the list that
\* get_page_info() returns has all the pages in their order, and no error is
\* left behind.
PagesRight ==
    \A t \in Threads :
        step[t] = "return" /\ ~hampered[t] =>
            /\ result[t] = [i \in 1 .. pages |-> i - 1]
            /\ ~IsError(ctx[t])

\* The first n pages.
FirstPages(n) == [i \in 1 .. n |-> i - 1]

\* What get_page_info() knows at each statement.  Errors other than the one
\* that ends a pass make it hampered.
ListProgress(t) ==
    /\ count[t] <= pages
    /\ pass[t] = "push" => result[t] = FirstPages(count[t])
    /\ pass[t] # "push" => result[t] = FirstPages(0)
    /\ step[t] = "idle" => pass[t] = "none" /\ count[t] = 0 /\ ~is_done[t]
    /\ step[t] # "idle" => pass[t] \in {"count", "push"}
    /\ step[t] = "return" => pass[t] = "push" \/ count[t] = 0
    /\ ~hampered[t] =>
        /\ step[t] \in {"open", "ask", "return"} => ~IsError(ctx[t])
        /\ step[t] \in {"ask", "close"} => saved[t] = Fresh
        /\ step[t] \in {"open", "ask"} => ~is_done[t]
        /\ step[t] = "close" /\ is_done[t] => count[t] = pages
        /\ step[t] = "return" => count[t] = pages

\* How many more pages get_page_info() can ask for.  What ends the first pass
\* is one request, and so is what ends the second.
RequestsLeft(t) ==
    CASE step[t] \in {"idle", "return"} -> 0
      [] OTHER ->
            (IF step[t] = "close" /\ is_done[t] THEN 0 ELSE pages - count[t] + 1)
            + (IF pass[t] = "count" THEN pages + 1 ELSE 0)

\* And how many more statements its loops can go through.
StatementsLeft(t) ==
    CASE step[t] = "idle" -> 0
      [] step[t] = "return" -> 1
      [] step[t] = "open" -> 3 * RequestsLeft(t) + 1
      [] step[t] = "ask" -> 3 * RequestsLeft(t)
      [] step[t] = "close" -> 3 * RequestsLeft(t) + 2

\* get_page_info() returns in a number of statements that the pages give,
\* whatever the requests answer, and whatever the ErrorScope leaves: every one
\* takes it nearer its end, and no other thread takes it back.
ListNearerEnd ==
    [][\A t \in Threads :
        step[t] # "idle" =>
            IF step'[t] = step[t] THEN StatementsLeft(t)' = StatementsLeft(t)
            ELSE StatementsLeft(t)' < StatementsLeft(t)]_<<ctx, flashVars>>

=============================================================================
