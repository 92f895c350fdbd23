------------------------------- MODULE Todoey -------------------------------
(***************************************************************************)
(* The to-do app: a table of categories, and the table of one category's   *)
(* items with its search bar, over one Realm on disk.                      *)
(*                                                                         *)
(* Everything runs on the main thread.  What makes the app hard to test is *)
(* that three copies of a list have to agree: the Realm, the live Results  *)
(* a screen holds over it, and the rows the table view has counted.  The   *)
(* table is told of a change by reloadData, or of a single row, and UIKit  *)
(* ends the process when the single row does not explain the new count.    *)
(* A Realm write may fail; the app only prints that.                       *)
(***************************************************************************)
EXTENDS Integers, Sequences, FiniteSets, SequencesExt, Sorting

CONSTANTS
    Category,    \* Category objects
    Item,        \* Item objects: numbers, in the order of their titles
    Text,        \* what can be typed into the search bar
    NoText,      \* the empty search bar
    Matches,     \* [Text -> SUBSET Item]: title CONTAINS[cd] text
    NoCategory   \* the items screen is not there

ASSUME TodoeyAssumption ==
    /\ Item \subseteq Nat
    /\ NoText \notin Text
    /\ NoCategory \notin Category
    /\ Matches \in [Text -> SUBSET Item]

VARIABLES
    \* The Realm, on disk
    categories,   \* Seq(Category): the Category objects, oldest first
    items,        \* Seq(Item): the Item objects, oldest first
    done,         \* the items that are checked
    parent,       \* [Item -> Category]: the category whose list has the item
    \* The two screens
    categoryRows, \* Seq(Category): the rows of the table of categories
    selected,     \* TodoListViewController.selectedCategory
    filters,      \* the searches todoItems has been filtered with
    newestFirst,  \* todoItems is sorted by timestamp, not by title
    text,         \* the text of the search bar
    itemRows,     \* the rows of the table of items: an item and its checkmark
    \* The process
    alert,        \* the alert that asks for a new name: "none", ...
    crashed

realm == <<categories, items, done, parent>>
itemsScreen == <<selected, filters, newestFirst, text, itemRows>>
vars == <<realm, categoryRows, itemsScreen, alert, crashed>>

-----------------------------------------------------------------------------
(* Results *)

\* The items of a category that pass all the given searches.
Found(category, terms) ==
    {i \in ToSet(items) : parent[i] = category /\ \A t \in terms : i \in Matches[t]}

\* todoItems: the items that pass every search put on so far, by title or
\* newest first.
TodoItems ==
    LET found == Found(selected, filters)
    IN  IF newestFirst THEN Selected(Reverse(items), found) ELSE Ascending(found)

\* The cells that cellForRowAt makes for todoItems.
Cells ==
    [n \in DOMAIN TodoItems |-> [item |-> TodoItems[n], checked |-> TodoItems[n] \in done]]

\* reloadData of the table of items: a step's last conjunct.
ReloadItems == itemRows' = Cells'

\* loadItems: the whole category, by title.
LoadItems ==
    /\ filters' = {}
    /\ newestFirst' = FALSE
    /\ ReloadItems

-----------------------------------------------------------------------------
(* The process *)

\* UIKit compares the count before an insertion or deletion of one row with
\* the count the data source gives afterwards.
Explains(before, change, after) == after = before + change

Idle == ~crashed /\ alert = "none"

OnItems == selected # NoCategory

Init ==
    /\ categories = <<>>
    /\ items = <<>>
    /\ done = {}
    /\ parent \in [Item -> {NoCategory}]
    /\ categoryRows = <<>>
    /\ selected = NoCategory
    /\ filters = {}
    /\ newestFirst = FALSE
    /\ text = NoText
    /\ itemRows = <<>>
    /\ alert = "none"
    /\ crashed = FALSE

\* The app has crashed or is killed, and is launched again.
Relaunch ==
    /\ categoryRows' = categories
    /\ selected' = NoCategory
    /\ filters' = {}
    /\ newestFirst' = FALSE
    /\ text' = NoText
    /\ itemRows' = <<>>
    /\ alert' = "none"
    /\ crashed' = FALSE
    /\ UNCHANGED realm

-----------------------------------------------------------------------------
(* CategoryViewControllerTableViewController *)

AddCategoryTapped ==
    /\ Idle /\ ~OnItems
    /\ alert' = "category"
    /\ UNCHANGED <<realm, categoryRows, itemsScreen, crashed>>

Cancel ==
    /\ ~crashed
    /\ alert # "none"
    /\ alert' = "none"
    /\ UNCHANGED <<realm, categoryRows, itemsScreen, crashed>>

\* saveCategories: whether the write went through or not, a row is inserted
\* at the end.
SaveCategories(c, written) ==
    /\ ~crashed
    /\ alert = "category"
    /\ ~Contains(categories, c)
    /\ alert' = "none"
    /\ categories' = IF written THEN Append(categories, c) ELSE categories
    /\ IF Explains(Len(categoryRows), 1, Len(categories'))
       THEN /\ categoryRows' = Append(categoryRows, Last(categories'))
            /\ UNCHANGED crashed
       ELSE /\ crashed' = TRUE
            /\ UNCHANGED categoryRows
    /\ UNCHANGED <<items, done, parent, itemsScreen>>

\* A swipe on the row of a category: updateModel deletes the category's
\* object and leaves its items in the Realm, and SwipeCellKit deletes the row.
DeleteCategory(row, written) ==
    /\ Idle /\ ~OnItems
    /\ row \in DOMAIN categoryRows
    /\ categories' = IF written THEN RemoveAt(categories, row) ELSE categories
    /\ parent' = IF written
                 THEN [i \in Item |-> IF parent[i] = categories[row] THEN NoCategory
                                      ELSE parent[i]]
                 ELSE parent
    /\ IF Explains(Len(categoryRows), -1, Len(categories'))
       THEN /\ categoryRows' = RemoveAt(categoryRows, row)
            /\ UNCHANGED crashed
       ELSE /\ crashed' = TRUE
            /\ UNCHANGED categoryRows
    /\ UNCHANGED <<items, done, itemsScreen, alert>>

\* A tap on a category: a new items screen loads the category's items.
DidSelectCategory(row) ==
    /\ Idle /\ ~OnItems
    /\ row \in DOMAIN categoryRows
    /\ selected' = categories[row]
    /\ text' = NoText
    /\ UNCHANGED <<realm, categoryRows, alert, crashed>>
    /\ LoadItems

-----------------------------------------------------------------------------
(* TodoListViewController *)

\* Faulty: the screen that is left keeps its search.
BackKeepsSearch ==
    /\ Idle /\ OnItems
    /\ selected' = NoCategory
    /\ itemRows' = <<>>
    /\ UNCHANGED <<realm, categoryRows, filters, newestFirst, text, alert, crashed>>

Back ==
    /\ Idle /\ OnItems
    /\ selected' = NoCategory
    /\ filters' = {}
    /\ newestFirst' = FALSE
    /\ text' = NoText
    /\ itemRows' = <<>>
    /\ UNCHANGED <<realm, categoryRows, alert, crashed>>

\* A tap on an item toggles it and reloads the table.
DidSelectItem(row, written) ==
    /\ Idle /\ OnItems
    /\ row \in DOMAIN itemRows
    /\ LET i == TodoItems[row]
       IN  done' = IF ~written THEN done
                   ELSE IF i \in done THEN done \ {i} ELSE done \cup {i}
    /\ UNCHANGED <<categories, items, parent, categoryRows, selected, filters, newestFirst,
                   text, alert, crashed>>
    /\ ReloadItems

AddItemTapped ==
    /\ Idle /\ OnItems
    /\ alert' = "item"
    /\ UNCHANGED <<realm, categoryRows, itemsScreen, crashed>>

\* Faulty: the new item is not shown to the table.
AddNewItemQuietly(i, written) ==
    /\ ~crashed
    /\ alert = "item"
    /\ ~Contains(items, i)
    /\ alert' = "none"
    /\ items' = IF written THEN Append(items, i) ELSE items
    /\ parent' = IF written THEN [parent EXCEPT ![i] = selected] ELSE parent
    /\ UNCHANGED <<categories, done, categoryRows, itemsScreen, crashed>>

\* addNewItem: the item joins the selected category, and the whole category is
\* loaded again, whatever was searched for.
AddNewItem(i, written) ==
    /\ ~crashed
    /\ alert = "item"
    /\ ~Contains(items, i)
    /\ alert' = "none"
    /\ items' = IF written THEN Append(items, i) ELSE items
    /\ parent' = IF written THEN [parent EXCEPT ![i] = selected] ELSE parent
    /\ UNCHANGED <<categories, done, categoryRows, selected, text, crashed>>
    /\ LoadItems

\* A swipe on the row of an item.
DeleteItem(row, written) ==
    /\ Idle /\ OnItems
    /\ row \in DOMAIN itemRows
    /\ LET i == TodoItems[row]
       IN  /\ items' = IF written THEN Selected(items, Item \ {i}) ELSE items
           /\ done' = IF written THEN done \ {i} ELSE done
           /\ parent' = IF written THEN [parent EXCEPT ![i] = NoCategory] ELSE parent
    /\ UNCHANGED <<categories, categoryRows, selected, filters, newestFirst, text, alert>>
    /\ IF Explains(Len(itemRows), -1, Len(Cells'))
       THEN /\ itemRows' = RemoveAt(itemRows, row)
            /\ UNCHANGED crashed
       ELSE /\ crashed' = TRUE
            /\ UNCHANGED itemRows

\* Faulty: an emptied search bar leaves the last result.
TextDidChangeOnly(t) ==
    /\ Idle /\ OnItems
    /\ t # text
    /\ text' = t
    /\ UNCHANGED <<realm, categoryRows, selected, filters, newestFirst, itemRows, alert,
                   crashed>>

\* The text of the search bar changes; an emptied one loads the category.
TextDidChange(t) ==
    /\ Idle /\ OnItems
    /\ t # text
    /\ text' = t
    /\ UNCHANGED <<realm, categoryRows, selected, alert, crashed>>
    /\ IF t = NoText THEN LoadItems ELSE UNCHANGED <<filters, newestFirst, itemRows>>

\* Faulty: the rows are left as they are.
SearchWithoutReload ==
    /\ Idle /\ OnItems
    /\ text # NoText
    /\ filters' = filters \cup {text}
    /\ newestFirst' = TRUE
    /\ UNCHANGED <<realm, categoryRows, selected, text, itemRows, alert, crashed>>

\* The search button, which UIKit enables for a text only: the last result is
\* filtered further, newest first.
SearchBarSearchButtonClicked ==
    /\ Idle /\ OnItems
    /\ text # NoText
    /\ filters' = filters \cup {text}
    /\ newestFirst' = TRUE
    /\ UNCHANGED <<realm, categoryRows, selected, text, alert, crashed>>
    /\ ReloadItems

-----------------------------------------------------------------------------

Next ==
    \/ Relaunch
    \/ AddCategoryTapped
    \/ Cancel
    \/ AddItemTapped
    \/ Back
    \/ SearchBarSearchButtonClicked
    \/ \E t \in Text \cup {NoText} : TextDidChange(t)
    \/ \E row \in DOMAIN categoryRows : DidSelectCategory(row)
    \/ \E written \in BOOLEAN :
          \/ \E c \in Category : SaveCategories(c, written)
          \/ \E row \in DOMAIN categoryRows : DeleteCategory(row, written)
          \/ \E i \in Item : AddNewItem(i, written)
          \/ \E row \in DOMAIN itemRows : DidSelectItem(row, written)
          \/ \E row \in DOMAIN itemRows : DeleteItem(row, written)

Spec == Init /\ [][Next]_vars

-----------------------------------------------------------------------------
(* Properties *)

\* Every variable has its type, the selected category exists, and nothing is
\* left of an items screen that is not there.
TypeOK ==
    /\ categories \in Seq(Category)
    /\ items \in Seq(Item)
    /\ done \subseteq ToSet(items)
    /\ parent \in [Item -> ToSet(categories) \cup {NoCategory}]
    /\ categoryRows \in Seq(Category)
    /\ selected \in ToSet(categories) \cup {NoCategory}
    /\ filters \subseteq Text
    /\ newestFirst \in BOOLEAN
    /\ text \in Text \cup {NoText}
    /\ itemRows \in Seq([item : Item, checked : BOOLEAN])
    /\ ~OnItems => filters = {} /\ text = NoText /\ itemRows = <<>>
    /\ alert \in {"none", "category", "item"}
    /\ crashed \in BOOLEAN

\* The rows of both tables are the live results, in their order and with their
\* checkmarks: a tap or a swipe on a row, which the code takes for an index
\* into the results, acts on the object that the row shows.
RowsAreResults ==
    ~crashed =>
        /\ categoryRows = categories
        /\ OnItems => itemRows = Cells

\* With nothing in the search bar the whole category is listed, whatever was
\* searched, added, checked or deleted before.
EmptySearchShowsAll ==
    OnItems /\ text = NoText => Range(TodoItems) = Found(selected, {})

\* The table view never takes the process down over a write that went
\* through: only a failed write leaves it with a row the Realm does not have.
CrashOnlyAfterFailedWrite ==
    [][~crashed /\ crashed' => UNCHANGED realm]_vars
=============================================================================
