---------------------------- MODULE AdminCatalogue ----------------------------
(***************************************************************************)
(* Pages of the admin panel about what is sold and where it lies, as desks *)
(* (DeskWords): categories, products and their variants, media, stock.     *)
(***************************************************************************)
EXTENDS DeskWords, TLC

\* A file of rows, none of which is the row that is looked at.
Import(key) ==
  [Call EXCEPT !.does = "create", !.refetches = {key}, !.starts = {"csv"}, !.reports = {"csv"}]
Other == [Call EXCEPT !.does = "other"]
----------------------------------------------------------------------------
\* Categories: empty descriptions and images are left out of a change; deleting a row
\* closes whichever row is being edited.
CategoriesImport == [import |-> Import("categories")]
CategoriesCalls ==
  [create |-> Created("categories", "form"),
   update |-> Edited("categories", "edit", [text |-> "typed", note |-> "filled"]),
   remove |-> [Deleted("categories") EXCEPT !.closes = {"edit"}]]

CategoriesForm ==
  [form |-> [Form EXCEPT !.shuts = {"edit"}, !.cleans = {"error"}, !.cancels = {"error"}]]
CategoriesEditor ==
  [edit |-> [Editor EXCEPT !.shuts = {"form"}, !.cleans = {"error"}, !.cancels = {"error"}]]
CategoriesToolbar == [import |-> Button("list", {"import"})]
CategoriesTable ==
  [create |-> Button("form", {"create"}), update |-> Button("edit", {"update"}),
   remove |-> Button("list", {})]

Categories ==
  Page("categories", FALSE, CategoriesForm @@ CategoriesEditor,
       CategoriesToolbar @@ CategoriesTable, CategoriesImport @@ CategoriesCalls)
----------------------------------------------------------------------------
\* The list of products; the search for duplicates shows groups of products as they were
\* when it ran, of which all but one each are then deleted.
ProductsImport == [import |-> Import("products")]
FindDuplicates ==
  [Other EXCEPT !.shuts = {"duplicates"}, !.starts = {"duplicates"}, !.opens = {"duplicates"}]
DeleteDuplicates ==
  [Deleted("products") EXCEPT !.closes = {"duplicates"}, !.clears = {"duplicates"},
                              !.reports = {"duplicates"}]
ProductsCalls ==
  [delete |-> Deleted("products"), findDuplicates |-> FindDuplicates,
   deleteDuplicates |-> DeleteDuplicates]

ProductsToolbar ==
  [import |-> Button("list", {"import"}), findDuplicates |-> Button("list", {})]
DuplicatesPanel == [duplicates |-> [Panel EXCEPT !.fills = "call"]]
DuplicatesButton == [deleteDuplicates |-> Button("duplicates", {"deleteDuplicates"})]
ProductsTable == [delete |-> Button("list", {})]

\* The search term reaches the key of the query 300 ms after the last key stroke.
Products ==
  Page("products", TRUE, DuplicatesPanel, ProductsToolbar @@ DuplicatesButton @@ ProductsTable,
       ProductsImport @@ ProductsCalls)

\* A new product: saving it goes to the list.
ProductNewCalls ==
  [create |-> [Call EXCEPT !.does = "create", !.reports = {"error"}, !.leaves = TRUE]]
ProductNewForm == [form |-> Standing("none")]
ProductNew ==
  Page("categories", FALSE, ProductNewForm, [create |-> Button("form", {"create"})], ProductNewCalls)
----------------------------------------------------------------------------
\* One product: its details are saved together (number is the stock, which orders change
\* too), and saving goes back to where the person came from.
ProductSave ==
  [Call EXCEPT !.sends = [text |-> "typed", number |-> "typed", note |-> "filled"],
               !.refetches = {"product"}, !.reports = {"error"}, !.leaves = TRUE]
ProductForm == [details |-> Standing("sync")]
ProductSubmit == [save |-> Button("details", {"save"})]
ProductDetails == Page("product", FALSE, ProductForm, ProductSubmit, [save |-> ProductSave])

\* Its images: the page keeps its own copy, in which a move is made before the backend has
\* it (number is the place in the order, active the link to a variant).
MoveImage == [Call EXCEPT !.sends = [number |-> "flipped"], !.patches = "before"]
AssignVariant ==
  [Call EXCEPT !.sends = [active |-> "flipped"], !.patches = "after", !.reports = {"error"}]
ImageCalls ==
  [add |-> [Call EXCEPT !.does = "create", !.loaded = TRUE, !.patches = "after", !.reports = {"error"}],
   delete |-> [Call EXCEPT !.does = "delete", !.patches = "after"],
   reorder |-> MoveImage, assign |-> AssignVariant]

ImagesField ==
  [add |-> Button("list", {"add"}), delete |-> Button("list", {"delete"}),
   reorder |-> Button("list", {"reorder"}), assign |-> Button("list", {})]

ProductImages ==
  Desk([images |-> "kept"], "images", FALSE, NoPanels, ImagesField, ImageCalls)
----------------------------------------------------------------------------
\* Its options and their values: each change loads options and variants again (which takes
\* the message away first).  The tab hides itself while it loads; here it does not.
VariantsChange ==
  [Call EXCEPT !.does = "other", !.starts = {"error"}, !.refetches = {"variants"},
               !.clears = {"error"}, !.reports = {"error"}]
AddOption == [VariantsChange EXCEPT !.does = "create"]
DeleteOption == [VariantsChange EXCEPT !.does = "delete"]
AddValue == VariantsChange
DeleteValue == VariantsChange
Generate == [VariantsChange EXCEPT !.refetches = {"variants", "product"}]

OptionsCalls ==
  [addOption |-> AddOption, deleteOption |-> DeleteOption, addValue |-> AddValue,
   deleteValue |-> DeleteValue, generate |-> Generate]
OptionsTab ==
  [addOption |-> Button("list", {"addOption"}), deleteOption |-> Button("list", {}),
   addValue |-> Button("list", {"addValue"}), deleteValue |-> Button("list", {}),
   generate |-> Button("list", {"generate"})]

ProductOptions ==
  Desk([variants |-> "kept"], "variants", TRUE, NoPanels, OptionsTab, OptionsCalls)

\* A row of the variants: a field is saved when it loses the focus and its value is not the
\* one on display, with no button that could be disabled.
Blur(column) ==
  [Call EXCEPT !.sends = [f \in {column} |-> "typed"], !.differs = TRUE, !.starts = {"error"},
               !.patches = "after", !.reports = {"error"}]
VariantSkuBlur == Blur("text")
VariantAdjustmentBlur == Blur("text")
VariantDirectPriceBlur == Blur("text")
VariantWeightBlur == Blur("note")
VariantStockBlur == [Blur("number") EXCEPT !.refetches = {"product"}]
VariantActiveChange ==
  [Call EXCEPT !.sends = [active |-> "flipped"], !.starts = {"error"}, !.patches = "after",
               !.reports = {"error"}]
DeleteVariant ==
  [Call EXCEPT !.does = "delete", !.starts = {"error"}, !.refetches = {"product"},
               !.patches = "after", !.reports = {"error"}]

VariantRow == [fields |-> Standing("load")]
VariantRowButtons ==
  [sku |-> Button("fields", {}), setActive |-> Button("list", {}), delete |-> Button("list", {})]
VariantRows ==
  Desk([variants |-> "kept"], "variants", FALSE, VariantRow, VariantRowButtons,
       [sku |-> VariantSkuBlur, setActive |-> VariantActiveChange, delete |-> DeleteVariant])

\* A build has one of the two prices, an adjustment or the price itself.
VariantPriceFields == [price |-> Button("fields", {}), weight |-> Button("fields", {})]
AdjustedVariants ==
  Desk([variants |-> "kept"], "variants", FALSE, VariantRow, VariantPriceFields,
       [price |-> VariantAdjustmentBlur, weight |-> VariantWeightBlur])
PricedVariants ==
  Desk([variants |-> "kept"], "variants", FALSE, VariantRow, VariantPriceFields,
       [price |-> VariantDirectPriceBlur, weight |-> VariantWeightBlur])

\* The product's stock is the sum of its variants' stocks, so it is asked for again.
VariantStocks ==
  Desk([variants |-> "kept", product |-> "cached"], "variants", FALSE, VariantRow,
       [stock |-> Button("fields", {})], [stock |-> VariantStockBlur])
----------------------------------------------------------------------------
\* Media files, and the import of variants (which shows no list).
MediaUpload ==
  [Call EXCEPT !.does = "create", !.refetches = {"media"}, !.starts = {"upload"},
               !.reports = {"upload"}]
MediaDelete == [Deleted("media") EXCEPT !.closes = {"confirm"}]
MediaToolbar == [upload |-> Button("list", {"upload"})]
MediaList == [confirm |-> Dialog]
MediaDialog == [delete |-> Button("confirm", {"delete"})]
Media ==
  Page("media", FALSE, MediaList, MediaToolbar @@ MediaDialog,
       [upload |-> MediaUpload, delete |-> MediaDelete])

VariantsImport == [Other EXCEPT !.starts = {"result"}, !.reports = {"result"}]
BulkVariantsForm == [import |-> Button("list", {"import"})]
BulkVariants == Desk(NoCalls, "none", FALSE, NoPanels, BulkVariantsForm, [import |-> VariantsImport])
----------------------------------------------------------------------------
\* Warehouses; number is the stock of one variant in one warehouse, which can be set, be
\* changed by a difference, and be moved to another warehouse.
StockSaved ==
  [Changed("warehouses") EXCEPT !.clears = {"stock"}, !.reports = {"stock"}, !.via = "pending"]
SetStock == [StockSaved EXCEPT !.sends = [number |-> "typed"]]
AdjustStock == [StockSaved EXCEPT !.sends = [number |-> "added"]]
StockForm == [stock |-> Form]
StockButtons ==
  [setStock |-> Button("stock", {"pending"}), adjustStock |-> Button("stock", {"pending"})]
Stock ==
  Page("warehouses", FALSE, StockForm, StockButtons,
       [setStock |-> SetStock, adjustStock |-> AdjustStock])

CreateWarehouse ==
  [Created("warehouses", "form") EXCEPT !.clears = {"create"}, !.reports = {"create"}]
DeleteWarehouse == [Deleted("warehouses") EXCEPT !.closes = {"confirm"}]
WarehouseForm == [form |-> [Form EXCEPT !.cleans = {"create"}, !.cancels = {"create"}]]
WarehouseTable == [create |-> Button("form", {"create"}), delete |-> Button("confirm", {"delete"})]
Warehouses ==
  Page("warehouses", FALSE, WarehouseForm @@ [confirm |-> Dialog], WarehouseTable,
       [create |-> CreateWarehouse, delete |-> DeleteWarehouse])

StockOverview == Page("products-stock", TRUE, NoPanels, NoButtons, NoCalls)

\* The variants to choose from are loaded for each product picked; the answer for the
\* product picked before may come later.
Transfer ==
  [Changed("warehouses") EXCEPT !.sends = [number |-> "added"], !.starts = {"transfer"},
                                !.reports = {"transfer"}]
TransferVariants == [warehouses |-> "cached", variants |-> "kept"]
TransferForm == [transfer |-> Button("list", {"transfer"})]
Transfers ==
  Desk(TransferVariants, "variants", TRUE, NoPanels, TransferForm, [transfer |-> Transfer])
==============================================================================
