SPECIFICATION Spec
CONSTANTS
  Width = 2
  Height = 2
  Paint = {2, 4, 5}
  Shapes = {}
PROPERTY PlantsConsumeWater
